---------------------------- MODULE StreamsProofs ----------------------------
(***************************************************************************)
(* What holds of the observers, of an account and of the candle monitor,   *)
(* the parts that run on timers and connections, for any connections,      *)
(* loops, users, limit and changes of alerts, any trial, and any number of *)
(* bars and places.  The three share no state: each has an invariant and   *)
(* theorems of its own.                                                    *)
(***************************************************************************)
EXTENDS WsObserve, Account, CandleMonitor, FiniteSetTheorems, TLAPS

(* The observers *)
\* A loop is in the handler of one new connection at a time.
OneShakes == \A c, d \in Conns :
    socket[c] = "shaking" /\ socket[d] = "shaking" /\ LoopOf[c] = LoopOf[d] => c = d

\* Those who have passed the limit and are not counted yet are counted with the others.
Shaking(i) == {c \in Conns : IpOf[c] = i /\ socket[c] = "shaking"}
CountedAt(i) == {c \in Conns : IpOf[c] = i /\ Counted(c)}
AllCounted == {c \in Conns : Counted(c)}
PlacesLeft == \A i \in Ips : perIp[i] + Cardinality(Shaking(i)) <= IpLimit + Cardinality(Loops) - 1

\* An open connection owes the one frame whose timer is set, and no frame while the tick
\* has it still to send to.
NewFrame(c) == [conn |-> c, newest |-> TRUE]
OneFrame ==
    /\ \A c \in Conns : socket[c] = "up" /\ inflight[c] # 0 => NewFrame(c) \in settle
    /\ \A c \in Conns : socket[c] \in {"new", "shaking"} => inflight[c] = 0
    /\ \A s \in settle : /\ s.conn \notin snap /\ socket[s.conn] \notin {"new", "shaking"}
                         /\ s.newest /\ socket[s.conn] = "up" => inflight[s.conn] = 1

\* A copy of the current revision has every change that is written, and no other than
\* those made since.
RevisionsGrow == /\ \A c \in Conns : copy[c].has => copy[c].rev <= rev[UserOf[c]]
                 /\ reading.user \in Users => reading.rev <= rev[reading.user]
UpToDate(lists, u, stage) == \A h \in Changes :
    /\ OwnerOf[h] = u /\ stage[h] = "kept" => h \in lists
    /\ h \in lists => OwnerOf[h] = u /\ stage[h] \in {"applied", "kept", "undone"}
CopiesUpToDate == \A c \in Conns :
    copy[c].has /\ copy[c].rev = rev[UserOf[c]] => UpToDate(copy[c].lists, UserOf[c], change)

WsInv == /\ WsTypeOK /\ CountsMatch /\ OneShakes /\ PlacesLeft /\ OneFrame
         /\ RevisionsGrow /\ CopiesUpToDate /\ OnlyTheSilentAreCut

\* The counts are numbers, and somebody who is counted is counted somewhere.
LEMMA CountsAreNumbers ==
    ASSUME WsConstants
    PROVE  /\ \A i : /\ IsFiniteSet(Shaking(i)) /\ Cardinality(Shaking(i)) \in Nat
                     /\ IsFiniteSet(CountedAt(i)) /\ Cardinality(CountedAt(i)) \in Nat
                     /\ \A c \in CountedAt(i) : Cardinality(CountedAt(i)) >= 1
           /\ IsFiniteSet(AllCounted) /\ Cardinality(AllCounted) \in Nat
           /\ \A c \in AllCounted : Cardinality(AllCounted) >= 1
           /\ Cardinality(Loops) \in Nat
<1>1. ASSUME NEW S, S \subseteq Conns
      PROVE  IsFiniteSet(S) /\ Cardinality(S) \in Nat /\ \A c \in S : Cardinality(S) >= 1
  <2>1. IsFiniteSet(S) /\ Cardinality(S) \in Nat
    BY <1>1, FS_Subset, FS_CardinalityType DEF WsConstants
  <2>2. S # {} => Cardinality(S) # 0
    BY <2>1, FS_EmptySet
  <2> QED BY <2>1, <2>2
<1>2. \A i : Shaking(i) \subseteq Conns /\ CountedAt(i) \subseteq Conns
  BY DEF Shaking, CountedAt
<1>3. AllCounted \subseteq Conns
  BY DEF AllCounted
<1>4. Cardinality(Loops) \in Nat
  BY FS_CardinalityType DEF WsConstants
<1> QED BY <1>1, <1>2, <1>3, <1>4

\* Every variable keeps its type.
LEMMA WsTyped == ASSUME WsConstants, WsInv, WsNext PROVE WsTypeOK'
<1> USE DEF WsConstants
<1>0. WsTypeOK /\ CountsMatch /\ OneFrame
  BY DEF WsInv
<1>1. ASSUME NEW c \in Conns, Shake(c) \/ Refuse(c) \/ PeerGone(c) PROVE WsTypeOK'
  BY <1>0, <1>1 DEF WsTypeOK, Shake, Refuse, PeerGone, sending, alerts, AtLimit
<1>2. ASSUME NEW c \in Conns, Enlist(c) \/ FallSilent(c) PROVE WsTypeOK'
  <2>1. CASE Enlist(c)
    <3>1. perIp' \in [Ips -> Nat] /\ activeWs' \in Nat /\ listed' \subseteq Conns
      BY <1>0, <2>1 DEF WsTypeOK, Enlist
    <3>2. socket' \in [Conns -> {"new", "shaking", "up", "gone", "closed"}]
      BY <1>0, <2>1 DEF WsTypeOK, Enlist
    <3> QED BY <1>0, <2>1, <3>1, <3>2 DEF WsTypeOK, Enlist, sending, alerts
  <2>2. CASE FallSilent(c)
    <3>1. silent' \subseteq Conns
      BY <1>0, <2>2 DEF WsTypeOK, FallSilent
    <3> QED BY <1>0, <2>2, <3>1 DEF WsTypeOK, FallSilent, sending, alerts
  <2> QED BY <1>2, <2>1, <2>2
<1>3. ASSUME NEW c \in Conns, CloseHandled(c) PROVE WsTypeOK'
  <2>1. c \in CountedAt(IpOf[c]) /\ c \in AllCounted
    BY <1>3 DEF CloseHandled, HandleClose, CountedAt, AllCounted, Counted
  <2>2. perIp[IpOf[c]] >= 1 /\ activeWs >= 1
    <3>1. perIp[IpOf[c]] = Cardinality(CountedAt(IpOf[c])) /\ activeWs = Cardinality(AllCounted)
      BY <1>0 DEF CountsMatch, CountedAt, AllCounted
    <3> QED BY <2>1, <3>1, CountsAreNumbers
  <2>3. perIp[IpOf[c]] \in Nat /\ activeWs \in Nat
    BY <1>0 DEF WsTypeOK
  <2>4. perIp[IpOf[c]] - 1 \in Nat /\ activeWs - 1 \in Nat
    BY <2>2, <2>3
  <2>5. NoCopy \in [has : BOOLEAN, rev : Nat, lists : SUBSET Changes]
    BY DEF NoCopy
  <2> QED BY <1>0, <1>3, <2>4, <2>5 DEF WsTypeOK, CloseHandled, HandleClose, Uncount, Forget, alerts
<1>4. ASSUME NEW h \in Changes, Apply(h) \/ Keep(h) \/ TakeBack(h) PROVE WsTypeOK'
  <2>1. change' \in [Changes -> {"todo", "applied", "kept", "undone"}]
    BY <1>0, <1>4 DEF WsTypeOK, Apply, Keep, TakeBack
  <2>2. rev' \in [Users -> Nat]
    BY <1>0, <1>4 DEF WsTypeOK, Apply, Keep, TakeBack
  <2>3. UNCHANGED <<network, sending, copy, snap, reading, shown>>
    BY <1>4 DEF Apply, Keep, TakeBack
  <2> QED BY <1>0, <2>1, <2>2, <2>3 DEF WsTypeOK, network, sending
<1>5. ASSUME Tick PROVE WsTypeOK'
  <2>1. listed' \subseteq Conns /\ snap' \subseteq Conns /\ cut' \subseteq Conns
    BY <1>0, <1>5 DEF WsTypeOK, Tick, TakeTargets, Dead
  <2>2. socket' \in [Conns -> {"new", "shaking", "up", "gone", "closed"}]
    BY <1>0, <1>5 DEF WsTypeOK, Tick
  <2>3. /\ UNCHANGED <<perIp, activeWs, silent, inflight, copy, shown, reading, settle>>
        /\ UNCHANGED <<change, rev>>
    BY <1>5 DEF Tick, TakeTargets, alerts
  <2> QED BY <1>0, <2>1, <2>2, <2>3 DEF WsTypeOK
<1>6. ASSUME NEW u \in Users, ReadRevision(u) PROVE WsTypeOK'
  BY <1>0, <1>6 DEF WsTypeOK, ReadRevision, BeginGroup, alerts
<1>7. ASSUME NEW u \in Users, SendGroup(u) PROVE WsTypeOK'
  <2>1. \A first \in Group(u) : CopyFor(first) \in [has : BOOLEAN, rev : Nat, lists : SUBSET Changes]
    BY <1>0 DEF WsTypeOK, CopyFor, Group, ListsOf
  <2>2. PICK first \in Group(u) :
           /\ copy' = [c \in Conns |-> IF c \in Group(u) THEN CopyFor(first) ELSE copy[c]]
           /\ shown' = [c \in Conns |-> IF c \in Sent(u) THEN CopyFor(first).lists ELSE shown[c]]
    BY <1>7 DEF SendGroup
  <2>3. CopyFor(first) \in [has : BOOLEAN, rev : Nat, lists : SUBSET Changes]
    BY <2>1
  <2>4. copy' \in [Conns -> [has : BOOLEAN, rev : Nat, lists : SUBSET Changes]]
    BY <1>0, <2>2, <2>3 DEF WsTypeOK
  <2>5. shown' \in [Conns -> SUBSET Changes]
    <3>1. CopyFor(first).lists \in SUBSET Changes
      BY <2>3
    <3> QED BY <1>0, <2>2, <3>1 DEF WsTypeOK
  <2>6. settle' \subseteq [conn : Conns, newest : BOOLEAN]
    <3>1. Sent(u) \subseteq Conns
      BY <1>0 DEF Sent, Up, Group, WsTypeOK
    <3>2. ASSUME NEW s \in [conn : Conns, newest : BOOLEAN]
          PROVE  [s EXCEPT !.newest = @ /\ s.conn \notin Sent(u)] \in [conn : Conns, newest : BOOLEAN]
      BY <3>2
    <3>3. ASSUME NEW c \in Sent(u) PROVE [conn |-> c, newest |-> TRUE] \in [conn : Conns, newest : BOOLEAN]
      BY <3>1
    <3>4. settle' = {[s EXCEPT !.newest = @ /\ s.conn \notin Sent(u)] : s \in settle}
                      \cup {[conn |-> c, newest |-> TRUE] : c \in Sent(u)}
      BY <1>7 DEF SendGroup, EndGroup
    <3>5. settle \subseteq [conn : Conns, newest : BOOLEAN]
      BY <1>0 DEF WsTypeOK
    <3>6. {[s EXCEPT !.newest = @ /\ s.conn \notin Sent(u)] : s \in settle} \subseteq [conn : Conns, newest : BOOLEAN]
      BY <3>2, <3>5
    <3>7. {[conn |-> c, newest |-> TRUE] : c \in Sent(u)} \subseteq [conn : Conns, newest : BOOLEAN]
      BY <3>3
    <3> QED BY <3>4, <3>6, <3>7
  <2>7. NotReading \in [user : Users \cup {Nobody}, rev : Nat]
    BY DEF NotReading
  <2>8. inflight' \in [Conns -> Nat] /\ socket' \in [Conns -> {"new", "shaking", "up", "gone", "closed"}]
        /\ cut' \subseteq Conns
    BY <1>0, <1>7 DEF WsTypeOK, SendGroup, Up, Group, Owing
  <2>9. UNCHANGED <<listed, perIp, activeWs, silent, alerts>> /\ snap' \subseteq Conns /\ reading' = NotReading
    BY <1>0, <1>7 DEF WsTypeOK, SendGroup, EndGroup, Group
  <2> QED BY <1>0, <2>4, <2>5, <2>6, <2>7, <2>8, <2>9 DEF WsTypeOK, alerts
<1>8. ASSUME NEW s \in settle, Release(s) PROVE WsTypeOK'
  <2>1. s.conn \in Conns /\ inflight \in [Conns -> Nat]
    BY <1>0, <1>8 DEF WsTypeOK
  <2>2. s.newest /\ socket[s.conn] = "up" => inflight[s.conn] - 1 \in Nat
    BY <1>0, <1>8 DEF OneFrame
  <2>3. inflight' \in [Conns -> Nat]
    BY <1>8, <2>1, <2>2 DEF Release
  <2> QED BY <1>0, <1>8, <2>3 DEF WsTypeOK, Release, Settle, alerts
<1> QED BY <1>1, <1>2, <1>3, <1>4, <1>5, <1>6, <1>7, <1>8 DEF WsNext, Handlers, MainLoop

CountsRight == /\ \A i \in Ips : perIp[i] = Cardinality(CountedAt(i))
               /\ activeWs = Cardinality(AllCounted)
OnTheList == /\ \A c \in Conns : socket[c] = "up" => c \in listed
             /\ \A c \in listed : Counted(c)

LEMMA CountsSplit == CountsMatch <=> CountsRight /\ OnTheList
BY DEF CountsMatch, CountsRight, OnTheList, CountedAt, AllCounted

\* Who leaves the handler of new connections without being counted makes room.
LEMMA SameCounts ==
    ASSUME WsConstants, WsTypeOK, CountsRight, OneShakes, PlacesLeft,
           perIp' = perIp, activeWs' = activeWs,
           \A c \in Conns : Counted(c)' = Counted(c),
           \A c \in Conns : socket'[c] = "shaking" => socket[c] = "shaking"
    PROVE  CountsRight' /\ OneShakes' /\ PlacesLeft'
<1>1. AllCounted' = AllCounted /\ \A i \in Ips : CountedAt(i)' = CountedAt(i)
  BY DEF AllCounted, CountedAt
<1>2. CountsRight'
  BY <1>1 DEF CountsRight
<1>3. OneShakes'
  BY DEF OneShakes
<1>4. ASSUME NEW i \in Ips
      PROVE  perIp'[i] + Cardinality(Shaking(i)') <= IpLimit + Cardinality(Loops) - 1
  <2>1. Shaking(i)' \subseteq Shaking(i) /\ IsFiniteSet(Shaking(i))
    BY CountsAreNumbers DEF Shaking
  <2>2. Cardinality(Shaking(i)') <= Cardinality(Shaking(i)) /\ Cardinality(Shaking(i)') \in Nat
    BY <2>1, FS_Subset, FS_CardinalityType
  <2>3. perIp[i] \in Nat /\ perIp[i] + Cardinality(Shaking(i)) <= IpLimit + Cardinality(Loops) - 1
    BY DEF WsTypeOK, PlacesLeft
  <2> QED BY <2>2, <2>3, CountsAreNumbers DEF WsConstants
<1> QED BY <1>2, <1>3, <1>4 DEF PlacesLeft

\* The limit is read with fewer than that many counted, and each loop has one connection
\* in the handler.
LEMMA ShakeCounts ==
    ASSUME WsConstants, WsTypeOK, CountsRight, OneShakes, PlacesLeft, NEW c \in Conns, Shake(c)
    PROVE  CountsRight' /\ OneShakes' /\ PlacesLeft'
<1>1. CASE AtLimit(c)
  <2>1. \A d \in Conns : Counted(d)' = Counted(d) /\ (socket'[d] = "shaking" => socket[d] = "shaking")
    BY <1>1 DEF Shake, Counted, WsTypeOK
  <2>2. perIp' = perIp /\ activeWs' = activeWs
    BY DEF Shake
  <2> QED BY <2>1, <2>2, SameCounts
<1>2. CASE ~AtLimit(c)
  <2>1. /\ socket' = [socket EXCEPT ![c] = "shaking"] /\ socket[c] = "new"
        /\ perIp' = perIp /\ activeWs' = activeWs
        /\ \A d \in Conns : LoopOf[d] = LoopOf[c] => socket[d] # "shaking"
    BY <1>2 DEF Shake
  <2>2. OneShakes'
    BY <2>1 DEF OneShakes, WsTypeOK
  <2>3. \A d \in Conns : Counted(d)' = Counted(d)
    BY <2>1 DEF Counted, WsTypeOK
  <2>4. AllCounted' = AllCounted /\ \A i \in Ips : CountedAt(i)' = CountedAt(i)
    BY <2>3 DEF AllCounted, CountedAt
  <2>5. ASSUME NEW i \in Ips
        PROVE  perIp'[i] + Cardinality(Shaking(i)') <= IpLimit + Cardinality(Loops) - 1
    <3>1. perIp[i] \in Nat /\ IpLimit \in Nat /\ Cardinality(Loops) \in Nat
      BY CountsAreNumbers DEF WsTypeOK, WsConstants
    <3>2. CASE i = IpOf[c]
      <4>1. perIp[i] <= IpLimit - 1
        BY <1>2, <3>1, <3>2 DEF AtLimit
      <4> DEFINE shaking == Shaking(i)'
                 f == [d \in shaking |-> LoopOf[d]]
      <4>2. \A d, e \in shaking : LoopOf[d] \in Loops /\ (LoopOf[d] = LoopOf[e] => d = e)
        BY <2>2 DEF Shaking, OneShakes, WsConstants
      <4> HIDE DEF shaking
      <4>3. f \in Injection(shaking, Loops)
        <5>1. f \in [shaking -> Loops] /\ \A d, e \in shaking : f[d] = f[e] => d = e
          BY <4>2
        <5> HIDE DEF f
        <5> QED BY <5>1 DEF Injection, IsInjective
      <4> HIDE DEF f
      <4>4. IsFiniteSet(shaking) /\ Cardinality(shaking) <= Cardinality(Loops)
        BY <4>3, FS_Injection DEF WsConstants
      <4>5. Cardinality(shaking) \in Nat
        BY <4>4, FS_CardinalityType
      <4>6. perIp'[i] + Cardinality(shaking) <= IpLimit + Cardinality(Loops) - 1
        BY <2>1, <3>1, <4>1, <4>4, <4>5
      <4> QED BY <4>6 DEF shaking
    <3>3. CASE i # IpOf[c]
      <4>1. Shaking(i)' = Shaking(i)
        BY <2>1, <3>3 DEF Shaking, WsTypeOK
      <4> QED BY <2>1, <4>1 DEF PlacesLeft
    <3> QED BY <3>2, <3>3
  <2> QED BY <2>1, <2>2, <2>4, <2>5 DEF CountsRight, PlacesLeft
<1> QED BY <1>1, <1>2

\* A connection that is opened takes in the count the place it had in the handler.
LEMMA OpenCounts ==
    ASSUME WsConstants, WsTypeOK, CountsRight, OneShakes, PlacesLeft, NEW c \in Conns, Enlist(c)
    PROVE  CountsRight' /\ OneShakes' /\ PlacesLeft'
<1> DEFINE i == IpOf[c]
<1>1. /\ socket[c] = "shaking" /\ socket' = [socket EXCEPT ![c] = "up"]
      /\ perIp' = [perIp EXCEPT ![i] = @ + 1] /\ activeWs' = activeWs + 1
  BY DEF Enlist
<1>2. \A d \in Conns : d # c => socket'[d] = socket[d]
  BY <1>1 DEF WsTypeOK
<1>3. socket'[c] = "up" /\ i \in Ips /\ perIp \in [Ips -> Nat]
  BY <1>1 DEF WsTypeOK, WsConstants
<1>4. AllCounted' = AllCounted \cup {c} /\ c \notin AllCounted
  BY <1>1, <1>2, <1>3 DEF AllCounted, Counted
<1>5. CountedAt(i)' = CountedAt(i) \cup {c} /\ c \notin CountedAt(i)
  BY <1>1, <1>2, <1>3 DEF CountedAt, Counted
<1>6. Shaking(i)' = Shaking(i) \ {c} /\ c \in Shaking(i)
  BY <1>1, <1>2, <1>3 DEF Shaking
<1>7. \A j \in Ips : j # i => CountedAt(j)' = CountedAt(j) /\ Shaking(j)' = Shaking(j)
  BY <1>2 DEF CountedAt, Counted, Shaking
<1> HIDE DEF i
<1>8. CountsRight'
  <2>1. Cardinality(AllCounted') = Cardinality(AllCounted) + 1
    BY <1>4, FS_AddElement, CountsAreNumbers
  <2>2. Cardinality(CountedAt(i)') = Cardinality(CountedAt(i)) + 1
    BY <1>5, FS_AddElement, CountsAreNumbers
  <2>3. \A j \in Ips : perIp'[j] = Cardinality(CountedAt(j)')
    BY <1>1, <1>3, <1>7, <2>2 DEF CountsRight
  <2> QED BY <1>1, <2>1, <2>3 DEF CountsRight
<1>9. PlacesLeft'
  <2>1. Cardinality(Shaking(i)') = Cardinality(Shaking(i)) - 1
    BY <1>6, FS_RemoveElement, CountsAreNumbers
  <2>2. perIp[i] \in Nat /\ Cardinality(Shaking(i)) \in Nat
    BY <1>3, CountsAreNumbers
  <2>3. perIp'[i] + Cardinality(Shaking(i)') = perIp[i] + Cardinality(Shaking(i))
    BY <1>1, <1>3, <2>1, <2>2
  <2>4. \A j \in Ips : perIp'[j] + Cardinality(Shaking(j)') = perIp[j] + Cardinality(Shaking(j))
    BY <1>1, <1>3, <1>7, <2>3
  <2> QED BY <2>4 DEF PlacesLeft
<1>10. OneShakes'
  BY <1>1, <1>2, <1>3 DEF OneShakes
<1> QED BY <1>8, <1>9, <1>10

\* A connection that is closed gives its place back.
LEMMA ClosedCounts ==
    ASSUME WsConstants, WsTypeOK, CountsRight, OneShakes, PlacesLeft, NEW c \in Conns, CloseHandled(c)
    PROVE  CountsRight' /\ OneShakes' /\ PlacesLeft'
<1> DEFINE i == IpOf[c]
<1>1. /\ socket[c] = "gone" /\ socket' = [socket EXCEPT ![c] = "closed"]
      /\ perIp' = [perIp EXCEPT ![i] = @ - 1] /\ activeWs' = activeWs - 1
  BY DEF CloseHandled, HandleClose, Uncount
<1>2. \A d \in Conns : d # c => socket'[d] = socket[d]
  BY <1>1 DEF WsTypeOK
<1>3. socket'[c] = "closed" /\ i \in Ips /\ perIp \in [Ips -> Nat]
  BY <1>1 DEF WsTypeOK, WsConstants
<1>4. AllCounted' = AllCounted \ {c} /\ c \in AllCounted
  BY <1>1, <1>2, <1>3 DEF AllCounted, Counted
<1>5. CountedAt(i)' = CountedAt(i) \ {c} /\ c \in CountedAt(i)
  BY <1>1, <1>2, <1>3 DEF CountedAt, Counted
<1>6. Shaking(i)' = Shaking(i)
  BY <1>1, <1>2, <1>3 DEF Shaking
<1>7. \A j \in Ips : j # i => CountedAt(j)' = CountedAt(j) /\ Shaking(j)' = Shaking(j)
  BY <1>2 DEF CountedAt, Counted, Shaking
<1> HIDE DEF i
<1>8. CountsRight'
  <2>1. Cardinality(AllCounted') = Cardinality(AllCounted) - 1
    BY <1>4, FS_RemoveElement, CountsAreNumbers
  <2>2. Cardinality(CountedAt(i)') = Cardinality(CountedAt(i)) - 1
    BY <1>5, FS_RemoveElement, CountsAreNumbers
  <2>3. \A j \in Ips : perIp'[j] = Cardinality(CountedAt(j)')
    BY <1>1, <1>3, <1>7, <2>2 DEF CountsRight
  <2> QED BY <1>1, <2>1, <2>3 DEF CountsRight
<1>9. PlacesLeft'
  <2>1. \A j \in Ips : /\ perIp[j] \in Nat /\ perIp'[j] <= perIp[j] /\ perIp'[j] \in Int
                       /\ Shaking(j)' = Shaking(j)
    BY <1>1, <1>3, <1>6, <1>7
  <2>2. ASSUME NEW j \in Ips
        PROVE  perIp'[j] + Cardinality(Shaking(j)') <= IpLimit + Cardinality(Loops) - 1
    <3>1. perIp[j] + Cardinality(Shaking(j)) <= IpLimit + Cardinality(Loops) - 1
      BY DEF PlacesLeft
    <3>2. Cardinality(Shaking(j)) \in Nat /\ Cardinality(Loops) \in Nat /\ IpLimit \in Nat
      BY CountsAreNumbers DEF WsConstants
    <3> QED BY <2>1, <3>1, <3>2
  <2> QED BY <2>2 DEF PlacesLeft
<1>10. OneShakes'
  BY <1>1, <1>2, <1>3 DEF OneShakes
<1> QED BY <1>8, <1>9, <1>10

\* Connections are counted once, whoever ends them.
LEMMA StepCounts == ASSUME WsConstants, WsInv, WsNext PROVE CountsMatch' /\ OneShakes' /\ PlacesLeft'
<1>0. WsTypeOK /\ CountsRight /\ OnTheList /\ OneShakes /\ PlacesLeft
  BY CountsSplit DEF WsInv
<1> SUFFICES CountsRight' /\ OneShakes' /\ PlacesLeft' /\ OnTheList'
  BY CountsSplit DEF CountsMatch, CountsRight, OnTheList, CountedAt, AllCounted
<1>1. ASSUME NEW c \in Conns, Shake(c) PROVE CountsRight' /\ OneShakes' /\ PlacesLeft' /\ OnTheList'
  <2>1. OnTheList'
    BY <1>0, <1>1 DEF OnTheList, Shake, Counted, WsTypeOK
  <2> QED BY <1>0, <1>1, <2>1, ShakeCounts
<1>2. ASSUME NEW c \in Conns, Refuse(c) \/ PeerGone(c) PROVE CountsRight' /\ OneShakes' /\ PlacesLeft' /\ OnTheList'
  <2>1. /\ perIp' = perIp /\ activeWs' = activeWs
        /\ \A d \in Conns : Counted(d)' = Counted(d) /\ (socket'[d] = "shaking" => socket[d] = "shaking")
    BY <1>0, <1>2 DEF Refuse, PeerGone, Counted, WsTypeOK
  <2>2. OnTheList'
    BY <1>0, <1>2, <2>1 DEF OnTheList, Refuse, PeerGone, WsTypeOK
  <2> QED BY <1>0, <2>1, <2>2, SameCounts
<1>3. ASSUME NEW c \in Conns, Enlist(c) PROVE CountsRight' /\ OneShakes' /\ PlacesLeft' /\ OnTheList'
  <2>1. OnTheList'
    BY <1>0, <1>3 DEF OnTheList, Enlist, Counted, WsTypeOK
  <2> QED BY <1>0, <1>3, <2>1, OpenCounts
<1>4. ASSUME NEW c \in Conns, CloseHandled(c) PROVE CountsRight' /\ OneShakes' /\ PlacesLeft' /\ OnTheList'
  <2>1. OnTheList'
    BY <1>0, <1>4 DEF OnTheList, CloseHandled, HandleClose, Counted, WsTypeOK
  <2> QED BY <1>0, <1>4, <2>1, ClosedCounts
<1>5. ASSUME UNCHANGED <<socket, listed, perIp, activeWs>>
      PROVE  CountsRight' /\ OneShakes' /\ PlacesLeft' /\ OnTheList'
  <2>1. \A d \in Conns : Counted(d)' = Counted(d) /\ (socket'[d] = "shaking" => socket[d] = "shaking")
    BY <1>5 DEF Counted
  <2>2. OnTheList'
    BY <1>0, <1>5, <2>1 DEF OnTheList, WsTypeOK
  <2> QED BY <1>0, <1>5, <2>1, <2>2, SameCounts
<1>6. ASSUME perIp' = perIp, activeWs' = activeWs, listed' \subseteq listed,
             \A d \in Conns : \/ socket'[d] = socket[d]
                              \/ socket[d] = "up" /\ socket'[d] = "gone",
             \A d \in Conns : socket'[d] = "up" /\ d \in listed => d \in listed'
      PROVE  CountsRight' /\ OneShakes' /\ PlacesLeft' /\ OnTheList'
  <2>1. \A d \in Conns : Counted(d)' = Counted(d) /\ (socket'[d] = "shaking" => socket[d] = "shaking")
    BY <1>6 DEF Counted
  <2>2. OnTheList'
    BY <1>0, <1>6, <2>1 DEF OnTheList, WsTypeOK
  <2> QED BY <1>0, <1>6, <2>1, <2>2, SameCounts
<1>7. ASSUME Tick PROVE CountsRight' /\ OneShakes' /\ PlacesLeft' /\ OnTheList'
  <2>1. \A d \in Conns : \/ socket'[d] = socket[d]
                         \/ socket[d] = "up" /\ socket'[d] = "gone"
    BY <1>7 DEF Tick, Dead
  <2>2. \A d \in Conns : socket'[d] = "up" /\ d \in listed => d \in listed'
    BY <1>7, <2>1 DEF Tick, TakeTargets
  <2> QED BY <1>6, <1>7, <2>1, <2>2 DEF Tick, TakeTargets
<1>8. ASSUME NEW u \in Users, SendGroup(u) PROVE CountsRight' /\ OneShakes' /\ PlacesLeft' /\ OnTheList'
  <2>1. \A d \in Conns : \/ socket'[d] = socket[d]
                         \/ socket[d] = "up" /\ socket'[d] = "gone"
    BY <1>8 DEF SendGroup, Up
  <2> QED BY <1>6, <1>8, <2>1 DEF SendGroup, EndGroup
<1>9. ASSUME NEW c \in Conns, FallSilent(c) PROVE CountsRight' /\ OneShakes' /\ PlacesLeft' /\ OnTheList'
  BY <1>5, <1>9 DEF FallSilent
<1>10. ASSUME NEW h \in Changes, Apply(h) \/ Keep(h) \/ TakeBack(h)
       PROVE  CountsRight' /\ OneShakes' /\ PlacesLeft' /\ OnTheList'
  BY <1>5, <1>10 DEF Apply, Keep, TakeBack, network
<1>11. ASSUME NEW u \in Users, ReadRevision(u) PROVE CountsRight' /\ OneShakes' /\ PlacesLeft' /\ OnTheList'
  BY <1>5, <1>11 DEF ReadRevision, BeginGroup
<1>12. ASSUME NEW s \in settle, Release(s) PROVE CountsRight' /\ OneShakes' /\ PlacesLeft' /\ OnTheList'
  BY <1>5, <1>12 DEF Release, Settle
<1> QED BY <1>1, <1>2, <1>3, <1>4, <1>7, <1>8, <1>9, <1>10, <1>11, <1>12 DEF WsNext, Handlers, MainLoop

\* Nobody the tick still has to send to owes a frame.
LEMMA StepFrames == ASSUME WsConstants, WsInv, WsNext PROVE OneFrame' /\ OnlyTheSilentAreCut'
<1>0. WsTypeOK /\ CountsMatch /\ OneFrame /\ OnlyTheSilentAreCut
  BY DEF WsInv
<1>1. ASSUME NEW c \in Conns, Shake(c) \/ Refuse(c) \/ PeerGone(c) \/ FallSilent(c)
      PROVE  OneFrame' /\ OnlyTheSilentAreCut'
  <2>1. UNCHANGED <<inflight, settle, snap>> /\ cut' = cut /\ silent \subseteq silent'
    BY <1>1 DEF Shake, Refuse, PeerGone, FallSilent, sending
  <2>2. \A d \in Conns : /\ socket'[d] = "up" => socket[d] = "up"
                         /\ socket'[d] \in {"new", "shaking"} => socket[d] \in {"new", "shaking"}
    BY <1>0, <1>1 DEF Shake, Refuse, PeerGone, FallSilent, WsTypeOK
  <2>3. \A s \in settle : s.conn \in Conns
    BY <1>0 DEF WsTypeOK
  <2> QED BY <1>0, <2>1, <2>2, <2>3 DEF OneFrame, OnlyTheSilentAreCut
<1>2. ASSUME NEW c \in Conns, Enlist(c) PROVE OneFrame' /\ OnlyTheSilentAreCut'
  <2>1. UNCHANGED <<inflight, settle, snap, cut, silent>>
    BY <1>2 DEF Enlist, sending
  <2>2. socket[c] = "shaking" /\ inflight[c] = 0 /\ \A d \in Conns : d # c => socket'[d] = socket[d]
    BY <1>0, <1>2 DEF Enlist, WsTypeOK, OneFrame
  <2>3. \A s \in settle : s.conn \in Conns /\ s.conn # c
    BY <1>0, <2>2 DEF WsTypeOK, OneFrame
  <2>4. socket'[c] = "up"
    BY <1>0, <1>2 DEF Enlist, WsTypeOK
  <2> QED BY <1>0, <2>1, <2>2, <2>3, <2>4 DEF OneFrame, OnlyTheSilentAreCut
<1>3. ASSUME NEW c \in Conns, CloseHandled(c) PROVE OneFrame' /\ OnlyTheSilentAreCut'
  <2>1. UNCHANGED <<settle, snap, cut, silent>>
    BY <1>3 DEF CloseHandled
  <2>2. \A d \in Conns : d # c => socket'[d] = socket[d] /\ inflight'[d] = inflight[d]
    BY <1>0, <1>3 DEF CloseHandled, HandleClose, Forget, WsTypeOK
  <2>3. socket'[c] = "closed"
    BY <1>0, <1>3 DEF CloseHandled, HandleClose, WsTypeOK
  <2>4. \A s \in settle : s.conn \in Conns
    BY <1>0 DEF WsTypeOK
  <2> QED BY <1>0, <2>1, <2>2, <2>3, <2>4 DEF OneFrame, OnlyTheSilentAreCut
<1>4. ASSUME UNCHANGED <<socket, inflight, settle, snap, cut, silent>>
      PROVE  OneFrame' /\ OnlyTheSilentAreCut'
  BY <1>0, <1>4 DEF OneFrame, OnlyTheSilentAreCut
<1>5. ASSUME Tick PROVE OneFrame' /\ OnlyTheSilentAreCut'
  <2>1. settle = {} /\ settle' = {} /\ inflight' = inflight /\ cut' = cut \cup Dead /\ silent' = silent
    BY <1>5 DEF Tick, TakeTargets
  <2>2. \A d \in Conns : /\ socket'[d] = "up" => socket[d] = "up"
                         /\ socket'[d] \in {"new", "shaking"} => socket[d] \in {"new", "shaking"}
    BY <1>5 DEF Tick
  <2> QED BY <1>0, <2>1, <2>2 DEF OneFrame, OnlyTheSilentAreCut, Dead
<1>6. ASSUME NEW u \in Users, SendGroup(u) PROVE OneFrame' /\ OnlyTheSilentAreCut'
  <2>1. \A c \in Group(u) : c \in snap /\ c \in Conns /\ (\A s \in settle : s.conn # c)
    BY <1>0 DEF Group, OneFrame, WsTypeOK
  <2>2. \A c \in Up(u) : c \in Conns /\ c \in snap /\ socket[c] = "up" /\ inflight[c] = 0
    BY <1>0, <2>1 DEF Up, OneFrame, NewFrame
  <2>3. Up(u) \cap Owing = {} /\ Sent(u) = Up(u)
    BY <1>0, <2>2 DEF Owing, Sent
  <2>4. UNCHANGED <<socket, cut, silent>> /\ snap' = snap \ Group(u)
        /\ inflight' = [c \in Conns |-> IF c \in Sent(u) THEN inflight[c] + 1 ELSE inflight[c]]
    <3>1. socket' = [c \in Conns |-> socket[c]]
      BY <1>6, <2>3 DEF SendGroup
    <3>2. socket' = socket
      BY <1>0, <3>1 DEF WsTypeOK
    <3> QED BY <1>6, <2>3, <3>2 DEF SendGroup, EndGroup
  <2>5. settle' = settle \cup {NewFrame(c) : c \in Sent(u)}
    <3>1. ASSUME NEW s \in settle PROVE [s EXCEPT !.newest = @ /\ s.conn \notin Sent(u)] = s
      <4>1. s \in [conn : Conns, newest : BOOLEAN] /\ s.conn \notin Sent(u)
        BY <1>0, <2>1, <2>2, <2>3 DEF WsTypeOK, Up
      <4> DEFINE n == s.newest /\ s.conn \notin Sent(u)
      <4>2. n = s.newest
        BY <4>1
      <4> HIDE DEF n
      <4>3. [s EXCEPT !.newest = n] = s
        BY <4>1, <4>2
      <4> QED BY <4>3 DEF n
    <3>2. {[s EXCEPT !.newest = @ /\ s.conn \notin Sent(u)] : s \in settle} = settle
      BY <3>1
    <3> QED BY <1>6, <3>2 DEF SendGroup, EndGroup, NewFrame
  <2>6. \A c \in Sent(u) : /\ c \in Conns /\ c \in Group(u) /\ socket[c] = "up"
                           /\ inflight[c] = 0 /\ inflight'[c] = 1
                           /\ NewFrame(c).conn = c
    BY <1>0, <2>2, <2>3, <2>4 DEF WsTypeOK, Up, NewFrame
  <2>7. \A c \in Conns \ Sent(u) : inflight'[c] = inflight[c]
    BY <2>4
  <2>8. \A s \in settle : s.conn \in Conns /\ s.conn \notin Sent(u)
    BY <1>0, <2>1, <2>6 DEF WsTypeOK
  <2>9. \A s \in settle' : /\ s.conn \notin snap' /\ socket'[s.conn] \notin {"new", "shaking"}
                           /\ s.newest /\ socket'[s.conn] = "up" => inflight'[s.conn] = 1
    <3>1. ASSUME NEW s \in settle
          PROVE  /\ s.conn \notin snap' /\ socket'[s.conn] \notin {"new", "shaking"}
                 /\ s.newest /\ socket'[s.conn] = "up" => inflight'[s.conn] = 1
      BY <1>0, <2>4, <2>7, <2>8 DEF OneFrame
    <3>2. ASSUME NEW c \in Sent(u)
          PROVE  /\ NewFrame(c).conn \notin snap' /\ socket'[NewFrame(c).conn] \notin {"new", "shaking"}
                 /\ NewFrame(c).newest /\ socket'[NewFrame(c).conn] = "up" => inflight'[NewFrame(c).conn] = 1
      BY <2>4, <2>6
    <3> QED BY <2>5, <3>1, <3>2
  <2>10. \A c \in Conns : /\ socket'[c] = "up" /\ inflight'[c] # 0 => NewFrame(c) \in settle'
                          /\ socket'[c] \in {"new", "shaking"} => inflight'[c] = 0
    BY <1>0, <2>4, <2>5, <2>6, <2>7 DEF OneFrame
  <2> QED BY <1>0, <2>4, <2>9, <2>10 DEF OneFrame, OnlyTheSilentAreCut, NewFrame
<1>7. ASSUME NEW s \in settle, Release(s) PROVE OneFrame' /\ OnlyTheSilentAreCut'
  <2>1. UNCHANGED <<socket, snap, cut, silent>> /\ settle' = settle \ {s}
    BY <1>7 DEF Release, Settle
  <2>2. s.conn \in Conns /\ s \in [conn : Conns, newest : BOOLEAN] /\ inflight \in [Conns -> Nat]
    BY <1>0, <1>7 DEF WsTypeOK
  <2>3. CASE socket[s.conn] = "up" /\ s.newest
    <3>1. inflight[s.conn] = 1 /\ inflight' = [inflight EXCEPT ![s.conn] = @ - 1]
      BY <1>0, <1>7, <2>3 DEF Release, OneFrame
    <3>2. inflight'[s.conn] = 0 /\ \A c \in Conns : c # s.conn => inflight'[c] = inflight[c]
      BY <2>2, <3>1
    <3>3. \A t \in settle' : t.newest => t.conn # s.conn
      <4> SUFFICES ASSUME NEW t \in settle', t.newest, t.conn = s.conn PROVE FALSE
        OBVIOUS
      <4>1. t \in [conn : Conns, newest : BOOLEAN] /\ t # s
        BY <1>0, <2>1 DEF WsTypeOK
      <4> QED BY <2>2, <2>3, <4>1
    <3>4. \A c \in Conns : c # s.conn => NewFrame(c) # s
      BY DEF NewFrame
    <3> QED BY <1>0, <2>1, <2>2, <3>2, <3>3, <3>4 DEF OneFrame, OnlyTheSilentAreCut, WsTypeOK
  <2>4. CASE ~(socket[s.conn] = "up" /\ s.newest)
    <3>1. inflight' = inflight
      BY <1>7, <2>4 DEF Release
    <3>2. \A c \in Conns : socket[c] = "up" => NewFrame(c) # s
      BY <2>4 DEF NewFrame
    <3> QED BY <1>0, <2>1, <3>1, <3>2 DEF OneFrame, OnlyTheSilentAreCut, WsTypeOK
  <2> QED BY <2>3, <2>4
<1>8. ASSUME NEW h \in Changes, Apply(h) \/ Keep(h) \/ TakeBack(h) PROVE OneFrame' /\ OnlyTheSilentAreCut'
  BY <1>4, <1>8 DEF Apply, Keep, TakeBack, network, sending
<1>9. ASSUME NEW u \in Users, ReadRevision(u) PROVE OneFrame' /\ OnlyTheSilentAreCut'
  BY <1>4, <1>9 DEF ReadRevision, BeginGroup
<1> QED BY <1>1, <1>2, <1>3, <1>5, <1>6, <1>7, <1>8, <1>9 DEF WsNext, Handlers, MainLoop

\* What is still in step with the revisions while neither moves.
LEMMA SameCopies ==
    ASSUME WsInv, rev' = rev, change' = change, reading' = reading,
           \A c \in Conns : copy'[c] = copy[c] \/ ~copy'[c].has
    PROVE  RevisionsGrow' /\ CopiesUpToDate'
BY DEF WsInv, RevisionsGrow, CopiesUpToDate, UpToDate

\* A copy that is made or taken over has the lists of its revision.
LEMMA NewCopy ==
    ASSUME WsConstants, WsInv, NEW first \in Conns, reading.user = UserOf[first]
    PROVE  LET new == CopyFor(first)
               u == UserOf[first]
           IN  new.has /\ new.rev <= rev[u] /\ (new.rev = rev[u] => UpToDate(new.lists, u, change))
<1> DEFINE u == UserOf[first]
<1>0. WsTypeOK /\ RevisionsGrow /\ CopiesUpToDate /\ u \in Users
  BY DEF WsInv, WsConstants
<1>1. CASE copy[first].has /\ copy[first].rev = reading.rev
  <2>1. CopyFor(first) = copy[first]
    BY <1>1 DEF CopyFor
  <2> QED BY <1>0, <1>1, <2>1 DEF RevisionsGrow, CopiesUpToDate
<1>2. CASE ~(copy[first].has /\ copy[first].rev = reading.rev)
  <2>1. CopyFor(first) = [has |-> TRUE, rev |-> reading.rev, lists |-> ListsOf(u)]
    BY <1>2 DEF CopyFor
  <2>2. reading.rev <= rev[u]
    BY <1>0 DEF RevisionsGrow
  <2>3. UpToDate(ListsOf(u), u, change)
    BY DEF UpToDate, ListsOf
  <2> QED BY <2>1, <2>2, <2>3
<1> QED BY <1>1, <1>2

LEMMA StepCopies == ASSUME WsConstants, WsInv, WsNext PROVE RevisionsGrow' /\ CopiesUpToDate'
<1>0. WsTypeOK /\ RevisionsGrow /\ CopiesUpToDate
  BY DEF WsInv
<1>1. ASSUME UNCHANGED <<rev, change, reading, copy>> PROVE RevisionsGrow' /\ CopiesUpToDate'
  BY <1>1, SameCopies
<1>2. ASSUME NEW c \in Conns, Shake(c) \/ Refuse(c) \/ PeerGone(c) \/ FallSilent(c) \/ Enlist(c)
      PROVE  RevisionsGrow' /\ CopiesUpToDate'
  BY <1>1, <1>2 DEF Shake, Refuse, PeerGone, FallSilent, Enlist, alerts
<1>3. ASSUME NEW c \in Conns, CloseHandled(c) PROVE RevisionsGrow' /\ CopiesUpToDate'
  <2>1. \A d \in Conns : copy'[d] = copy[d] \/ ~copy'[d].has
    BY <1>0, <1>3 DEF CloseHandled, Forget, NoCopy, WsTypeOK
  <2> QED BY <1>3, <2>1, SameCopies DEF CloseHandled, alerts
<1>4. ASSUME NEW h \in Changes, Apply(h) \/ TakeBack(h) PROVE RevisionsGrow' /\ CopiesUpToDate'
  <2>1. UNCHANGED <<rev, copy, reading>>
    BY <1>4 DEF Apply, TakeBack
  <2>2. \A g \in Changes : \/ change'[g] = change[g]
                           \/ change[g] = "todo" /\ change'[g] = "applied"
                           \/ change[g] = "applied" /\ change'[g] = "undone"
    BY <1>0, <1>4 DEF Apply, TakeBack, WsTypeOK
  <2>3. ASSUME NEW lists, NEW v, UpToDate(lists, v, change) PROVE UpToDate(lists, v, change')
    <3> SUFFICES ASSUME NEW g \in Changes
                 PROVE  /\ OwnerOf[g] = v /\ change'[g] = "kept" => g \in lists
                        /\ g \in lists => OwnerOf[g] = v /\ change'[g] \in {"applied", "kept", "undone"}
      BY DEF UpToDate
    <3> QED BY <2>2, <2>3 DEF UpToDate
  <2> QED BY <1>0, <2>1, <2>3 DEF RevisionsGrow, CopiesUpToDate
<1>5. ASSUME NEW h \in Changes, Keep(h) PROVE RevisionsGrow' /\ CopiesUpToDate'
  <2> DEFINE u == OwnerOf[h]
  <2>1. UNCHANGED <<copy, reading>> /\ rev' = [rev EXCEPT ![u] = @ + 1] /\ change' = [change EXCEPT ![h] = "kept"]
    BY <1>5 DEF Keep
  <2>2. u \in Users /\ rev \in [Users -> Nat]
    BY <1>0 DEF WsConstants, WsTypeOK
  <2>3. rev'[u] = rev[u] + 1 /\ rev[u] \in Nat /\ \A v \in Users : v # u => rev'[v] = rev[v]
    BY <2>1, <2>2
  <2>4. \A c \in Conns : UserOf[c] \in Users /\ copy[c].rev \in Nat
    BY <1>0 DEF WsConstants, WsTypeOK
  <2>5. reading.rev \in Nat
    BY <1>0 DEF WsTypeOK
  <2>6. RevisionsGrow'
    BY <1>0, <2>1, <2>3, <2>4, <2>5 DEF RevisionsGrow
  <2>7. ASSUME NEW c \in Conns, copy'[c].has, copy'[c].rev = rev'[UserOf[c]]
        PROVE  UpToDate(copy'[c].lists, UserOf[c], change')
    <3>1. UserOf[c] # u
      BY <1>0, <2>1, <2>3, <2>4, <2>7 DEF RevisionsGrow
    <3>2. UpToDate(copy[c].lists, UserOf[c], change)
      BY <1>0, <2>1, <2>3, <2>4, <2>7, <3>1 DEF CopiesUpToDate
    <3>3. \A g \in Changes : g # h => change'[g] = change[g]
      BY <1>0, <2>1 DEF WsTypeOK
    <3>4. change[h] = "applied" /\ change'[h] = "kept"
      BY <1>0, <1>5 DEF Keep, WsTypeOK
    <3>5. ASSUME NEW g \in Changes
          PROVE  /\ OwnerOf[g] = UserOf[c] /\ change'[g] = "kept" => g \in copy[c].lists
                 /\ g \in copy[c].lists => OwnerOf[g] = UserOf[c] /\ change'[g] \in {"applied", "kept", "undone"}
      BY <3>1, <3>2, <3>3, <3>4 DEF UpToDate
    <3> QED BY <2>1, <3>5 DEF UpToDate
  <2> QED BY <2>6, <2>7 DEF CopiesUpToDate
<1>6. ASSUME NEW u \in Users, ReadRevision(u) PROVE RevisionsGrow' /\ CopiesUpToDate'
  <2>1. UNCHANGED <<rev, change, copy>> /\ reading' = [user |-> u, rev |-> rev[u]]
    BY <1>6 DEF ReadRevision, BeginGroup, alerts
  <2>2. rev[u] \in Nat
    BY <1>0 DEF WsTypeOK
  <2> QED BY <1>0, <2>1, <2>2 DEF RevisionsGrow, CopiesUpToDate, UpToDate
<1>7. ASSUME NEW u \in Users, SendGroup(u) PROVE RevisionsGrow' /\ CopiesUpToDate'
  <2>1. PICK first \in Group(u) : copy' = [c \in Conns |-> IF c \in Group(u) THEN CopyFor(first) ELSE copy[c]]
    BY <1>7 DEF SendGroup
  <2>2. UNCHANGED <<rev, change>> /\ reading' = NotReading /\ reading.user = u
    BY <1>7 DEF SendGroup, EndGroup, alerts
  <2>3. \A c \in Group(u) : c \in Conns /\ UserOf[c] = u
    BY <1>0 DEF Group, WsTypeOK
  <2> DEFINE new == CopyFor(first)
  <2>4. new.has /\ new.rev <= rev[u] /\ (new.rev = rev[u] => UpToDate(new.lists, u, change))
    BY <2>2, <2>3, NewCopy
  <2> HIDE DEF new
  <2>5. \A c \in Conns : copy'[c] = IF UserOf[c] = u /\ c \in Group(u) THEN new ELSE copy[c]
    BY <2>1, <2>3 DEF new
  <2>6. RevisionsGrow'
    <3>1. reading'.user \notin Users
      BY <2>2 DEF NotReading, WsConstants
    <3>2. ASSUME NEW c \in Conns, copy'[c].has PROVE copy'[c].rev <= rev[UserOf[c]]
      BY <1>0, <2>4, <2>5, <3>2 DEF RevisionsGrow
    <3> QED BY <2>2, <3>1, <3>2 DEF RevisionsGrow
  <2>7. ASSUME NEW c \in Conns, copy'[c].has, copy'[c].rev = rev'[UserOf[c]]
        PROVE  UpToDate(copy'[c].lists, UserOf[c], change')
    <3>1. UpToDate(copy'[c].lists, UserOf[c], change)
      BY <1>0, <2>2, <2>4, <2>5, <2>7 DEF CopiesUpToDate
    <3> QED BY <2>2, <3>1 DEF alerts
  <2> QED BY <2>6, <2>7 DEF CopiesUpToDate
<1>8. ASSUME Tick \/ \E s \in settle : Release(s) PROVE RevisionsGrow' /\ CopiesUpToDate'
  BY <1>1, <1>8 DEF Tick, TakeTargets, Release, Settle, alerts
<1> QED BY <1>2, <1>3, <1>4, <1>5, <1>6, <1>7, <1>8 DEF WsNext, Handlers, MainLoop

LEMMA InitWs == ASSUME WsConstants, WsInit PROVE WsInv
<1>1. WsTypeOK
  BY DEF WsInit, WsTypeOK, NoCopy, NotReading
<1>2. \A c \in Conns : socket[c] = "new" /\ ~Counted(c)
  BY DEF WsInit, Counted
<1>3. \A i : Shaking(i) = {} /\ CountedAt(i) = {}
  BY <1>2 DEF Shaking, CountedAt
<1>4. AllCounted = {}
  BY <1>2 DEF AllCounted
<1>5. Cardinality({}) = 0
  BY FS_EmptySet
<1>6. CountsMatch
  <2>1. CountsRight
    BY <1>3, <1>4, <1>5 DEF CountsRight, WsInit
  <2>2. OnTheList
    BY <1>2 DEF OnTheList, WsInit
  <2> QED BY <2>1, <2>2, CountsSplit
<1>7. PlacesLeft
  <2>1. \A i \in Ips : perIp[i] = 0
    BY DEF WsInit
  <2>2. Cardinality(Loops) \in Nat /\ IpLimit \in Nat /\ IpLimit >= 1
    BY CountsAreNumbers DEF WsConstants
  <2> QED BY <1>3, <1>5, <2>1, <2>2 DEF PlacesLeft
<1>8. OneShakes
  BY <1>2 DEF OneShakes
<1>9. OneFrame /\ OnlyTheSilentAreCut
  BY DEF OneFrame, OnlyTheSilentAreCut, WsInit
<1>10. RevisionsGrow /\ CopiesUpToDate
  <2>1. reading.user \notin Users /\ \A c \in Conns : ~copy[c].has
    BY DEF WsInit, NotReading, NoCopy, WsConstants
  <2> QED BY <2>1 DEF RevisionsGrow, CopiesUpToDate
<1> QED BY <1>1, <1>6, <1>7, <1>8, <1>9, <1>10 DEF WsInv

LEMMA StepWs == ASSUME WsConstants, WsInv, [WsNext]_ws PROVE WsInv'
<1>1. CASE WsNext
  BY <1>1, WsTyped, StepCounts, StepFrames, StepCopies DEF WsInv
<1>2. CASE UNCHANGED ws
  <2>1. UNCHANGED <<socket, listed, perIp, activeWs, silent, inflight, settle, cut, change, rev, copy,
                    snap, reading, shown>>
    BY <1>2 DEF ws, network, sending, alerts
  <2>2. \A c \in Conns : Counted(c)' = Counted(c)
    BY <2>1 DEF Counted
  <2>3. CountsMatch' /\ OneShakes' /\ PlacesLeft'
    <3>1. WsTypeOK /\ CountsRight /\ OnTheList /\ OneShakes /\ PlacesLeft
      BY CountsSplit DEF WsInv
    <3>2. OnTheList'
      BY <2>1, <2>2, <3>1 DEF OnTheList, WsTypeOK
    <3>3. CountsRight' /\ OneShakes' /\ PlacesLeft'
      BY <2>1, <2>2, <3>1, SameCounts
    <3> QED BY <3>2, <3>3, CountsSplit DEF CountsMatch, CountsRight, OnTheList, CountedAt, AllCounted
  <2>4. WsTypeOK'
    BY <2>1 DEF WsInv, WsTypeOK
  <2>5. OneFrame' /\ OnlyTheSilentAreCut'
    BY <2>1 DEF WsInv, OneFrame, OnlyTheSilentAreCut
  <2>6. RevisionsGrow' /\ CopiesUpToDate'
    BY <2>1, SameCopies
  <2> QED BY <2>3, <2>4, <2>5, <2>6 DEF WsInv
<1> QED BY <1>1, <1>2

\* Whatever opens, closes and falls silent, in any order, and whatever becomes of the
\* changes of alerts: the counts are right, the limit slips by less than the number of
\* loops, current copies show what is there, and nobody who answers is cut off.
THEOREM ObserversAreKept == ASSUME WsConstants PROVE WsSpec => []ObserversKept
<1>1. WsInit => WsInv
  BY InitWs
<1>2. WsInv /\ [WsNext]_ws => WsInv'
  BY StepWs
<1>3. WsInv => ObserversKept
  <2> SUFFICES ASSUME WsInv PROVE ObserversKept
    OBVIOUS
  <2>1. LimitSlips
    <3> SUFFICES ASSUME NEW i \in Ips PROVE perIp[i] <= IpLimit + Cardinality(Loops) - 1
      BY DEF LimitSlips
    <3>1. perIp[i] + Cardinality(Shaking(i)) <= IpLimit + Cardinality(Loops) - 1 /\ perIp[i] \in Nat
      BY DEF WsInv, PlacesLeft, WsTypeOK
    <3> QED BY <3>1, CountsAreNumbers DEF WsConstants
  <2>2. CopyIsCurrent
    <3> SUFFICES ASSUME NEW c \in Conns, copy[c].has, copy[c].rev = rev[UserOf[c]], Settled(UserOf[c])
                 PROVE  copy[c].lists = ListsOf(UserOf[c])
      BY DEF CopyIsCurrent
    <3>1. UpToDate(copy[c].lists, UserOf[c], change) /\ copy[c].lists \subseteq Changes
      BY DEF WsInv, CopiesUpToDate, WsTypeOK
    <3>2. \A h \in Changes : h \in copy[c].lists <=> h \in ListsOf(UserOf[c])
      BY <3>1 DEF UpToDate, Settled, ListsOf
    <3> QED BY <3>1, <3>2 DEF ListsOf
  <2> QED BY <2>1, <2>2 DEF ObserversKept, WsInv
<1> QED BY <1>1, <1>2, <1>3, PTL DEF WsSpec

-----------------------------------------------------------------------------
(* An account *)

\* What the worker may have left of a request.
Left == {<<>>, <<"downgrade">>, <<"startTrial", "downgrade">>, <<"cachePrefs">>,
         Onboarding, Tour, SelectFree, GetPrefs, PutPrefs}

\* Half of an onboarding is owed or was lost, and so is half of a change of the settings.
PlanOwed == plan.onboarded =>
    plan.tier # "none" \/ plan.intro \/ "plan" \in torn \/ task = <<"startTrial", "downgrade">>
PrefsOwed == prefs.cached # prefs.row =>
    "prefs" \in torn \/ task \in {<<"cachePrefs">>, GetPrefs}

\* The flag counts the answers, and whoever is over has seen it set.
Replied == /\ me.answers = IF me.replied THEN 1 ELSE 0
           /\ me.thread = "over" \/ me.timer = "over" => me.replied

AccountInv == AccountTypeOK /\ task \in Left /\ PlanOwed /\ PrefsOwed /\ Replied

\* What is left of a request after its first statement, statement by statement.
LEMMA Tails ==
    /\ Tail(Onboarding) = <<"startTrial", "downgrade">> /\ Head(Onboarding) = "markOnboarded"
    /\ Tail(<<"startTrial", "downgrade">>) = <<"downgrade">>
    /\ Head(<<"startTrial", "downgrade">>) = "startTrial"
    /\ Tail(<<"downgrade">>) = <<>> /\ Head(<<"downgrade">>) = "downgrade"
    /\ Tail(Tour) = <<"downgrade">> /\ Head(Tour) = "grantTrial"
    /\ Tail(SelectFree) = <<"downgrade">> /\ Head(SelectFree) = "setFree"
    /\ Tail(GetPrefs) = <<"cachePrefs">> /\ Head(GetPrefs) = "readPrefs"
    /\ Tail(<<"cachePrefs">>) = <<>> /\ Head(<<"cachePrefs">>) = "cachePrefs"
    /\ Tail(PutPrefs) = GetPrefs /\ Head(PutPrefs) = "savePrefs"
BY DEF Onboarding, Tour, SelectFree, GetPrefs, PutPrefs

\* What a statement that is lost leaves half done.
LEMMA Halves ==
    ASSUME task \in Left
    PROVE  /\ LeftHalf \subseteq {"plan", "prefs"}
           /\ task = <<"startTrial", "downgrade">> => "plan" \in LeftHalf
           /\ task \in {<<"cachePrefs">>, GetPrefs} => "prefs" \in LeftHalf
<1>1. LeftHalf \subseteq {"plan", "prefs"}
  BY DEF LeftHalf
<1>2. task = <<"startTrial", "downgrade">> => "plan" \in LeftHalf
  BY Tails DEF LeftHalf
<1>3. ASSUME task = <<"cachePrefs">> PROVE "prefs" \in LeftHalf
  <2>1. Len(task) = 1 /\ task[1] = "cachePrefs"
    BY <1>3
  <2> QED BY <2>1 DEF LeftHalf
<1>4. ASSUME task = GetPrefs PROVE "prefs" \in LeftHalf
  <2>1. Len(task) = 2 /\ task[2] = "cachePrefs"
    BY <1>4 DEF GetPrefs
  <2> QED BY <2>1 DEF LeftHalf
<1> QED BY <1>1, <1>2, <1>3, <1>4

LEMMA InitAccount == ASSUME AccountConstants, AccountInit PROVE AccountInv
<1>1. AccountTypeOK
  <2>1. PICK r \in BOOLEAN : login = [row |-> r, last |-> FALSE]
    BY DEF AccountInit
  <2>2. login \in [row : BOOLEAN, last : BOOLEAN]
    BY <2>1, Zenon
  <2> QED BY <2>2 DEF AccountConstants, AccountInit, AccountTypeOK, NoMe
<1> QED BY <1>1 DEF AccountInv, AccountInit, Left, PlanOwed, PrefsOwed, Replied, NoMe

\* One statement of a request.
LEMMA StepStatement == ASSUME AccountConstants, AccountInv, Statement PROVE AccountInv'
<1> DEFINE Rows == [onboarded : BOOLEAN, trial : 0..LastDay \cup {NoDay},
                    tier : {"none", "trial", "free"}, intro : BOOLEAN]
<1>0. /\ AccountTypeOK /\ task \in Left /\ PlanOwed /\ PrefsOwed /\ Replied /\ plan \in Rows
      /\ task # <<>> /\ task' = Tail(task) /\ UNCHANGED <<day, login, me, crashes>>
  BY DEF AccountInv, Statement, AccountTypeOK
<1>1. task' \in Left
  BY <1>0, Tails DEF Left
<1>2. FirstDay(plan.trial) \in 0..LastDay \cup {NoDay}
  BY <1>0 DEF FirstDay, AccountTypeOK
<1>3. CASE \E p \in Rows : /\ plan' = p /\ UNCHANGED <<prefs, torn>>
                           /\ task \notin {<<"startTrial", "downgrade">>, <<"cachePrefs">>, PutPrefs}
                           /\ \/ task = Onboarding
                              \/ p.tier # "none"
                              \/ p.onboarded = plan.onboarded /\ p.intro = plan.intro /\ p.tier = plan.tier
  <2>1. AccountTypeOK'
    BY <1>0, <1>3 DEF AccountTypeOK
  <2>3. PlanOwed'
    BY <1>0, <1>3, Tails DEF PlanOwed
  <2>4. PrefsOwed'
    BY <1>0, <1>3, Tails DEF PrefsOwed, Left, GetPrefs
  <2> QED BY <1>0, <1>1, <2>1, <2>3, <2>4 DEF AccountInv, Replied
<1>4. CASE /\ Head(task) = "startTrial" /\ plan' = StartTrial(plan)
           /\ torn' = torn \ {"plan"} /\ UNCHANGED prefs
  <2>1. plan' \in Rows /\ (plan'.tier # "none" \/ plan'.intro)
    BY <1>0, <1>2, <1>4 DEF StartTrial
  <2>2. AccountTypeOK'
    BY <1>0, <1>4, <2>1 DEF AccountTypeOK
  <2>3. PrefsOwed'
    BY <1>0, <1>4, Tails DEF PrefsOwed, Left
  <2> QED BY <1>0, <1>1, <2>1, <2>2, <2>3 DEF AccountInv, Replied, PlanOwed
<1>5. CASE /\ Head(task) = "savePrefs" /\ UNCHANGED <<plan, torn>>
           /\ \E v \in {Default, Paused} : prefs' = [prefs EXCEPT !.row = v]
  <2>1. task = PutPrefs
    BY <1>0, <1>5, Tails DEF Left
  <2>2. AccountTypeOK'
    BY <1>0, <1>5 DEF AccountTypeOK
  <2>3. PlanOwed' /\ PrefsOwed'
    BY <1>0, <1>5, <2>1, Tails DEF PlanOwed, PrefsOwed, PutPrefs
  <2> QED BY <1>0, <1>1, <2>2, <2>3 DEF AccountInv, Replied
<1>6. CASE /\ Head(task) = "cachePrefs" /\ UNCHANGED plan
           /\ prefs' = [prefs EXCEPT !.cached = prefs.row] /\ torn' = torn \ {"prefs"}
  <2>1. task = <<"cachePrefs">>
    BY <1>0, <1>6, Tails DEF Left
  <2>2. AccountTypeOK' /\ prefs'.cached = prefs'.row
    BY <1>0, <1>6 DEF AccountTypeOK
  <2>3. PlanOwed'
    BY <1>0, <1>6, <2>1 DEF PlanOwed
  <2> QED BY <1>0, <1>1, <2>2, <2>3 DEF AccountInv, Replied, PrefsOwed
<1> DEFINE Same(p) == p.onboarded = plan.onboarded /\ p.intro = plan.intro /\ p.tier = plan.tier
<1>7. CASE OnPlan("markOnboarded", MarkOnboarded(plan))
  <2>1. task = Onboarding /\ MarkOnboarded(plan) \in Rows
    BY <1>0, <1>7, Tails DEF Left, OnPlan, MarkOnboarded
  <2>2. Onboarding \notin {<<"startTrial", "downgrade">>, <<"cachePrefs">>, PutPrefs}
    BY Tails
  <2> QED BY <1>3, <1>7, <2>1, <2>2 DEF OnPlan
<1>8. CASE OnPlan("grantTrial", GrantTrial(plan))
  <2>1. task = Tour /\ GrantTrial(plan) \in Rows
    BY <1>0, <1>2, <1>8, Tails DEF Left, OnPlan, GrantTrial
  <2>2. GrantTrial(plan).tier # "none" \/ Same(GrantTrial(plan))
    BY <1>0 DEF GrantTrial
  <2>3. Tour \notin {<<"startTrial", "downgrade">>, <<"cachePrefs">>, PutPrefs}
    BY Tails
  <2> QED BY <1>3, <1>8, <2>1, <2>2, <2>3 DEF OnPlan
<1>9. CASE OnPlan("setFree", [plan EXCEPT !.tier = "free"])
  <2>1. task = SelectFree /\ [plan EXCEPT !.tier = "free"] \in Rows
    BY <1>0, <1>9, Tails DEF Left, OnPlan
  <2>2. SelectFree \notin {<<"startTrial", "downgrade">>, <<"cachePrefs">>, PutPrefs}
    BY Tails
  <2>3. [plan EXCEPT !.tier = "free"].tier # "none"
    BY <1>0
  <2> QED BY <1>3, <1>9, <2>1, <2>2, <2>3 DEF OnPlan
<1>10. CASE OnPlan("downgrade", DowngradeOf(plan))
  <2>1. task = <<"downgrade">> /\ DowngradeOf(plan) \in Rows
    BY <1>0, <1>10, Tails DEF Left, OnPlan, DowngradeOf
  <2>2. DowngradeOf(plan).tier # "none" \/ Same(DowngradeOf(plan))
    BY <1>0 DEF DowngradeOf
  <2>3. <<"downgrade">> \notin {<<"startTrial", "downgrade">>, <<"cachePrefs">>, PutPrefs}
    BY Tails
  <2> QED BY <1>3, <1>10, <2>1, <2>2, <2>3 DEF OnPlan
<1>11. CASE OnPlan("readPrefs", plan)
  <2>1. task = GetPrefs
    BY <1>0, <1>11, Tails DEF Left, OnPlan
  <2>2. GetPrefs \notin {<<"startTrial", "downgrade">>, <<"cachePrefs">>, PutPrefs}
    BY Tails
  <2> QED BY <1>0, <1>3, <1>11, <2>1, <2>2 DEF OnPlan
<1> QED BY <1>4, <1>5, <1>6, <1>7, <1>8, <1>9, <1>10, <1>11 DEF Statement

\* The login, the bootstrap, the day and what stops a request.
LEMMA StepAccount == ASSUME AccountConstants, AccountInv, AccountNext PROVE AccountInv'
<1>0. AccountTypeOK /\ task \in Left /\ PlanOwed /\ PrefsOwed /\ Replied
  BY DEF AccountInv
<1> DEFINE Same(p) == p.onboarded = plan.onboarded /\ p.intro = plan.intro /\ p.tier = plan.tier
<1>1. CASE \E op \in {Onboarding, Tour, SelectFree, Dismiss, GetPrefs, PutPrefs} : Request(op)
  <2>1. task = <<>> /\ task' \in Left
    BY <1>1 DEF Request, Left, Dismiss
  <2>2. <<>> \notin {<<"startTrial", "downgrade">>, <<"cachePrefs">>, GetPrefs}
    BY DEF GetPrefs
  <2> QED BY <1>0, <1>1, <2>1, <2>2
         DEF Request, AccountInv, AccountTypeOK, PlanOwed, PrefsOwed, Replied
<1>2. CASE Statement
  BY <1>2, StepStatement
<1>3. CASE StatementFails
  <2>1. task' \in Left /\ torn' \subseteq {"plan", "prefs"} /\ torn \subseteq torn'
    BY <1>0, <1>3, Tails, Halves DEF StatementFails, AccountTypeOK, Left
  <2>2. /\ task = <<"startTrial", "downgrade">> => "plan" \in torn'
        /\ task \in {<<"cachePrefs">>, GetPrefs} => "prefs" \in torn'
    BY <1>0, <1>3, Tails, Halves DEF StatementFails
  <2>3. PlanOwed' /\ PrefsOwed'
    BY <1>0, <1>3, <2>1, <2>2 DEF StatementFails, PlanOwed, PrefsOwed
  <2>4. AccountTypeOK'
    BY <1>0, <1>3, <2>1 DEF StatementFails, AccountTypeOK
  <2> QED BY <1>0, <1>3, <2>1, <2>3, <2>4 DEF StatementFails, AccountInv, Replied
<1>4. CASE Register \/ LogIn \/ SavePhone
  <2>1. UNCHANGED <<day, plan, task, prefs, torn, me, crashes>>
    BY <1>4 DEF Register, LogIn, SavePhone, SetLogin
  <2>2. login' \in {[row |-> TRUE, last |-> FALSE], [row |-> TRUE, last |-> TRUE]}
    BY <1>4 DEF Register, LogIn, SavePhone, SetLogin
  <2>3. login' \in [row : BOOLEAN, last : BOOLEAN]
    <3>1. [row |-> TRUE, last |-> FALSE] \in [row : BOOLEAN, last : BOOLEAN]
      BY Zenon
    <3>2. [row |-> TRUE, last |-> TRUE] \in [row : BOOLEAN, last : BOOLEAN]
      BY Zenon
    <3> QED BY <2>2, <3>1, <3>2
  <2> QED BY <1>0, <2>1, <2>3 DEF AccountInv, AccountTypeOK, PlanOwed, PrefsOwed, Replied
<1>5. ASSUME UNCHANGED <<plan, login, task, prefs, torn, crashes>>,
             day' \in 0..LastDay, me' \in [thread : {"none", "started", "done", "over"},
                 timer : {"none", "set", "late", "over"}, replied : BOOLEAN, answers : Nat], Replied'
      PROVE  AccountInv'
  BY <1>0, <1>5 DEF AccountInv, AccountTypeOK, PlanOwed, PrefsOwed
<1>6. CASE AskMe \/ MeAnswers \/ MeTimer \/ MeTimesOut
  <2>1. day' \in 0..LastDay /\ UNCHANGED <<plan, login, task, prefs, torn, crashes>>
    BY <1>0, <1>6 DEF AskMe, MeAnswers, MeTimer, MeTimesOut, MeUnchanged, AccountTypeOK
  <2> DEFINE Mes == [thread : {"none", "started", "done", "over"},
                     timer : {"none", "set", "late", "over"}, replied : BOOLEAN, answers : Nat]
  <2>2. me \in Mes
    BY <1>0 DEF AccountTypeOK
  <2> DEFINE Right(m) == /\ m \in Mes /\ m.answers = IF m.replied THEN 1 ELSE 0
                         /\ m.thread = "over" \/ m.timer = "over" => m.replied
  <2>7. ASSUME NEW m \in Mes, m.answers = IF m.replied THEN 1 ELSE 0 PROVE Right(Finish(m))
    <3>1. CASE m.replied
      BY <2>7, <3>1 DEF Finish
    <3>2. CASE ~m.replied
      <4>1. Finish(m) = [m EXCEPT !.replied = TRUE, !.answers = 1]
        BY <2>7, <3>2 DEF Finish
      <4>2. Finish(m) \in Mes
        <5>1. Finish(m) = [thread |-> m.thread, timer |-> m.timer, replied |-> TRUE, answers |-> 1]
          BY <4>1
        <5>2. m.thread \in {"none", "started", "done", "over"} /\ m.timer \in {"none", "set", "late", "over"}
          OBVIOUS
        <5>3. \A r \in BOOLEAN : [thread |-> m.thread, timer |-> m.timer, replied |-> r, answers |-> 1] \in Mes
          BY <5>2
        <5> QED BY <5>1, <5>3
      <4>3. Finish(m).answers = 1 /\ Finish(m).replied
        BY <4>1
      <4> QED BY <4>2, <4>3
    <3> QED BY <3>1, <3>2
  <2>3. CASE AskMe
    BY <1>5, <2>1, <2>3 DEF AskMe, NoMe, Replied
  <2>4. CASE MeAnswers
    <3>1. [me EXCEPT !.thread = "over"] \in Mes /\ me' = Finish([me EXCEPT !.thread = "over"])
      BY <2>2, <2>4 DEF MeAnswers
    <3>2. Right(me')
      BY <1>0, <2>2, <2>7, <3>1 DEF Replied
    <3> QED BY <1>5, <2>1, <3>2 DEF Replied
  <2>5. CASE MeTimer
    BY <1>0, <1>5, <2>1, <2>2, <2>5 DEF MeTimer, TimerFires, Replied
  <2>6. CASE MeTimesOut
    <3>1. [me EXCEPT !.timer = "over"] \in Mes /\ me' = Finish([me EXCEPT !.timer = "over"])
      BY <2>2, <2>6 DEF MeTimesOut, TimerReplies
    <3>2. Right(me')
      BY <1>0, <2>2, <2>7, <3>1 DEF Replied
    <3> QED BY <1>5, <2>1, <3>2 DEF Replied
  <2> QED BY <1>6, <2>3, <2>4, <2>5, <2>6
<1>7. CASE MeReads
  <2>1. /\ UNCHANGED <<day, login, task, prefs, torn, crashes>> /\ plan' = DowngradeOf(plan)
        /\ me' = [me EXCEPT !.thread = "done"]
    BY <1>7 DEF MeReads, MeUnchanged
  <2>2. plan'.tier # "none" \/ Same(plan')
    BY <1>0, <2>1 DEF DowngradeOf, AccountTypeOK
  <2>3. plan' \in [onboarded : BOOLEAN, trial : 0..LastDay \cup {NoDay},
                   tier : {"none", "trial", "free"}, intro : BOOLEAN]
    BY <1>0, <2>1 DEF DowngradeOf, AccountTypeOK
  <2>4. AccountTypeOK' /\ Replied'
    BY <1>0, <2>1, <2>3 DEF AccountTypeOK, Replied
  <2> QED BY <1>0, <2>1, <2>2, <2>4 DEF AccountInv, PlanOwed, PrefsOwed
<1>8. CASE NextDay
  BY <1>0, <1>5, <1>8 DEF NextDay, AccountTypeOK, AccountConstants, Replied
<1>9. CASE Restart
  <2>1. /\ crashes < MaxCrashes /\ crashes' = crashes + 1 /\ plan' = Revise(plan, login)
        /\ prefs' = [prefs EXCEPT !.cached = prefs.row] /\ torn' = (torn \cup LeftHalf) \ {"prefs"}
        /\ task' = <<>> /\ me' = NoMe /\ UNCHANGED <<day, login>>
    BY <1>9 DEF Restart
  <2>2. plan'.intro \/ plan' = plan
    BY <1>0, <2>1 DEF Revise, AccountTypeOK
  <2>3. plan' \in [onboarded : BOOLEAN, trial : 0..LastDay \cup {NoDay},
                   tier : {"none", "trial", "free"}, intro : BOOLEAN]
    BY <1>0, <2>1 DEF Revise, AccountTypeOK
  <2>4. prefs'.cached = prefs'.row /\ prefs' \in [row : {Default, Paused}, cached : {Default, Paused}]
    BY <1>0, <2>1 DEF AccountTypeOK
  <2>5. AccountTypeOK'
    <3>1. torn' \subseteq {"plan", "prefs"}
      BY <1>0, <2>1, Halves DEF AccountTypeOK
    <3>2. crashes' \in 0..MaxCrashes
      BY <1>0, <2>1 DEF AccountTypeOK, AccountConstants
    <3> QED BY <1>0, <2>1, <2>3, <2>4, <3>1, <3>2 DEF AccountTypeOK, NoMe
  <2>6. PlanOwed'
    <3>1. "plan" \in torn \/ task = <<"startTrial", "downgrade">> => "plan" \in torn'
      BY <1>0, <2>1, Halves
    <3> QED BY <1>0, <2>1, <2>2, <3>1 DEF PlanOwed
  <2>7. Replied'
    BY <2>1 DEF Replied, NoMe
  <2>8. task' \in Left
    BY <2>1 DEF Left
  <2> QED BY <2>4, <2>5, <2>6, <2>7, <2>8 DEF AccountInv, PrefsOwed
<1> QED BY <1>1, <1>2, <1>3, <1>4, <1>6, <1>7, <1>8, <1>9 DEF AccountNext, Worker, MeThread

\* A clock that runs is only reset for those who never logged in.
LEMMA StepTrial ==
    ASSUME AccountInv, AccountNext, login.last, plan.trial # NoDay PROVE plan'.trial = plan.trial
<1>0. plan \in [onboarded : BOOLEAN, trial : 0..LastDay \cup {NoDay},
                tier : {"none", "trial", "free"}, intro : BOOLEAN]
  BY DEF AccountInv, AccountTypeOK
<1>1. CASE Statement
  BY <1>0, <1>1 DEF Statement, OnPlan, MarkOnboarded, StartTrial, GrantTrial, FirstDay, DowngradeOf
<1>2. CASE MeReads
  BY <1>0, <1>2 DEF MeReads, DowngradeOf
<1>3. CASE Restart
  BY <1>3 DEF Restart, Revise
<1>4. CASE \/ \E op \in {Onboarding, Tour, SelectFree, Dismiss, GetPrefs, PutPrefs} : Request(op)
           \/ StatementFails \/ Register \/ LogIn \/ SavePhone
           \/ AskMe \/ MeAnswers \/ MeTimer \/ MeTimesOut \/ NextDay
  BY <1>4 DEF Request, StatementFails, Register, LogIn, SavePhone, SetLogin, AskMe, MeAnswers, MeTimer,
              MeTimesOut, NextDay
<1> QED BY <1>1, <1>2, <1>3, <1>4 DEF AccountNext, Worker, MeThread

\* Whatever fails, stops or comes twice: who is onboarded has a plan or owes the tour, the
\* settings honoured are those stored, and a bootstrap is answered once.
THEOREM AccountsAreKept == ASSUME AccountConstants PROVE AccountSpec => []AccountKept
<1>1. AccountInit => AccountInv
  BY InitAccount
<1>2. AccountInv /\ [AccountNext]_account => AccountInv'
  <2> SUFFICES ASSUME AccountInv, UNCHANGED account PROVE AccountInv'
    BY StepAccount
  <2> QED BY DEF account, AccountInv, AccountTypeOK, Left, PlanOwed, PrefsOwed, Replied
<1>3. AccountInv => AccountKept
  <2> SUFFICES ASSUME AccountInv PROVE AccountKept
    OBVIOUS
  <2>1. OnboardedHasPlan
    BY Tails DEF AccountInv, PlanOwed, OnboardedHasPlan
  <2>2. PrefsMatch
    <3>1. <<>> \notin {<<"cachePrefs">>, GetPrefs}
      BY DEF GetPrefs
    <3> QED BY <3>1 DEF AccountInv, PrefsOwed, PrefsMatch
  <2>3. MeOnce
    BY DEF AccountInv, Replied, MeOnce
  <2> QED BY <2>1, <2>2, <2>3 DEF AccountKept, AccountInv
<1> QED BY <1>1, <1>2, <1>3, PTL DEF AccountSpec

\* Nobody who has logged in is given a second trial, or a clock that begins again.
THEOREM TrialsAreGivenOnce == ASSUME AccountConstants PROVE AccountSpec => TrialOnce
<1>1. AccountInit => AccountInv
  BY InitAccount
<1>2. AccountInv /\ [AccountNext]_account => AccountInv'
  <2> SUFFICES ASSUME AccountInv, UNCHANGED account PROVE AccountInv'
    BY StepAccount
  <2> QED BY DEF account, AccountInv, AccountTypeOK, Left, PlanOwed, PrefsOwed, Replied
<1>3. AccountInv /\ [AccountNext]_account
        => [login.last /\ plan.trial # NoDay => plan'.trial = plan.trial]_account
  BY StepTrial
<1> QED BY <1>1, <1>2, <1>3, PTL DEF AccountSpec, TrialOnce

-----------------------------------------------------------------------------
(* The candle monitor *)

\* Bars of a list that are before bar n.
Before(s, n) == s \in Seq(Bars) /\ \A i \in 1..Len(s) : s[i] < n

TrackType == [open : 0..LastBar, emitted : 0..LastBar, taken : 0..LastBar]
\* A bar that was taken counts as emitted.
TrackRight(t) == t \in TrackType /\ t.taken <= t.emitted
\* Requests on their way have their places.
WarmRight(w, n) == /\ w \in [queued : BOOLEAN, inFlight : 0..MaxInFlight, asked : Seq(Bars)]
                   /\ Before(w.asked, n) /\ Len(w.asked) = w.inFlight
\* What is waiting to be judged is over; what was asked for was asked by now.
BusyRight == busy \in [Judging -> Seq(Bars)] /\ \A l \in Judging : Before(busy[l], now)

Simple == /\ now \in Bars /\ needed \in BOOLEAN /\ isReady \in BOOLEAN /\ subbed \in BOOLEAN
          /\ sync \in [Syncing -> {"idle", "add", "warm", "remove"}]
          /\ cache \in [last : 0..LastBar, at : 0..LastBar] /\ judged \subseteq Bars /\ missed \subseteq Bars
MonitorInv == Simple /\ TrackRight(track) /\ WarmRight(warm, now + 1) /\ Before(polls, now + 1) /\ BusyRight

\* The bars a step takes for judgement are taken in order.
InOrder == \A l \in Judging : Len(busy'[l]) > Len(busy[l]) => Last(busy'[l]) > track.taken

-----------------------------------------------------------------------------
(* Lists of bars *)

LEMMA Rests ==
    ASSUME MonitorConstants, NEW n \in Int, NEW s, Before(s, n), s # <<>>
    PROVE  /\ Before(Tail(s), n) /\ Head(s) \in Bars /\ Head(s) < n
           /\ Len(s) \in Nat /\ Len(s) >= 1 /\ Len(Tail(s)) = Len(s) - 1
<1>1. s \in Seq(Bars) /\ \A i \in 1..Len(s) : s[i] < n
  BY DEF Before
<1>2. Len(s) \in Nat /\ Len(s) >= 1 /\ Head(s) = s[1] /\ Len(Tail(s)) = Len(s) - 1 /\ Tail(s) \in Seq(Bars)
  BY <1>1
<1>3. \A i \in 1..Len(Tail(s)) : Tail(s)[i] = s[i + 1]
  BY <1>1
<1> QED BY <1>1, <1>2, <1>3 DEF Before

LEMMA Added ==
    ASSUME MonitorConstants, NEW n \in Int, NEW s, Before(s, n), NEW b \in Bars, b < n
    PROVE  /\ Before(Append(s, b), n) /\ Before(s \o <<b>>, n) /\ Before(s \o <<>>, n)
           /\ s \o <<>> = s /\ Last(s \o <<b>>) = b
           /\ Len(s) \in Nat /\ Len(s \o <<b>>) = Len(s) + 1 /\ Len(Append(s, b)) = Len(s) + 1
<1>1. s \in Seq(Bars) /\ (\A i \in 1..Len(s) : s[i] < n) /\ Len(s) \in Nat
  BY DEF Before
<1>2. /\ s \o <<b>> \in Seq(Bars) /\ Len(s \o <<b>>) = Len(s) + 1 /\ (s \o <<b>>)[Len(s) + 1] = b
      /\ \A i \in 1..Len(s) : (s \o <<b>>)[i] = s[i]
  BY <1>1
<1>3. Append(s, b) = s \o <<b>>
  BY <1>1, <1>2
<1>4. s \o <<>> = s
  BY <1>1
<1>5. Before(s \o <<b>>, n)
  BY <1>1, <1>2 DEF Before
<1>6. Last(s \o <<b>>) = b
  BY <1>1, <1>2 DEF Last
<1> QED BY <1>1, <1>2, <1>3, <1>4, <1>5, <1>6

\* Bars of a list stay before later bars.
LEMMA Later == ASSUME NEW m \in Int, NEW n \in Int, m <= n, NEW s, Before(s, m), MonitorConstants PROVE Before(s, n)
BY DEF Before, Bars, MonitorConstants

LEMMA Nothing == ASSUME NEW n PROVE Before(<<>>, n)
BY DEF Before

-----------------------------------------------------------------------------
(* Parts of a step *)

\* One bar is taken, or none.
LEMMA TakeBars ==
    ASSUME MonitorConstants, MonitorInv, now' = now, NEW l \in Judging, NEW bars, NEW t, Take(l, bars, t),
           t \in TrackType, t.taken = track.taken, track.emitted <= t.emitted,
           \/ bars = <<>>
           \/ \E b \in Bars : bars = <<b>> /\ b < now /\ track.emitted < b /\ b <= t.emitted
    PROVE  BusyRight' /\ TrackRight(track)' /\ InOrder
<1>0. busy' = [busy EXCEPT ![l] = @ \o bars] /\ BusyRight /\ TrackRight(track) /\ now \in Int
  BY DEF Take, MonitorInv, Simple, Bars, MonitorConstants
<1>1. track.taken \in Int /\ track.emitted \in Int /\ t.emitted \in Int /\ track.taken <= track.emitted
  BY <1>0 DEF TrackRight, TrackType, MonitorConstants
<1>2. CASE bars = <<>>
  <2>1. busy[l] \o bars = busy[l]
    BY <1>0, <1>2 DEF BusyRight
  <2>2. busy' = busy
    BY <1>0, <2>1 DEF BusyRight
  <2>3. track' = t
    BY <1>2 DEF Take
  <2>4. InOrder
    <3>1. \A k \in Judging : Len(busy[k]) \in Nat
      BY <1>0 DEF BusyRight
    <3> QED BY <2>2, <3>1 DEF InOrder
  <2>5. TrackRight(t)
    BY <1>1 DEF TrackRight
  <2>6. TrackRight(track)'
    BY <2>3, <2>5 DEF TrackRight
  <2>7. BusyRight'
    BY <1>0, <2>2 DEF BusyRight
  <2> QED BY <2>4, <2>6, <2>7
<1>3. ASSUME NEW b \in Bars, bars = <<b>>, b < now, track.emitted < b, b <= t.emitted
      PROVE  BusyRight' /\ TrackRight(track)' /\ InOrder
  <2>1. bars # <<>> /\ Head(bars) = b
    BY <1>3
  <2>2. track' = [t EXCEPT !.taken = b]
    BY <2>1 DEF Take
  <2>3. TrackRight(track)'
    <3>1. b \in 0..LastBar
      BY DEF Bars, MonitorConstants
    <3>2. track' \in TrackType /\ track'.taken = b /\ track'.emitted = t.emitted
      BY <2>2, <3>1 DEF TrackType
    <3> QED BY <1>3, <3>2 DEF TrackRight
  <2>4. /\ Before(busy[l] \o <<b>>, now) /\ Last(busy[l] \o <<b>>) = b
        /\ Len(busy[l]) \in Nat
    BY <1>0, <1>3, Added DEF BusyRight
  <2>5. /\ busy'[l] = busy[l] \o <<b>> /\ \A k \in Judging : k # l => busy'[k] = busy[k]
        /\ busy' \in [Judging -> Seq(Bars)]
    BY <1>0, <1>3, <2>4 DEF BusyRight, Before
  <2>6. BusyRight'
    <3>1. \A k \in Judging : Before(busy'[k], now)
      BY <1>0, <2>4, <2>5 DEF BusyRight
    <3> QED BY <2>5, <3>1 DEF BusyRight
  <2>7. InOrder
    <3>1. \A k \in Judging : Len(busy[k]) \in Nat
      BY <1>0 DEF BusyRight
    <3>2. b > track.taken
      BY <1>1, <1>3 DEF Bars, MonitorConstants
    <3>3. Last(busy'[l]) = b
      BY <2>4, <2>5
    <3>4. ASSUME NEW k \in Judging, Len(busy'[k]) > Len(busy[k]) PROVE k = l
      BY <2>5, <3>1, <3>4
    <3> QED BY <3>2, <3>3, <3>4 DEF InOrder
  <2> QED BY <2>3, <2>6, <2>7
<1> QED BY <1>2, <1>3

\* Nothing is taken.
LEMMA TakeNothing ==
    ASSUME MonitorConstants, MonitorInv, now' = now, busy' = busy
    PROVE  BusyRight' /\ InOrder
<1>1. BusyRight' /\ \A k \in Judging : Len(busy[k]) \in Nat
  BY DEF MonitorInv, BusyRight
<1> QED BY <1>1 DEF InOrder

\* An answer makes history of bars, and no track of them forgets one that was taken.
LEMMA WarmTrack ==
    ASSUME MonitorConstants, MonitorInv, NEW b \in 0..LastBar
    PROVE  TrackRight(Warmed(b)) /\ Swallowed(b) \subseteq Bars
<1>0. /\ now \in 1..LastBar /\ LastBar \in Nat /\ track \in TrackType /\ track.taken <= track.emitted
  BY DEF MonitorInv, Simple, TrackRight, Bars, MonitorConstants
<1>1. Over(b) \in Int /\ Over(b) <= LastBar
  BY <1>0 DEF Over
<1>2. /\ Larger(track.emitted, Over(b)) \in 0..LastBar /\ Larger(track.emitted, Over(b)) >= track.emitted
      /\ Larger(track.open, b) \in 0..LastBar
  BY <1>0, <1>1 DEF Larger, TrackType
<1>3. TrackRight(Warmed(b))
  <2>1. Warmed(b) \in TrackType /\ Warmed(b).taken = track.taken
        /\ Warmed(b).emitted = Larger(track.emitted, Over(b))
    BY <1>0, <1>2 DEF Warmed, TrackType
  <2> QED BY <1>0, <1>2, <2>1 DEF TrackRight, TrackType
<1>4. Swallowed(b) \subseteq Bars
  BY <1>0 DEF Swallowed, Unjudged, Bars, TrackType
<1> QED BY <1>3, <1>4

LEMMA UnjudgedAreBars == ASSUME MonitorConstants, MonitorInv PROVE Unjudged(track) \subseteq Bars
BY DEF MonitorInv, TrackRight, TrackType, Unjudged, Bars, MonitorConstants

\* The places of the warm-ups.
LEMMA Pumped ==
    ASSUME MonitorConstants, MonitorInv, NEW w, WarmRight(w, now + 1) PROVE WarmRight(Pump(w), now + 1)
<1>0. now \in Bars /\ now \in Int /\ MaxInFlight \in Nat
  BY DEF MonitorInv, Simple, Bars, MonitorConstants
<1>1. /\ w.inFlight \in 0..MaxInFlight /\ Before(w.asked, now + 1) /\ Len(w.asked) = w.inFlight
      /\ w \in [queued : BOOLEAN, inFlight : 0..MaxInFlight, asked : Seq(Bars)]
  BY DEF WarmRight
<1>2. /\ Before(Append(w.asked, now), now + 1) /\ Len(Append(w.asked, now)) = w.inFlight + 1
      /\ Append(w.asked, now) \in Seq(Bars)
  BY <1>0, <1>1, Added DEF Before
<1>3. CASE w.queued /\ w.inFlight < MaxInFlight /\ isReady
  <2>1. Pump(w) = [queued |-> FALSE, inFlight |-> w.inFlight + 1, asked |-> Append(w.asked, now)]
    BY <1>3 DEF Pump, AskedFor
  <2>2. w.inFlight + 1 \in 0..MaxInFlight
    BY <1>0, <1>1, <1>3
  <2>3. \A q \in BOOLEAN : [queued |-> q, inFlight |-> w.inFlight + 1, asked |-> Append(w.asked, now)]
                              \in [queued : BOOLEAN, inFlight : 0..MaxInFlight, asked : Seq(Bars)]
    BY <1>2, <2>2
  <2> QED BY <1>2, <2>1, <2>3 DEF WarmRight
<1>4. CASE w.queued /\ w.inFlight < MaxInFlight /\ ~isReady
  <2>1. Pump(w) = [w EXCEPT !.queued = FALSE]
    BY <1>4 DEF Pump, AskedFor
  <2> QED BY <1>1, <2>1 DEF WarmRight
<1>5. CASE ~(w.queued /\ w.inFlight < MaxInFlight)
  BY <1>5 DEF Pump
<1> QED BY <1>3, <1>4, <1>5

LEMMA EnqueueKeeps ==
    ASSUME MonitorConstants, MonitorInv, Enqueue
    PROVE  WarmRight(warm', now + 1) /\ TrackRight(track') /\ missed' \subseteq Bars
<1>0. /\ WarmRight(warm, now + 1) /\ TrackRight(track) /\ missed \subseteq Bars /\ cache.last \in 0..LastBar
  BY DEF MonitorInv, Simple
<1>1. TrackRight(Warmed(cache.last)) /\ Swallowed(cache.last) \subseteq Bars
  BY <1>0, WarmTrack
<1>2. WarmRight(Pump([warm EXCEPT !.queued = TRUE]), now + 1)
  <2>1. WarmRight([warm EXCEPT !.queued = TRUE], now + 1)
    BY <1>0 DEF WarmRight
  <2> QED BY <2>1, Pumped
<1>3. CASE warm' = warm
  BY <1>0, <1>1, <1>3 DEF Enqueue
<1>4. CASE warm' = Pump([warm EXCEPT !.queued = TRUE]) /\ UNCHANGED <<track, missed>>
  BY <1>0, <1>2, <1>4
<1> QED BY <1>0, <1>1, <1>3, <1>4 DEF Enqueue

LEMMA TrackWith ==
    ASSUME NEW e \in 0..LastBar, NEW o \in 0..LastBar, track \in TrackType
    PROVE  LET t == [track EXCEPT !.emitted = e, !.open = o]
           IN  t \in TrackType /\ t.taken = track.taken /\ t.emitted = e
BY DEF TrackType

\* The bar that is open is taken when it is over and was not taken before.
LEMMA EmitIsRight ==
    ASSUME MonitorConstants, MonitorInv, NEW n \in Int, track.open < n, n <= now
    PROVE  \/ EmitOpen(track) = <<>>
           \/ \E b \in Bars : EmitOpen(track) = <<b>> /\ b < now /\ track.emitted < b /\ b <= Emitted(track)
<1>0. track \in TrackType /\ now \in Int /\ LastBar \in Nat
  BY DEF MonitorInv, TrackRight, Simple, Bars, MonitorConstants
<1>1. CASE track.open > track.emitted
  <2>1. track.open \in Bars /\ EmitOpen(track) = <<track.open>> /\ Emitted(track) = track.open
    BY <1>0, <1>1 DEF TrackType, Bars, EmitOpen, Emitted, Larger
  <2>2. track.open < now /\ track.emitted < track.open /\ track.open <= track.open
    BY <1>0, <1>1 DEF TrackType
  <2> QED BY <2>1, <2>2
<1>2. CASE ~(track.open > track.emitted)
  BY <1>2 DEF EmitOpen
<1> QED BY <1>1, <1>2

LEMMA AdvanceKeeps ==
    ASSUME MonitorConstants, MonitorInv, now' = now, NEW b \in Bars, b <= now, Advance(b)
    PROVE  BusyRight' /\ TrackRight(track)' /\ InOrder
<1>0. track \in TrackType /\ track.taken <= track.emitted /\ now \in Int /\ LastBar \in Nat
  BY DEF MonitorInv, TrackRight, Simple, Bars, MonitorConstants
<1>1. CASE b > track.emitted /\ b > track.open
  <2> DEFINE t == [track EXCEPT !.emitted = Emitted(track), !.open = b]
  <2>1. Emitted(track) \in 0..LastBar /\ Emitted(track) >= track.emitted
    BY <1>0 DEF Emitted, Larger, TrackType
  <2>2. t \in TrackType /\ t.taken = track.taken /\ t.emitted = Emitted(track)
    <3>1. b \in 0..LastBar
      BY <1>0 DEF Bars
    <3> QED BY <1>0, <2>1, <3>1, TrackWith
  <2>3. Take("eval", EmitOpen(track), t)
    BY <1>1 DEF Advance
  <2>4. b \in Int /\ track.open < b /\ "eval" \in Judging
    BY <1>0, <1>1 DEF Judging, Bars
  <2>5. \/ EmitOpen(track) = <<>>
        \/ \E x \in Bars : EmitOpen(track) = <<x>> /\ x < now /\ track.emitted < x /\ x <= t.emitted
    BY <2>2, <2>4, EmitIsRight
  <2> HIDE DEF t
  <2> QED BY <2>1, <2>2, <2>3, <2>4, <2>5, TakeBars
<1>2. CASE ~(b > track.emitted /\ b > track.open)
  <2>1. busy' = busy /\ track' = track
    BY <1>2 DEF Advance
  <2>2. TrackRight(track)'
    BY <2>1 DEF MonitorInv, TrackRight
  <2> QED BY <2>1, <2>2, TakeNothing
<1> QED BY <1>1, <1>2

\* What a step leaves of the rest.
LEMMA TheRest ==
    ASSUME MonitorConstants, MonitorInv, now' = now, TrackRight(track'), BusyRight',
           UNCHANGED <<needed, isReady, subbed, sync, warm, cache, polls, judged, missed>>
    PROVE  MonitorInv'
<1>1. Simple'
  BY DEF MonitorInv, Simple
<1>2. WarmRight(warm', now' + 1) /\ Before(polls', now' + 1)
  BY DEF MonitorInv
<1> QED BY <1>1, <1>2 DEF MonitorInv, WarmRight, Before, TrackRight

LEMMA StepBars ==
    ASSUME MonitorConstants, MonitorInv,
           Flush \/ \E b \in 1..LastBar : SpotTick(b) \/ Trendbar(b)
    PROVE  MonitorInv' /\ InOrder
<1>0. track \in TrackType /\ track.taken <= track.emitted /\ now \in Int /\ LastBar \in Nat
  BY DEF MonitorInv, TrackRight, Simple, Bars, MonitorConstants
<1>1. UNCHANGED Rest
  BY DEF Flush, SpotTick, Trendbar
<1>2. ASSUME BusyRight' /\ TrackRight(track)' /\ InOrder PROVE MonitorInv' /\ InOrder
  <2>1. TrackRight(track')
    BY <1>2 DEF TrackRight
  <2> QED BY <1>1, <1>2, <2>1, TheRest DEF Rest
<1>3. CASE Flush
  <2> DEFINE t == [track EXCEPT !.emitted = track.open, !.open = 0]
  <2>1. track.open > track.emitted /\ track.open < now /\ Take("eval", EmitOpen(track), t)
    BY <1>3 DEF Flush, Flushes, Due
  <2>2. t \in TrackType /\ t.taken = track.taken /\ t.emitted = track.open /\ track.emitted <= track.open
    <3>1. track.open \in 0..LastBar /\ 0 \in 0..LastBar /\ track.emitted <= track.open
      BY <1>0, <2>1 DEF TrackType
    <3> QED BY <1>0, <3>1, TrackWith
  <2>3. Emitted(track) = track.open /\ "eval" \in Judging
    BY <1>0, <2>1 DEF Emitted, Larger, TrackType, Judging
  <2>4. \/ EmitOpen(track) = <<>>
        \/ \E x \in Bars : EmitOpen(track) = <<x>> /\ x < now /\ track.emitted < x /\ x <= t.emitted
    BY <1>0, <2>1, <2>2, <2>3, EmitIsRight
  <2> HIDE DEF t
  <2> QED BY <1>1, <1>2, <2>1, <2>2, <2>3, <2>4, TakeBars DEF Rest
<1>4. ASSUME NEW b \in Bars, SpotTick(b) PROVE MonitorInv' /\ InOrder
  <2>1. b <= now /\ Advance(b)
    BY <1>0, <1>4 DEF SpotTick
  <2> QED BY <1>1, <1>2, <2>1, AdvanceKeeps DEF Rest
<1>5. ASSUME NEW b \in Bars, Trendbar(b) PROVE MonitorInv' /\ InOrder
  <2>0. b <= now /\ b \in 0..LastBar /\ b \in Int
    <3>1. b \in {now - 1, now}
      BY <1>5 DEF Trendbar
    <3> QED BY <1>0, <3>1 DEF Bars
  <2>1. CASE b = track.open /\ b > track.emitted /\ b < now
    <3> DEFINE t == [track EXCEPT !.emitted = b, !.open = 0]
    <3>1. Take("eval", <<b>>, t) /\ "eval" \in Judging
      BY <1>5, <2>1 DEF Trendbar, Judging
    <3>2. t \in TrackType /\ t.taken = track.taken /\ t.emitted = b /\ track.emitted <= b /\ b <= b
      <4>1. track.emitted <= b /\ b <= b /\ 0 \in 0..LastBar
        BY <1>0, <2>0, <2>1 DEF TrackType
      <4> QED BY <1>0, <2>0, <4>1, TrackWith
    <3> HIDE DEF t
    <3> QED BY <1>1, <1>2, <2>1, <3>1, <3>2, TakeBars DEF Rest
  <2>2. CASE ~(b = track.open /\ b > track.emitted /\ b < now)
    BY <1>1, <1>2, <1>5, <2>0, <2>2, AdvanceKeeps DEF Rest, Trendbar
  <2> QED BY <2>1, <2>2
<1> QED BY <1>3, <1>4, <1>5 DEF Bars

\* The poll judges the newest closed bar, if it is new.
LEMMA StepPolls ==
    ASSUME MonitorConstants, MonitorInv,
           PollAsk \/ \E ok, short \in BOOLEAN : PollAnswer(ok, short)
    PROVE  MonitorInv' /\ InOrder
<1>0. /\ track \in TrackType /\ track.taken <= track.emitted /\ now \in Int /\ LastBar \in Nat /\ now \in Bars
      /\ TrackRight(track) /\ Before(polls, now + 1) /\ Simple /\ WarmRight(warm, now + 1)
  BY DEF MonitorInv, TrackRight, Simple, Bars, MonitorConstants
<1>1. CASE PollAsk
  <2>1. /\ polls' = Append(polls, now)
        /\ UNCHANGED <<now, needed, isReady, subbed, track, sync, busy, warm, cache, judged, missed>>
    BY <1>1 DEF PollAsk
  <2>2. Before(Append(polls, now), now + 1)
    <3>1. now < now + 1 /\ now + 1 \in Int
      BY <1>0
    <3> QED BY <1>0, <3>1, Added
  <2>3. Simple' /\ WarmRight(warm', now' + 1) /\ TrackRight(track') /\ Before(polls', now' + 1)
    BY <1>0, <2>1, <2>2 DEF Simple
  <2>4. BusyRight' /\ InOrder
    BY <2>1, TakeNothing
  <2> QED BY <2>3, <2>4 DEF MonitorInv, WarmRight, TrackRight, Before
<1>2. ASSUME NEW ok \in BOOLEAN, NEW short \in BOOLEAN, PollAnswer(ok, short) PROVE MonitorInv' /\ InOrder
  <2> DEFINE p == Head(polls)
             b == Over(p)
  <2>1. /\ polls # <<>> /\ polls' = Tail(polls)
        /\ UNCHANGED <<now, needed, isReady, subbed, sync, warm, cache, judged>>
    BY <1>2 DEF PollAnswer
  <2>2. Before(Tail(polls), now + 1) /\ p \in Bars /\ p < now + 1
    BY <1>0, <2>1, Rests
  <2>3. b \in 0..LastBar /\ b < now
    BY <1>0, <2>2 DEF Over, Bars
  <2>4. CASE ok /\ short /\ subbed
    <3>1. track' = Warmed(p) /\ busy' = busy /\ missed' = missed \cup Swallowed(p)
      BY <1>2, <2>4 DEF PollAnswer
    <3>2. p \in 0..LastBar
      BY <2>2 DEF Bars
    <3>3. TrackRight(Warmed(p)) /\ Swallowed(p) \subseteq Bars
      BY <3>2, WarmTrack
    <3>4. TrackRight(track') /\ missed' \subseteq Bars
      BY <1>0, <3>1, <3>3 DEF Simple
    <3>5. BusyRight' /\ InOrder
      BY <2>1, <3>1, TakeNothing
    <3>6. Simple' /\ WarmRight(warm', now' + 1) /\ Before(polls', now' + 1)
      BY <1>0, <2>1, <2>2, <3>4 DEF Simple
    <3> QED BY <3>4, <3>5, <3>6 DEF MonitorInv, WarmRight, TrackRight, Before
  <2>5. CASE ~(ok /\ short /\ subbed) /\ ok /\ b > track.emitted
    <3> DEFINE t == [track EXCEPT !.emitted = b]
    <3>1. Take("link", <<b>>, t) /\ missed' = missed \cup {n \in Unjudged(track) : n < b} /\ "link" \in Judging
      BY <1>2, <2>5 DEF PollAnswer, Judging
    <3>2. b \in Bars
      BY <1>0, <2>3, <2>5 DEF Bars, TrackType
    <3>3. t \in TrackType /\ t.taken = track.taken /\ t.emitted = b /\ track.emitted <= b /\ track.emitted < b
      BY <1>0, <2>3, <2>5 DEF TrackType
    <3>4. BusyRight' /\ TrackRight(track)' /\ InOrder
      <4> HIDE DEF t, b
      <4>1. b < now /\ b <= b
        BY <2>3
      <4> QED BY <2>1, <3>1, <3>2, <3>3, <4>1, TakeBars
    <3>5. missed' \subseteq Bars
      BY <1>0, <3>1, UnjudgedAreBars DEF Simple
    <3>6. Simple' /\ WarmRight(warm', now' + 1) /\ Before(polls', now' + 1)
      BY <1>0, <2>1, <2>2, <3>5 DEF Simple
    <3> QED BY <3>4, <3>6 DEF MonitorInv, WarmRight, Before
  <2>6. CASE ~(ok /\ short /\ subbed) /\ ~(ok /\ b > track.emitted)
    <3>1. UNCHANGED <<track, missed, busy>>
      BY <1>2, <2>6 DEF PollAnswer
    <3>2. BusyRight' /\ InOrder
      BY <2>1, <3>1, TakeNothing
    <3>3. Simple' /\ WarmRight(warm', now' + 1) /\ Before(polls', now' + 1) /\ TrackRight(track')
      BY <1>0, <2>1, <2>2, <3>1 DEF Simple
    <3> QED BY <3>2, <3>3 DEF MonitorInv, WarmRight, TrackRight, Before
  <2> QED BY <2>4, <2>5, <2>6
<1> QED BY <1>1, <1>2

LEMMA StepWarm ==
    ASSUME MonitorConstants, MonitorInv, NEW ok \in BOOLEAN, WarmAnswer(ok) PROVE MonitorInv' /\ InOrder
<1>0. /\ now \in Int /\ Simple /\ TrackRight(track) /\ WarmRight(warm, now + 1) /\ Before(polls, now + 1)
      /\ missed \subseteq Bars /\ now \in 0..LastBar /\ cache \in [last : 0..LastBar, at : 0..LastBar]
      /\ MaxInFlight \in Nat
  BY DEF MonitorInv, Simple, Bars, MonitorConstants
<1> DEFINE b == Head(warm.asked)
           w == [warm EXCEPT !.asked = Tail(@)]
<1>1. /\ UNCHANGED <<now, needed, isReady, subbed, sync, busy, polls, judged>>
      /\ warm.asked # <<>> /\ warm' = Pump(Fetched(w))
  BY DEF WarmAnswer, Answered
<1>2. /\ Before(warm.asked, now + 1) /\ Len(warm.asked) = warm.inFlight /\ warm.inFlight \in 0..MaxInFlight
      /\ warm \in [queued : BOOLEAN, inFlight : 0..MaxInFlight, asked : Seq(Bars)]
  BY <1>0 DEF WarmRight
<1>3. /\ Before(Tail(warm.asked), now + 1) /\ Len(Tail(warm.asked)) = warm.inFlight - 1
      /\ b \in Bars /\ warm.inFlight >= 1 /\ b \in 0..LastBar
  <2>1. now + 1 \in Int
    BY <1>0
  <2> QED BY <1>1, <1>2, <2>1, Rests DEF Bars
<1>4. WarmRight(Fetched(w), now + 1)
  <2>1. w.inFlight = warm.inFlight /\ w.asked = Tail(warm.asked) /\ warm.inFlight > 0
    BY <1>2, <1>3
  <2>2. Fetched(w) = [w EXCEPT !.inFlight = warm.inFlight - 1]
    BY <2>1 DEF Fetched
  <2>3. warm.inFlight - 1 \in 0..MaxInFlight /\ Tail(warm.asked) \in Seq(Bars)
    BY <1>0, <1>2, <1>3 DEF Before
  <2>4. /\ Fetched(w) \in [queued : BOOLEAN, inFlight : 0..MaxInFlight, asked : Seq(Bars)]
        /\ Fetched(w).asked = Tail(warm.asked) /\ Fetched(w).inFlight = warm.inFlight - 1
    BY <1>2, <2>2, <2>3
  <2> QED BY <1>3, <2>4 DEF WarmRight
<1>5. WarmRight(warm', now' + 1)
  BY <1>1, <1>4, Pumped
<1>6. TrackRight(Warmed(b)) /\ Swallowed(b) \subseteq Bars
  BY <1>3, WarmTrack
<1>7. TrackRight(track') /\ missed' \subseteq Bars
  <2>1. \/ track' = Warmed(b) /\ missed' = missed \cup Swallowed(b)
        \/ UNCHANGED <<track, missed>>
    BY DEF WarmAnswer
  <2> QED BY <1>0, <1>6, <2>1
<1>8. cache' \in [last : 0..LastBar, at : 0..LastBar]
  <2>1. cache' = [last |-> b, at |-> now] \/ cache' = cache
    BY DEF WarmAnswer
  <2>2. [last |-> b, at |-> now] \in [last : 0..LastBar, at : 0..LastBar]
    BY <1>0, <1>3
  <2> QED BY <1>0, <2>1, <2>2
<1>9. Simple'
  BY <1>0, <1>1, <1>7, <1>8 DEF Simple
<1>10. BusyRight' /\ InOrder
  BY <1>1, TakeNothing
<1>11. Before(polls', now' + 1)
  BY <1>0, <1>1
<1> QED BY <1>5, <1>7, <1>9, <1>10, <1>11 DEF MonitorInv, WarmRight, TrackRight, Before

LEMMA StepSyncs ==
    ASSUME MonitorConstants, MonitorInv,
           Rewarm \/ \E l \in Syncing : Decide(l) \/ Add(l) \/ AskWarm(l) \/ NoWarm(l) \/ Withdraw(l)
    PROVE  MonitorInv' /\ InOrder
<1>0. /\ now \in Int /\ Simple /\ TrackRight(track) /\ WarmRight(warm, now + 1) /\ Before(polls, now + 1)
      /\ missed \subseteq Bars /\ sync \in [Syncing -> {"idle", "add", "warm", "remove"}]
  BY DEF MonitorInv, Simple, Bars, MonitorConstants
<1>1. /\ UNCHANGED <<now, needed, isReady, busy, cache, polls, judged>>
      /\ subbed' \in BOOLEAN
  BY <1>0 DEF Rewarm, Decide, Add, AskWarm, NoWarm, Withdraw, Forgotten, Simple
<1>2. sync' \in [Syncing -> {"idle", "add", "warm", "remove"}]
  BY <1>0 DEF Rewarm, Decide, Decides, Add, AskWarm, NoWarm, Withdraw, GoesOn
<1>3. WarmRight(warm', now + 1) /\ TrackRight(track') /\ missed' \subseteq Bars
  <2>1. CASE Enqueue
    BY <2>1, EnqueueKeeps
  <2>2. CASE UNCHANGED <<warm, track, missed>>
    BY <1>0, <2>2
  <2>3. CASE UNCHANGED warm /\ track' = NoTrack /\ missed' = missed \cup Unjudged(track)
    <3>1. TrackRight(NoTrack)
      BY DEF TrackRight, TrackType, NoTrack, MonitorConstants
    <3> QED BY <1>0, <2>3, <3>1, UnjudgedAreBars
  <2> QED BY <2>1, <2>2, <2>3 DEF Rewarm, Decide, Add, AskWarm, NoWarm, Withdraw
<1>4. Simple'
  BY <1>0, <1>1, <1>2, <1>3 DEF Simple
<1>5. BusyRight' /\ InOrder
  BY <1>1, TakeNothing
<1> QED BY <1>0, <1>1, <1>3, <1>4, <1>5 DEF MonitorInv, WarmRight, TrackRight, Before

LEMMA StepWorld ==
    ASSUME MonitorConstants, MonitorInv,
           AlertsChange \/ Drop \/ Ready \/ Clock \/ \E l \in Judging : Evaluate(l)
    PROVE  MonitorInv' /\ InOrder
<1>0. /\ now \in Int /\ Simple /\ TrackRight(track) /\ WarmRight(warm, now + 1) /\ Before(polls, now + 1)
      /\ missed \subseteq Bars /\ BusyRight /\ now \in Bars /\ LastBar \in Nat
  BY DEF MonitorInv, Simple, Bars, MonitorConstants
<1>1. CASE AlertsChange \/ Ready
  <2>1. /\ needed' \in BOOLEAN /\ isReady' \in BOOLEAN
        /\ UNCHANGED <<now, subbed, track, sync, busy, warm, cache, polls, judged, missed>>
    BY <1>0, <1>1 DEF AlertsChange, Ready, LinkUp, Simple
  <2>2. Simple' /\ BusyRight' /\ InOrder
    BY <1>0, <2>1, TakeNothing DEF Simple
  <2> QED BY <1>0, <2>1, <2>2 DEF MonitorInv, WarmRight, TrackRight, Before
<1>2. CASE Drop
  <2>1. /\ isReady' = FALSE /\ subbed' = FALSE /\ track' = NoTrack /\ missed' = missed \cup Unjudged(track)
        /\ warm' = [queued |-> FALSE, inFlight |-> 0, asked |-> <<>>] /\ polls' = <<>>
        /\ UNCHANGED <<now, needed, sync, busy, cache, judged>>
    BY <1>2 DEF Drop
  <2>2. Simple'
    BY <1>0, <2>1, UnjudgedAreBars DEF Simple
  <2>3. WarmRight(warm', now' + 1)
    <3>1. Before(<<>>, now + 1) /\ Len(<<>>) = 0 /\ 0 \in 0..MaxInFlight /\ <<>> \in Seq(Bars)
      BY Nothing DEF MonitorConstants
    <3>2. \A q \in BOOLEAN : [queued |-> q, inFlight |-> 0, asked |-> <<>>]
                                \in [queued : BOOLEAN, inFlight : 0..MaxInFlight, asked : Seq(Bars)]
      BY <3>1
    <3> QED BY <2>1, <3>1, <3>2 DEF WarmRight
  <2>4. TrackRight(track') /\ Before(polls', now' + 1)
    BY <2>1, Nothing DEF TrackRight, TrackType, NoTrack, MonitorConstants
  <2>5. BusyRight' /\ InOrder
    BY <2>1, TakeNothing
  <2> QED BY <2>2, <2>3, <2>4, <2>5 DEF MonitorInv, WarmRight, TrackRight, Before
<1>3. CASE Clock
  <2>1. /\ now' = now + 1 /\ now < LastBar
        /\ UNCHANGED <<needed, isReady, subbed, track, sync, busy, warm, cache, polls, judged, missed>>
    BY <1>3 DEF Clock, Ticks
  <2>2. now' \in Bars /\ now <= now' /\ now' \in Int /\ now + 1 <= now' + 1
    BY <1>0, <2>1 DEF Bars
  <2>3. Simple'
    BY <1>0, <2>1, <2>2 DEF Simple
  <2>4. BusyRight'
    <3>1. \A l \in Judging : Before(busy[l], now')
      BY <1>0, <2>2, Later DEF BusyRight
    <3> QED BY <1>0, <2>1, <3>1 DEF BusyRight
  <2>5. Before(polls, now' + 1) /\ WarmRight(warm, now' + 1)
    <3>1. now + 1 \in Int /\ now' + 1 \in Int
      BY <1>0, <2>2
    <3> QED BY <1>0, <2>2, <3>1, Later DEF WarmRight
  <2>6. InOrder
    <3>1. \A k \in Judging : Len(busy[k]) \in Nat
      BY <1>0 DEF BusyRight
    <3> QED BY <2>1, <3>1 DEF InOrder
  <2> QED BY <1>0, <2>1, <2>3, <2>4, <2>5, <2>6 DEF MonitorInv, WarmRight, TrackRight, Before
<1>4. ASSUME NEW l \in Judging, Evaluate(l) PROVE MonitorInv' /\ InOrder
  <2>1. /\ busy[l] # <<>> /\ busy' = [busy EXCEPT ![l] = Tail(@)] /\ judged' = judged \cup {Head(busy[l])}
        /\ UNCHANGED <<now, needed, isReady, subbed, track, sync, warm, cache, polls, missed>>
    BY <1>4 DEF Evaluate, Judges
  <2>2. /\ Before(Tail(busy[l]), now) /\ Head(busy[l]) \in Bars
        /\ Len(busy[l]) \in Nat /\ Len(Tail(busy[l])) = Len(busy[l]) - 1
    BY <1>0, <2>1, Rests DEF BusyRight
  <2>3. Simple'
    BY <1>0, <2>1, <2>2 DEF Simple
  <2>4. /\ busy'[l] = Tail(busy[l]) /\ \A k \in Judging : k # l => busy'[k] = busy[k]
        /\ busy' \in [Judging -> Seq(Bars)]
    BY <1>0, <2>1, <2>2 DEF BusyRight, Before
  <2>5. BusyRight'
    <3>1. \A k \in Judging : Before(busy'[k], now)
      BY <1>0, <2>2, <2>4 DEF BusyRight
    <3> QED BY <2>1, <2>4, <3>1 DEF BusyRight
  <2>6. InOrder
    <3>1. \A k \in Judging : Len(busy[k]) \in Nat
      BY <1>0 DEF BusyRight
    <3>2. \A k \in Judging : ~(Len(busy'[k]) > Len(busy[k]))
      BY <2>2, <2>4, <3>1
    <3> QED BY <3>2 DEF InOrder
  <2> QED BY <1>0, <2>1, <2>3, <2>5, <2>6 DEF MonitorInv, WarmRight, TrackRight, Before
<1> QED BY <1>1, <1>2, <1>3, <1>4

LEMMA InitMonitor == ASSUME MonitorConstants, MonitorInit PROVE MonitorInv
<1>1. Simple
  <2>1. now \in Bars /\ cache \in [last : 0..LastBar, at : 0..LastBar]
    BY DEF MonitorConstants, MonitorInit, Bars
  <2>2. sync \in [Syncing -> {"idle", "add", "warm", "remove"}]
    BY DEF MonitorInit
  <2>3. needed \in BOOLEAN /\ isReady \in BOOLEAN /\ subbed \in BOOLEAN
    BY DEF MonitorInit
  <2> QED BY <2>1, <2>2, <2>3 DEF MonitorInit, Simple
<1>2. TrackRight(track)
  BY DEF MonitorConstants, MonitorInit, TrackRight, TrackType, NoTrack
<1>3. WarmRight(warm, now + 1)
  <2>1. Before(<<>>, now + 1) /\ Len(<<>>) = 0 /\ 0 \in 0..MaxInFlight /\ <<>> \in Seq(Bars)
    BY Nothing DEF MonitorConstants
  <2>2. \A q \in BOOLEAN : [queued |-> q, inFlight |-> 0, asked |-> <<>>]
                              \in [queued : BOOLEAN, inFlight : 0..MaxInFlight, asked : Seq(Bars)]
    BY <2>1
  <2>3. warm = [queued |-> FALSE, inFlight |-> 0, asked |-> <<>>]
    BY DEF MonitorInit
  <2> QED BY <2>1, <2>2, <2>3 DEF WarmRight
<1>4. Before(polls, now + 1) /\ BusyRight
  BY Nothing DEF MonitorInit, BusyRight
<1> QED BY <1>1, <1>2, <1>3, <1>4 DEF MonitorInv

LEMMA StepMonitor == ASSUME MonitorConstants, MonitorInv, [MonitorNext]_monitor PROVE MonitorInv' /\ [InOrder]_monitor
<1>1. CASE MonitorNext
  BY <1>1, StepBars, StepPolls, StepWarm, StepSyncs, StepWorld DEF MonitorNext
<1>2. CASE UNCHANGED monitor
  <2>1. UNCHANGED <<now, needed, isReady, subbed, track, sync, warm, cache, polls, judged, missed, busy>>
    BY <1>2 DEF monitor
  <2>2. TrackRight(track') /\ BusyRight'
    BY <2>1 DEF MonitorInv, BusyRight
  <2> QED BY <1>2, <2>1, <2>2, TheRest
<1> QED BY <1>1, <1>2

\* However ticks, trendbars, the clock, warm-ups and polls find a bar closed, on whichever
\* loop: none is judged before it is over, and the places of the warm-ups are right.
THEOREM MonitorIsKept == ASSUME MonitorConstants PROVE MonitorSpec => []MonitorKept
<1>1. MonitorInit => MonitorInv
  BY InitMonitor
<1>2. MonitorInv /\ [MonitorNext]_monitor => MonitorInv'
  BY StepMonitor
<1>3. MonitorInv => MonitorKept
  <2> SUFFICES ASSUME MonitorInv PROVE MonitorKept
    OBVIOUS
  <2>1. \A n, s : Before(s, n) => ToSet(s) \subseteq Bars /\ \A b \in ToSet(s) : b < n
    BY DEF Before, ToSet
  <2>2. MonitorTypeOK
    BY <2>1 DEF MonitorInv, Simple, MonitorTypeOK, TrackRight, TrackType, WarmRight, BusyRight
  <2>3. OverWhenJudged
    BY <2>1 DEF MonitorInv, BusyRight, OverWhenJudged
  <2>4. PlacesKept
    BY DEF MonitorInv, WarmRight, PlacesKept
  <2> QED BY <2>2, <2>3, <2>4 DEF MonitorKept
<1> QED BY <1>1, <1>2, <1>3, PTL DEF MonitorSpec

\* Between two resets of the track each bar is taken once, and bars in order.
THEOREM BarsAreTakenOnce == ASSUME MonitorConstants PROVE MonitorSpec => TakenOnce
<1>1. MonitorInit => MonitorInv
  BY InitMonitor
<1>2. MonitorInv /\ [MonitorNext]_monitor => MonitorInv' /\ [InOrder]_monitor
  BY StepMonitor
<1> QED BY <1>1, <1>2, PTL DEF MonitorSpec, TakenOnce, InOrder

=============================================================================
