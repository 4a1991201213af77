----------------------------- MODULE LiveProofs -----------------------------
(***************************************************************************)
(* The gateway's two halves: what a room hears and its screens show, and   *)
(* who holds a row.                                                        *)
(*                                                                         *)
(* A room hears, and its screens are current or about to be, for any       *)
(* number of tabs, writes, broken connections and failed reads.            *)
(*                                                                         *)
(* The subscription of a room goes round Silent, Asking and Hearing, and   *)
(* nobody leaves while it is asked for: that is why there is one owner and *)
(* one acknowledgement at a time (RoomInv, MemberInv).  What was announced *)
(* since a tab's connection joined is on its way to the tab (ReadInv);     *)
(* what was written in between its read and that moment is excepted.       *)
(*                                                                         *)
(* A claim is read, and deleted later as one whose holder is gone: what    *)
(* makes that safe is that a connection joins once, so one that has been   *)
(* on the roster and is off it never comes back (Past, ClaimsInv).         *)
(***************************************************************************)
EXTENDS LiveScreens, PresenceClaims, TLAPS, SequenceTheorems, FiniteSetTheorems

(***************************************************************************)
(* The room.                                                               *)
(***************************************************************************)

Subscribes == {<<"subscribe", c>> : c \in Conns}

Unsubscribes == {<<"unsubscribe", c>> : c \in Conns}

Pushes == {Change} \cup {<<"ack", c>> : c \in Conns}

Quiet(W) == \A i \in DOMAIN W : W[i] = Change

OneAck(W, c) ==
    \E i \in DOMAIN W : W[i] = <<"ack", c>> /\ \A j \in DOMAIN W \ {i} : W[j] = Change

HasChange(W) == \E i \in DOMAIN W : W[i] = Change

(* Nobody listens, and Redis is, or will be, rid of the channel.           *)
Silent ==
    /\ promise = None /\ listeners = {} /\ acked = {} /\ Quiet(wire)
    /\ \/ cmds = <<>> /\ ~redis
       \/ \E u \in Unsubscribes : cmds = <<u>>

(* The room's subscription was asked for: Redis has yet to execute it, or  *)
(* its acknowledgement is on its way, or has arrived.                      *)
Asking ==
    /\ promise # None /\ listeners = {}
    /\ \/ /\ acked = {} /\ Quiet(wire)
          /\ \/ cmds = <<<<"subscribe", promise>>>>
             \/ \E u \in Unsubscribes : cmds = <<u, <<"subscribe", promise>>>>
       \/ cmds = <<>> /\ redis /\ acked = {} /\ OneAck(wire, promise)
       \/ cmds = <<>> /\ redis /\ acked = {promise} /\ Quiet(wire)

(* The channel has a listener, that of the room or ones about to go.       *)
Hearing ==
    /\ listeners # {} /\ cmds = <<>> /\ redis /\ acked = {} /\ Quiet(wire)
    /\ promise # None => promise \in listeners

RoomInv ==
    /\ leaving = listeners \ {promise} /\ IsFiniteSet(listeners)
    /\ listeners \subseteq {c \in Conns : member[c] # "none"}
    /\ wire \in Seq(Pushes)
    /\ Silent \/ Asking \/ Hearing

MemberInv ==
    /\ waits \in [Conns -> Conns \cup {None}]
    /\ promise # None => member[promise] # "none"
    /\ \A c \in room : waits[c] = promise
    /\ \A c \in Conns :
          /\ c \in room <=> member[c] \in {"joining", "joined"}
          /\ member[c] = "joined" => promise \in listeners
          /\ c \in alive => c \in room /\ c \notin closed
          /\ c \in closed => member[c] # "none"

(***************************************************************************)
(* The tab.                                                                *)
(***************************************************************************)

TabType(n) ==
    [link : {"connecting", "up", "down"}, gen : 1..(MaxDrops + 1), down : BOOLEAN,
     drops : Nat, wasDown : BOOLEAN, dropped : BOOLEAN, timer : BOOLEAN,
     catchingUp : BOOLEAN, fetch : {"none", "asked", "served"}, took : 0..n,
     watch : SUBSET Int, shown : 0..n, behind : BOOLEAN, failed : BOOLEAN,
     errored : BOOLEAN, fails : Nat, since : 0..n]

(* Connections are made one after the other, and the last cannot break.    *)
LinkOK(s, t) ==
    /\ t.down <=> t.link # "up"
    /\ t.link = "down" => <<s, t.gen>> \notin alive /\ t.gen <= MaxDrops
    /\ \A n \in 1..(MaxDrops + 1) :
          member[<<s, n>>] # "none" /\ <<s, n>> \notin alive => n <= MaxDrops

(* A read that may call the screen current was asked for since the link    *)
(* came up, and holds what was written until then.                         *)
WatchOK(t) ==
    /\ \A w \in t.watch : w <= t.drops
    /\ t.down => t.drops \notin t.watch
    /\ (t.fetch = "served" /\ ~ t.down /\ t.drops \in t.watch) => t.took >= t.since

TabInv ==
    /\ tab \in [Screens -> TabType(case)]
    /\ \A s \in Screens : LinkOK(s, tab[s]) /\ WatchOK(tab[s])

CaseInv ==
    /\ case \in 0..MaxWrites /\ unsaid \in 0..case
    /\ alive \subseteq Conns /\ closed \subseteq Conns /\ room \subseteq Conns
    /\ promise \in Conns \cup {None} /\ (promise = None <=> room = {})
    /\ member \in [Conns -> {"none", "joining", "joined", "left"}]
    /\ frames \in [Conns -> Nat]
    /\ \A c \in Conns : c \notin alive => frames[c] = 0
    /\ unheard \in [Conns -> 0..case]

ScreenInv == CaseInv /\ RoomInv /\ MemberInv /\ TabInv

(* What a tab's read, or its screen, lacks is on its way once something    *)
(* was published after its connection joined.                              *)
Coming(c) == frames[c] > 0 \/ unsaid > 0 \/ HasChange(wire)

Heard(c) == member[c] = "joined" /\ case > unheard[c]

Reading(s, t) ==
    LET c == <<s, t.gen>>
    IN  (t.link = "up" /\ c \in alive /\ ~ t.timer /\ Heard(c)) =>
            /\ (t.fetch = "served" /\ t.took # case) => Coming(c)
            /\ (t.fetch = "none" /\ ~ t.errored /\ t.shown # case /\ ~ t.behind) => Coming(c)

ReadInv == \A s \in Screens : Reading(s, tab[s])

LEMMA QuietWire ==
    ASSUME NEW W \in Seq(Pushes), Quiet(W)
    PROVE  /\ Append(W, Change) \in Seq(Pushes) /\ Quiet(Append(W, Change))
           /\ \A c \in Conns : /\ Append(W, <<"ack", c>>) \in Seq(Pushes)
                               /\ OneAck(Append(W, <<"ack", c>>), c)
           /\ W # <<>> => /\ Head(W) = Change /\ Tail(W) \in Seq(Pushes)
                          /\ Quiet(Tail(W))
<1>1. Change \in Pushes /\ \A c \in Conns : <<"ack", c>> \in Pushes
  BY DEF Pushes
<1>2. Len(W) \in Nat /\ DOMAIN W = 1..Len(W)
  BY LenProperties
<1>3. ASSUME NEW e \in Pushes
      PROVE  /\ Append(W, e) \in Seq(Pushes) /\ DOMAIN Append(W, e) = 1..(Len(W) + 1)
             /\ \A i \in 1..Len(W) : Append(W, e)[i] = W[i]
             /\ Append(W, e)[Len(W) + 1] = e
  BY <1>2, AppendProperties, LenProperties
<1>4. Append(W, Change) \in Seq(Pushes) /\ Quiet(Append(W, Change))
  BY <1>1, <1>2, <1>3 DEF Quiet
<1>5. ASSUME NEW c \in Conns
      PROVE  Append(W, <<"ack", c>>) \in Seq(Pushes) /\ OneAck(Append(W, <<"ack", c>>), c)
  <2> DEFINE e == <<"ack", c>>
  <2>1. e \in Pushes
    BY <1>1
  <2> HIDE DEF e
  <2>2. /\ Len(W) + 1 \in DOMAIN Append(W, e) /\ Append(W, e)[Len(W) + 1] = e
        /\ \A j \in DOMAIN Append(W, e) \ {Len(W) + 1} : Append(W, e)[j] = Change
    BY <1>2, <1>3, <2>1 DEF Quiet
  <2> QED BY <1>3, <2>1, <2>2 DEF OneAck, e
<1>6. ASSUME W # <<>>
      PROVE  Head(W) = Change /\ Tail(W) \in Seq(Pushes) /\ Quiet(Tail(W))
  <2>1. /\ Tail(W) \in Seq(Pushes) /\ Len(Tail(W)) = Len(W) - 1
        /\ \A i \in 1..Len(Tail(W)) : Tail(W)[i] = W[i + 1]
    BY <1>6, HeadTailProperties
  <2>2. DOMAIN Tail(W) = 1..Len(Tail(W)) /\ Head(W) = W[1] /\ Len(W) >= 1
    BY <1>2, <1>6, <2>1, LenProperties, EmptySeq
  <2> QED BY <1>2, <2>1, <2>2 DEF Quiet
<1> QED BY <1>4, <1>5, <1>6

LEMMA AckedWire ==
    ASSUME NEW W \in Seq(Pushes), NEW c \in Conns, OneAck(W, c)
    PROVE  /\ Append(W, Change) \in Seq(Pushes) /\ OneAck(Append(W, Change), c)
           /\ Tail(W) \in Seq(Pushes)
           /\ Head(W) = Change => OneAck(Tail(W), c)
           /\ Head(W) # Change => Head(W) = <<"ack", c>> /\ Quiet(Tail(W))
<1> DEFINE a == <<"ack", c>>
<1>1. Change \in Pushes /\ a # Change
  BY DEF Pushes, Change
<1> HIDE DEF a
<1>2. Len(W) \in Nat /\ DOMAIN W = 1..Len(W)
  BY LenProperties
<1>3. PICK i \in 1..Len(W) : W[i] = a /\ \A j \in (1..Len(W)) \ {i} : W[j] = Change
  BY <1>2 DEF OneAck, a
<1>4. /\ Append(W, Change) \in Seq(Pushes) /\ DOMAIN Append(W, Change) = 1..(Len(W) + 1)
      /\ \A j \in 1..Len(W) : Append(W, Change)[j] = W[j]
      /\ Append(W, Change)[Len(W) + 1] = Change
  BY <1>1, <1>2, AppendProperties, LenProperties
<1>5. OneAck(Append(W, Change), c)
  <2>1. /\ i \in DOMAIN Append(W, Change) /\ Append(W, Change)[i] = a
        /\ \A j \in DOMAIN Append(W, Change) \ {i} : Append(W, Change)[j] = Change
    BY <1>2, <1>3, <1>4
  <2> QED BY <2>1 DEF OneAck, a
<1>6. /\ Tail(W) \in Seq(Pushes) /\ Len(Tail(W)) = Len(W) - 1 /\ Head(W) = W[1]
      /\ \A j \in 1..(Len(W) - 1) : Tail(W)[j] = W[j + 1]
      /\ DOMAIN Tail(W) = 1..(Len(W) - 1)
  BY <1>2, <1>3, HeadTailProperties, LenProperties, EmptySeq
<1>7. ASSUME Head(W) = Change PROVE OneAck(Tail(W), c)
  <2>1. i # 1 /\ i - 1 \in DOMAIN Tail(W) /\ Tail(W)[i - 1] = a
    BY <1>1, <1>2, <1>3, <1>6, <1>7
  <2>2. \A j \in DOMAIN Tail(W) \ {i - 1} : Tail(W)[j] = Change
    BY <1>2, <1>3, <1>6
  <2> QED BY <2>1, <2>2 DEF OneAck, a
<1>8. ASSUME Head(W) # Change PROVE Head(W) = a /\ Quiet(Tail(W))
  <2>1. i = 1
    BY <1>2, <1>3, <1>6, <1>8
  <2> QED BY <1>2, <1>3, <1>6, <2>1 DEF Quiet
<1> QED BY <1>4, <1>5, <1>6, <1>7, <1>8 DEF a

LEMMA ChangesStay ==
    ASSUME NEW W \in Seq(Pushes)
    PROVE  /\ \A e \in Pushes : HasChange(W) => HasChange(Append(W, e))
           /\ HasChange(Append(W, Change))
           /\ (W # <<>> /\ Head(W) # Change /\ HasChange(W)) => HasChange(Tail(W))
<1>1. Change \in Pushes
  BY DEF Pushes
<1>2. Len(W) \in Nat /\ DOMAIN W = 1..Len(W)
  BY LenProperties
<1>3. ASSUME NEW e \in Pushes
      PROVE  /\ DOMAIN Append(W, e) = 1..(Len(W) + 1)
             /\ \A j \in 1..Len(W) : Append(W, e)[j] = W[j]
             /\ Append(W, e)[Len(W) + 1] = e
  BY <1>2, AppendProperties, LenProperties
<1>4. ASSUME W # <<>>, Head(W) # Change, HasChange(W) PROVE HasChange(Tail(W))
  <2>1. /\ Tail(W) \in Seq(Pushes) /\ Len(Tail(W)) = Len(W) - 1 /\ Head(W) = W[1]
        /\ \A j \in 1..(Len(W) - 1) : Tail(W)[j] = W[j + 1]
        /\ DOMAIN Tail(W) = 1..(Len(W) - 1)
    BY <1>2, <1>4, HeadTailProperties, LenProperties, EmptySeq
  <2>2. PICK i \in 1..Len(W) : W[i] = Change
    BY <1>2, <1>4 DEF HasChange
  <2>3. i - 1 \in DOMAIN Tail(W) /\ Tail(W)[i - 1] = Change
    BY <1>2, <1>4, <2>1, <2>2
  <2> QED BY <2>3 DEF HasChange
<1>5. ASSUME NEW e \in Pushes, HasChange(W) PROVE HasChange(Append(W, e))
  BY <1>2, <1>3, <1>5 DEF HasChange
<1>6. HasChange(Append(W, Change))
  <2>1. Len(W) + 1 \in DOMAIN Append(W, Change)
    BY <1>1, <1>2, <1>3
  <2> QED BY <1>1, <1>3, <2>1 DEF HasChange
<1> QED BY <1>4, <1>5, <1>6

-----------------------------------------------------------------------------
(* Steps that leave the room alone, and how a step of the room leaves the  *)
(* tabs alone.                                                             *)
LEMMA TypeGrows ==
    ASSUME NEW m \in Nat, NEW n \in Nat, m <= n
    PROVE  TabType(m) \subseteq TabType(n)
BY DEF TabType

(* A room that hears is subscribed.                                        *)
LEMMA JoinedHears ==
    ASSUME ScreenInv, NEW c \in Conns, member[c] = "joined"
    PROVE  Hearing /\ promise \in listeners /\ promise # None
BY DEF ScreenInv, MemberInv, RoomInv, Silent, Asking, CaseInv

(* What the tabs know of their connections stays when no connection is     *)
(* made or breaks.                                                         *)
LEMMA TabsStay ==
    ASSUME ScreenInv, UNCHANGED <<case, alive, tab>>,
           \A c \in Conns : member'[c] = "none" <=> member[c] = "none"
    PROVE  TabInv'
<1>1. ASSUME NEW s \in Screens PROVE LinkOK(s, tab[s])'
  <2>1. \A n \in 1..(MaxDrops + 1) : <<s, n>> \in Conns
    BY DEF Conns
  <2> QED BY <2>1 DEF ScreenInv, TabInv, LinkOK
<1> QED BY <1>1 DEF ScreenInv, TabInv, WatchOK

LEMMA ReadsStay ==
    ASSUME ScreenInv, ReadInv, UNCHANGED <<case, tab>>, alive' \subseteq alive,
           \A c \in alive' : Heard(c)' => Heard(c) \/ Coming(c)',
           \A c \in alive' : (Heard(c) /\ Coming(c) /\ Heard(c)') => Coming(c)'
    PROVE  ReadInv'
BY DEF ReadInv, Reading

-----------------------------------------------------------------------------
(* Writes, and the two ends of Redis.                                      *)
LEMMA WriteKeeps ==
    ASSUME ScreenInv, ReadInv, Write
    PROVE  ScreenInv' /\ ReadInv'
<1>1. /\ case \in 0..MaxWrites /\ unsaid \in 0..case /\ MaxWrites \in Nat
      /\ case' = case + 1 /\ unsaid' = unsaid + 1 /\ case' \in 0..MaxWrites
      /\ unsaid' \in 0..case' /\ UNCHANGED <<serverVars, alive, frames, tab, unheard>>
  BY BoundsAssumption DEF Write, ScreenInv, CaseInv
<1>2. CaseInv'
  <2>1. case \in Nat /\ 0..case \subseteq 0..case' /\ unheard \in [Conns -> 0..case]
    BY <1>1 DEF ScreenInv, CaseInv
  <2>2. unheard' \in [Conns -> 0..case']
    BY <1>1, <2>1
  <2> QED BY <1>1, <2>2 DEF ScreenInv, CaseInv, serverVars
<1>3. RoomInv'
  BY <1>1 DEF ScreenInv, RoomInv, Silent, Asking, Hearing, serverVars
<1>4. MemberInv'
  BY <1>1 DEF ScreenInv, MemberInv, serverVars
<1>5. TabInv'
  <2>1. TabType(case) \subseteq TabType(case')
    BY <1>1, TypeGrows
  <2>2. tab' = tab /\ tab \in [Screens -> TabType(case')]
    BY <1>1, <2>1 DEF ScreenInv, TabInv
  <2>3. \A s \in Screens : LinkOK(s, tab[s])' /\ WatchOK(tab[s])'
    BY <1>1 DEF ScreenInv, TabInv, LinkOK, WatchOK, serverVars
  <2> QED BY <2>2, <2>3 DEF TabInv
<1>6. ReadInv'
  <2>1. \A c \in Conns : Coming(c)'
    BY <1>1 DEF Coming
  <2>2. \A s \in Screens : <<s, tab[s].gen>> \in Conns
    BY DEF ScreenInv, TabInv, TabType, Conns
  <2> QED BY <1>1, <2>1, <2>2 DEF ReadInv, Reading, serverVars
<1> QED BY <1>2, <1>3, <1>4, <1>5, <1>6 DEF ScreenInv

LEMMA ConnsOfTabs ==
    ASSUME ScreenInv, NEW s \in Screens
    PROVE  /\ ConnOf(s) = <<s, tab[s].gen>> /\ ConnOf(s) \in Conns
           /\ tab[s] \in TabType(case) /\ LinkOK(s, tab[s]) /\ WatchOK(tab[s])
BY DEF ScreenInv, TabInv, TabType, Conns, ConnOf

LEMMA AnnounceKeeps ==
    ASSUME ScreenInv, ReadInv, Announce
    PROVE  ScreenInv' /\ ReadInv'
<1>1. /\ UNCHANGED <<case, redis, cmds, room, promise, acked, listeners, leaving,
                     member, waits, closed, alive, frames, tab, unheard>>
      /\ unsaid > 0 /\ unsaid' = unsaid - 1
      /\ wire' = IF redis THEN Append(wire, Change) ELSE wire
  BY DEF Announce, Announced
<1>2. CaseInv' /\ MemberInv'
  BY <1>1 DEF ScreenInv, CaseInv, MemberInv
<1>3. RoomInv'
  <2>1. wire \in Seq(Pushes)
    BY DEF ScreenInv, RoomInv
  <2>2. wire' \in Seq(Pushes) /\ (Quiet(wire) => Quiet(wire'))
    BY <1>1, <2>1, ChangesStay, QuietWire, AppendProperties DEF Pushes
  <2>3. promise \in Conns /\ OneAck(wire, promise) => OneAck(wire', promise)
    BY <1>1, <2>1, AckedWire
  <2>4. promise \in Conns \cup {None}
    BY DEF ScreenInv, CaseInv
  <2>5. CASE Silent
    BY <1>1, <2>2, <2>5 DEF ScreenInv, RoomInv, Silent
  <2>6. CASE Asking
    BY <1>1, <2>2, <2>3, <2>4, <2>6 DEF ScreenInv, RoomInv, Asking
  <2>7. CASE Hearing
    BY <1>1, <2>2, <2>7 DEF ScreenInv, RoomInv, Hearing
  <2> QED BY <2>5, <2>6, <2>7 DEF ScreenInv, RoomInv
<1>4. TabInv'
  BY <1>1, TabsStay
<1>5. ReadInv'
  <2>1. ASSUME NEW c \in alive', member[c] = "joined", Coming(c) PROVE Coming(c)'
    <3>1. c \in Conns
      BY <1>1, <2>1 DEF ScreenInv, CaseInv
    <3>2. redis
      BY <2>1, <3>1, JoinedHears DEF Hearing
    <3>3. wire \in Seq(Pushes) /\ wire' = Append(wire, Change)
      BY <1>1, <3>2 DEF ScreenInv, RoomInv
    <3> QED BY <3>3, ChangesStay DEF Coming
  <2> QED BY <1>1, <2>1, ReadsStay DEF Heard
<1> QED BY <1>2, <1>3, <1>4, <1>5 DEF ScreenInv

LEMMA AnnounceFailsKeeps ==
    ASSUME ScreenInv, ReadInv, AnnounceFails
    PROVE  ScreenInv' /\ ReadInv'
<1>1. /\ UNCHANGED <<case, wire, redis, cmds, room, promise, acked, listeners, leaving,
                     member, waits, closed, alive, frames, tab>>
      /\ unsaid > 0 /\ unsaid' = unsaid - 1
      /\ unheard' = [c \in Conns |-> case - unsaid']
  BY DEF AnnounceFails, Announced
<1>2. CaseInv' /\ MemberInv'
  BY <1>1 DEF ScreenInv, CaseInv, MemberInv
<1>3. RoomInv'
  BY <1>1 DEF ScreenInv, RoomInv, Silent, Asking, Hearing
<1>4. TabInv'
  BY <1>1, TabsStay
<1>5. ReadInv'
  <2>1. ASSUME NEW c \in alive', Heard(c)' PROVE Coming(c)'
    <3>1. c \in Conns /\ case \in Nat /\ unsaid \in Nat
      BY <1>1 DEF ScreenInv, CaseInv
    <3> QED BY <1>1, <2>1, <3>1 DEF Heard, Coming
  <2> QED BY <1>1, <2>1, ReadsStay
<1> QED BY <1>2, <1>3, <1>4, <1>5 DEF ScreenInv

LEMMA RedisKeeps ==
    ASSUME ScreenInv, ReadInv, RedisDoes
    PROVE  ScreenInv' /\ ReadInv'
<1>1. /\ UNCHANGED <<case, unsaid, unheard, room, promise, acked, listeners, leaving, member,
                     waits, closed, alive, frames, tab>>
      /\ cmds # <<>> /\ cmds' = Tail(cmds) /\ redis' = (Head(cmds)[1] = "subscribe")
      /\ wire' = IF redis' THEN Append(wire, <<"ack", Head(cmds)[2]>>) ELSE wire
  BY DEF RedisDoes
<1>2. CaseInv' /\ MemberInv'
  BY <1>1 DEF ScreenInv, CaseInv, MemberInv
<1>3. wire \in Seq(Pushes) /\ promise \in Conns \cup {None}
  BY DEF ScreenInv, RoomInv, CaseInv
<1>4. RoomInv' /\ (HasChange(wire) => HasChange(wire'))
  <2>1. ASSUME NEW u \in Unsubscribes, Head(cmds) = u PROVE ~redis' /\ wire' = wire
    <3>1. u[1] = "unsubscribe"
      BY DEF Unsubscribes
    <3>2. redis' = FALSE
      BY <1>1, <2>1, <3>1
    <3> QED BY <1>1, <3>2
  <2>2. CASE Silent
    <3>1. PICK u \in Unsubscribes : cmds = <<u>>
      BY <1>1, <2>2 DEF Silent
    <3>2. Head(cmds) = u /\ cmds' = <<>>
      BY <1>1, <3>1
    <3> QED BY <1>1, <2>1, <2>2, <3>2 DEF ScreenInv, RoomInv, Silent
  <2>3. CASE Asking /\ cmds = <<<<"subscribe", promise>>>>
    <3>1. /\ promise \in Conns /\ acked = {} /\ Quiet(wire)
          /\ listeners = {} /\ promise # None
      BY <1>1, <1>3, <2>3 DEF Asking
    <3>2. Head(cmds) = <<"subscribe", promise>> /\ cmds' = <<>>
      BY <1>1, <2>3
    <3>3. redis' /\ wire' = Append(wire, <<"ack", promise>>)
      <4>1. Head(cmds)[1] = "subscribe" /\ Head(cmds)[2] = promise
        BY <3>2
      <4>2. redis' = TRUE
        BY <1>1, <4>1
      <4> QED BY <1>1, <4>1, <4>2
    <3>4. wire' \in Seq(Pushes) /\ OneAck(wire', promise)
      BY <1>3, <3>1, <3>3, QuietWire
    <3>5. Asking'
      BY <1>1, <3>1, <3>2, <3>3, <3>4 DEF Asking
    <3>6. HasChange(wire) => HasChange(wire')
      BY <1>3, <3>1, <3>3, ChangesStay DEF Pushes
    <3> QED BY <1>1, <3>4, <3>5, <3>6 DEF ScreenInv, RoomInv
  <2>4. ASSUME Asking, NEW u \in Unsubscribes, cmds = <<u, <<"subscribe", promise>>>>
        PROVE  RoomInv' /\ wire' = wire
    <3>1. acked = {} /\ Quiet(wire) /\ listeners = {} /\ promise # None
      BY <2>4 DEF Asking
    <3>2. Head(cmds) = u /\ cmds' = <<<<"subscribe", promise>>>>
      BY <1>1, <2>4
    <3>3. wire' = wire
      BY <2>1, <3>2
    <3>4. Asking'
      BY <1>1, <3>1, <3>2, <3>3 DEF Asking
    <3> QED BY <1>1, <3>3, <3>4 DEF ScreenInv, RoomInv
  <2>5. Silent \/ (Asking /\ cmds = <<<<"subscribe", promise>>>>)
        \/ \E u \in Unsubscribes : Asking /\ cmds = <<u, <<"subscribe", promise>>>>
    BY <1>1 DEF ScreenInv, RoomInv, Asking, Hearing
  <2>6. Silent => wire' = wire
    BY <1>1, <2>1 DEF Silent
  <2> QED BY <2>2, <2>3, <2>4, <2>5, <2>6
<1>5. TabInv'
  BY <1>1, TabsStay
<1>6. ReadInv'
  BY <1>1, <1>4, ReadsStay DEF Coming, Heard
<1> QED BY <1>2, <1>4, <1>5, <1>6 DEF ScreenInv

LEMMA ArrivesKeeps ==
    ASSUME ScreenInv, ReadInv, Arrives
    PROVE  ScreenInv' /\ ReadInv'
<1>1. /\ UNCHANGED <<case, unsaid, unheard, redis, cmds, room, promise, listeners, leaving,
                     member, waits, closed, alive, tab>>
      /\ wire # <<>> /\ wire' = Tail(wire)
  BY DEF Arrives
<1>2. wire \in Seq(Pushes) /\ promise \in Conns \cup {None} /\ Cardinality(listeners) \in Nat
  BY FS_CardinalityType DEF ScreenInv, RoomInv, CaseInv
<1>3. CASE Head(wire) = Change
  <2>1. /\ acked' = acked
        /\ frames' = [c \in Conns |-> IF c \in room \cap alive
                                      THEN frames[c] + Cardinality(listeners)
                                      ELSE frames[c]]
    BY <1>3 DEF Arrives
  <2>2. CaseInv' /\ MemberInv'
    BY <1>1, <1>2, <2>1 DEF ScreenInv, CaseInv, MemberInv
  <2>3. RoomInv'
    <3>1. Tail(wire) \in Seq(Pushes)
      BY <1>1, <1>2, HeadTailProperties
    <3>2. Quiet(wire) => Quiet(wire')
      BY <1>1, <1>2, QuietWire
    <3>3. promise \in Conns /\ OneAck(wire, promise) => OneAck(wire', promise)
      BY <1>1, <1>2, <1>3, AckedWire
    <3>4. CASE Silent
      BY <1>1, <2>1, <3>1, <3>2, <3>4 DEF ScreenInv, RoomInv, Silent
    <3>5. CASE Asking
      BY <1>1, <1>2, <2>1, <3>1, <3>2, <3>3, <3>5 DEF ScreenInv, RoomInv, Asking
    <3>6. CASE Hearing
      BY <1>1, <2>1, <3>1, <3>2, <3>6 DEF ScreenInv, RoomInv, Hearing
    <3> QED BY <3>4, <3>5, <3>6 DEF ScreenInv, RoomInv
  <2>4. TabInv'
    BY <1>1, TabsStay
  <2>5. ASSUME NEW c \in alive', member[c] = "joined" PROVE Coming(c)'
    <3>1. c \in Conns /\ c \in room \cap alive
      BY <1>1, <2>5 DEF ScreenInv, CaseInv, MemberInv
    <3>2. listeners # {} /\ IsFiniteSet(listeners)
      BY <2>5, <3>1, JoinedHears DEF ScreenInv, RoomInv
    <3>3. Cardinality(listeners) > 0
      BY <1>2, <3>2, FS_EmptySet
    <3>4. frames'[c] > 0
      BY <1>2, <2>1, <3>1, <3>3 DEF ScreenInv, CaseInv
    <3> QED BY <3>4 DEF Coming
  <2>6. ReadInv'
    BY <1>1, <2>5, ReadsStay DEF Heard
  <2> QED BY <2>2, <2>3, <2>4, <2>6 DEF ScreenInv
<1>4. CASE Head(wire) # Change
  <2>1. frames' = frames /\ acked' = acked \cup {Head(wire)[2]}
    BY <1>4 DEF Arrives
  <2>2. CaseInv' /\ MemberInv'
    BY <1>1, <2>1 DEF ScreenInv, CaseInv, MemberInv
  <2>3. ~Quiet(wire)
    BY <1>1, <1>2, <1>4, QuietWire
  <2>4. /\ Asking /\ cmds = <<>> /\ redis /\ acked = {} /\ OneAck(wire, promise)
        /\ promise # None /\ listeners = {}
    BY <2>3 DEF ScreenInv, RoomInv, Silent, Hearing, Asking
  <2>5. Head(wire) = <<"ack", promise>> /\ Quiet(wire') /\ wire' \in Seq(Pushes)
    BY <1>1, <1>2, <1>4, <2>4, AckedWire
  <2>6. acked' = {promise}
    BY <2>1, <2>4, <2>5
  <2>7. RoomInv'
    BY <1>1, <2>4, <2>5, <2>6 DEF ScreenInv, RoomInv, Asking
  <2>8. TabInv'
    BY <1>1, TabsStay
  <2>9. ReadInv'
    BY <1>1, <1>2, <1>4, <2>1, ReadsStay, ChangesStay DEF Coming, Heard
  <2> QED BY <2>2, <2>7, <2>8, <2>9 DEF ScreenInv
<1> QED BY <1>3, <1>4

-----------------------------------------------------------------------------
(* Connections come and go.                                                *)

(* A connection that is not new, nor breaking, changes its own membership. *)
LEMMA MemberStep ==
    ASSUME ScreenInv, ReadInv, NEW c \in Conns, NEW m \in {"joined", "left"},
           member[c] \in {"joining", "joined"}, m = "left" => c \notin alive,
           member' = [member EXCEPT ![c] = m],
           UNCHANGED <<case, unsaid, wire, alive, frames, tab>>,
           m = "left" => unheard' = unheard,
           m = "joined" => unheard' = [unheard EXCEPT ![c] = case - unsaid]
    PROVE  /\ TabInv' /\ ReadInv'
           /\ member' \in [Conns -> {"none", "joining", "joined", "left"}]
<1>1. \A d \in Conns : d # c => member'[d] = member[d]
  BY DEF ScreenInv, CaseInv
<1>2. member'[c] = m
  BY DEF ScreenInv, CaseInv
<1>3. TabInv'
  <2>1. \A d \in Conns : member'[d] = "none" <=> member[d] = "none"
    BY <1>1, <1>2
  <2> QED BY <2>1, TabsStay
<1>4. ReadInv'
  <2> SUFFICES ASSUME NEW d \in alive', Heard(d)' PROVE Heard(d) \/ Coming(d)'
    BY ReadsStay DEF Coming
  <2>1. d \in Conns /\ case \in Nat /\ unsaid \in Nat /\ unheard \in [Conns -> 0..case]
    BY DEF ScreenInv, CaseInv
  <2>2. CASE d = c
    <3>1. m = "joined" /\ d \in alive
      BY <1>2, <2>2 DEF Heard
    <3>2. case > case - unsaid
      BY <2>1, <2>2, <3>1 DEF Heard
    <3> QED BY <2>1, <3>2 DEF Coming
  <2>3. CASE d # c
    BY <1>1, <2>1, <2>3 DEF Heard
  <2> QED BY <2>2, <2>3
<1> QED BY <1>3, <1>4 DEF ScreenInv, CaseInv

LEMMA TwoCommands ==
    ASSUME NEW u, NEW x
    PROVE  Append(<<u>>, x) = <<u, x>>
<1>1. <<u>> \in Seq({u, x}) /\ <<u, x>> \in Seq({u, x}) /\ Len(<<u>>) = 1 /\ Len(<<u, x>>) = 2
  OBVIOUS
<1>2. /\ Append(<<u>>, x) \in Seq({u, x}) /\ Len(Append(<<u>>, x)) = 2
      /\ Append(<<u>>, x)[1] = u /\ Append(<<u>>, x)[2] = x
  BY <1>1, AppendProperties
<1> DEFINE v == Append(<<u>>, x)  w == <<u, x>>
<1>3. v \in Seq({u, x}) /\ w \in Seq({u, x}) /\ Len(v) = 2 /\ Len(w) = 2 /\ v[1] = w[1] /\ v[2] = w[2]
  BY <1>1, <1>2
<1> HIDE DEF v, w
<1>4. v = w
  BY <1>3, SeqEqual
<1> QED BY <1>4 DEF v, w

LEMMA AcceptKeeps ==
    ASSUME ScreenInv, ReadInv, NEW s \in Screens, Accept(s)
    PROVE  ScreenInv' /\ ReadInv'
<1> DEFINE c == ConnOf(s)
<1>1. /\ UNCHANGED <<case, unsaid, unheard, redis, wire, acked, leaving, closed, frames, tab>>
      /\ tab[s].link = "connecting" /\ member[c] = "none" /\ c \in Conns
      /\ c = <<s, tab[s].gen>>
      /\ member' = [member EXCEPT ![c] = "joining"]
      /\ alive' = alive \cup {c} /\ Join(c)
  BY ConnsOfTabs DEF Accept
<1> HIDE DEF c
<1>2. /\ room' = room \cup {c} /\ c \notin room /\ c \notin listeners /\ c # None
      /\ waits' = [waits EXCEPT ![c] = IF promise = None THEN c ELSE promise]
  BY <1>1, NoneAssumption DEF Join, ScreenInv, MemberInv, RoomInv
<1>3. /\ \A d \in Conns : d # c => member'[d] = member[d] /\ waits'[d] = waits[d]
      /\ member'[c] = "joining" /\ waits'[c] = (IF promise = None THEN c ELSE promise)
      /\ member' \in [Conns -> {"none", "joining", "joined", "left"}]
      /\ waits' \in [Conns -> Conns \cup {None}]
      /\ promise \in Conns \cup {None} /\ (promise = None <=> room = {})
  BY <1>1, <1>2 DEF ScreenInv, CaseInv, MemberInv
<1>a. c \notin closed
  BY <1>1 DEF ScreenInv, MemberInv, CaseInv
<1>4. ASSUME promise # None PROVE CaseInv' /\ RoomInv' /\ MemberInv'
  <2>1. UNCHANGED <<promise, listeners, cmds>>
    BY <1>1, <1>4 DEF Join
  <2>2. CaseInv'
    BY <1>1, <1>2, <1>3, <1>4, <2>1 DEF ScreenInv, CaseInv
  <2>3. RoomInv'
    BY <1>1, <1>3, <2>1 DEF ScreenInv, RoomInv, Silent, Asking, Hearing
  <2>4. MemberInv'
    BY <1>1, <1>2, <1>3, <1>4, <1>a, <2>1 DEF ScreenInv, MemberInv
  <2> QED BY <2>2, <2>3, <2>4
<1>5. ASSUME promise = None, listeners # {} PROVE CaseInv' /\ RoomInv' /\ MemberInv'
  <2>1. promise' = c /\ listeners' = listeners \cup {c} /\ UNCHANGED cmds
    BY <1>1, <1>5 DEF Join
  <2>2. /\ Hearing /\ leaving = listeners \ {None} /\ room = {}
        /\ listeners \subseteq Conns /\ IsFiniteSet(listeners)
    BY <1>3, <1>5 DEF ScreenInv, RoomInv, Silent, Asking
  <2>3. CaseInv'
    BY <1>1, <1>2, <1>3, <1>5, <2>1 DEF ScreenInv, CaseInv
  <2>4. RoomInv'
    <3>1. leaving' = listeners' \ {promise'}
      BY <1>1, <1>2, <2>1, <2>2, NoneAssumption
    <3>2. IsFiniteSet(listeners')
      BY <2>1, <2>2, FS_AddElement
    <3>3. listeners' \subseteq {d \in Conns : member'[d] # "none"}
      BY <1>1, <1>3, <2>1 DEF ScreenInv, RoomInv
    <3>4. Hearing'
      BY <1>1, <2>1, <2>2 DEF Hearing
    <3> QED BY <1>1, <3>1, <3>2, <3>3, <3>4 DEF ScreenInv, RoomInv
  <2>5. MemberInv'
    BY <1>1, <1>2, <1>3, <1>5, <1>a, <2>1, <2>2 DEF ScreenInv, MemberInv
  <2> QED BY <2>3, <2>4, <2>5
<1>6. ASSUME promise = None, listeners = {} PROVE CaseInv' /\ RoomInv' /\ MemberInv'
  <2>1. promise' = c /\ cmds' = Append(cmds, <<"subscribe", c>>) /\ UNCHANGED listeners
    BY <1>1, <1>6 DEF Join
  <2>2. /\ Silent /\ leaving = {} /\ room = {}
    BY <1>3, <1>6 DEF ScreenInv, RoomInv, Asking, Hearing
  <2>3. CaseInv'
    BY <1>1, <1>2, <1>3, <1>6, <2>1 DEF ScreenInv, CaseInv
  <2>4. RoomInv'
    <3>1. cmds = <<>> => cmds' = <<<<"subscribe", promise'>>>>
      BY <2>1
    <3>2. \A u \in Unsubscribes : cmds = <<u>> => cmds' = <<u, <<"subscribe", promise'>>>>
      BY <2>1, TwoCommands
    <3>3. Asking'
      BY <1>1, <1>2, <1>6, <2>1, <2>2, <3>1, <3>2 DEF Silent, Asking
    <3> QED BY <1>1, <1>6, <2>1, <2>2, <3>3, FS_EmptySet DEF ScreenInv, RoomInv
  <2>5. MemberInv'
    BY <1>1, <1>2, <1>3, <1>6, <1>a, <2>1, <2>2 DEF ScreenInv, MemberInv
  <2> QED BY <2>3, <2>4, <2>5
<1>7. CaseInv' /\ RoomInv' /\ MemberInv'
  BY <1>3, <1>4, <1>5, <1>6
<1>8. TabInv'
  <2>1. ASSUME NEW r \in Screens PROVE LinkOK(r, tab[r])'
    <3>1. LinkOK(r, tab[r]) /\ <<r, tab[r].gen>> \in Conns
      BY ConnsOfTabs
    <3>2. tab[r].link = "down" => <<r, tab[r].gen>> # c
      BY <1>1
    <3>3. \A n \in 1..(MaxDrops + 1) : <<r, n>> \in Conns
      BY DEF Conns
    <3> QED BY <1>1, <1>3, <3>1, <3>2, <3>3 DEF LinkOK
  <2> QED BY <1>1, <2>1 DEF ScreenInv, TabInv, WatchOK
<1>9. ReadInv'
  <2> SUFFICES ASSUME NEW r \in Screens PROVE Reading(r, tab[r])'
    BY DEF ReadInv
  <2>1. <<r, tab[r].gen>> \in Conns /\ Reading(r, tab[r])
    BY ConnsOfTabs DEF ReadInv
  <2>2. CASE r = s
    BY <1>1, <2>2 DEF Reading
  <2>3. CASE r # s
    <3>1. <<r, tab[r].gen>> # c
      BY <1>1, <2>3
    <3> QED BY <1>1, <1>3, <2>1, <3>1 DEF Reading, Coming, Heard
  <2> QED BY <2>2, <2>3
<1> QED BY <1>7, <1>8, <1>9 DEF ScreenInv

LEMMA AttachKeeps ==
    ASSUME ScreenInv, ReadInv, NEW c \in Conns, Attach(c)
    PROVE  ScreenInv' /\ ReadInv'
<1>1. /\ UNCHANGED <<case, unsaid, unheard, redis, cmds, wire, room, promise, leaving, member,
                     waits, closed, alive, frames, tab>>
      /\ c \in acked /\ acked' = acked \ {c} /\ listeners' = {c}
  BY DEF Attach
<1>2. /\ Asking /\ cmds = <<>> /\ redis /\ acked = {promise} /\ Quiet(wire)
      /\ listeners = {} /\ c = promise
  BY <1>1 DEF ScreenInv, RoomInv, Silent, Asking, Hearing
<1>3. CaseInv'
  BY <1>1 DEF ScreenInv, CaseInv
<1>4. MemberInv'
  BY <1>1, <1>2 DEF ScreenInv, MemberInv
<1>5. RoomInv'
  <2>1. IsFiniteSet({c})
    BY FS_Singleton
  <2>2. Hearing'
    BY <1>1, <1>2 DEF Hearing
  <2>3. member[c] # "none"
    BY <1>2 DEF ScreenInv, MemberInv, Asking
  <2> QED BY <1>1, <1>2, <2>1, <2>2, <2>3 DEF ScreenInv, RoomInv
<1>6. TabInv'
  BY <1>1, TabsStay
<1>7. ReadInv'
  BY <1>1, ReadsStay DEF Coming, Heard
<1> QED BY <1>3, <1>4, <1>5, <1>6, <1>7 DEF ScreenInv

LEMMA JoinedKeeps ==
    ASSUME ScreenInv, ReadInv, NEW c \in Conns, Joined(c)
    PROVE  ScreenInv' /\ ReadInv'
<1>1. /\ UNCHANGED <<case, unsaid, redis, cmds, wire, room, promise, acked, listeners,
                     leaving, waits, closed, alive, frames, tab>>
      /\ unheard' = [unheard EXCEPT ![c] = case - unsaid]
      /\ member[c] = "joining" /\ waits[c] \in listeners
      /\ member' = [member EXCEPT ![c] = "joined"]
  BY DEF Joined
<1>2. c \in room /\ promise \in listeners
  BY <1>1 DEF ScreenInv, MemberInv
<1>3. /\ TabInv' /\ ReadInv'
      /\ member' \in [Conns -> {"none", "joining", "joined", "left"}]
  BY <1>1, MemberStep
<1>4. \A d \in Conns : member'[d] = IF d = c THEN "joined" ELSE member[d]
  BY <1>1 DEF ScreenInv, CaseInv
<1>5. CaseInv'
  BY <1>1, <1>3 DEF ScreenInv, CaseInv
<1>6. RoomInv'
  BY <1>1, <1>4 DEF ScreenInv, RoomInv, Silent, Asking, Hearing
<1>7. MemberInv'
  BY <1>1, <1>2, <1>4 DEF ScreenInv, MemberInv, CaseInv
<1> QED BY <1>3, <1>5, <1>6, <1>7 DEF ScreenInv

LEMMA ClosedKeeps ==
    ASSUME ScreenInv, ReadInv, NEW c \in Conns, Closed(c)
    PROVE  ScreenInv' /\ ReadInv'
<1>1. /\ UNCHANGED <<case, unsaid, unheard, redis, cmds, wire, room, promise, acked, listeners,
                     leaving, member, waits, alive, frames, tab>>
      /\ member[c] # "none" /\ c \notin alive /\ closed' = closed \cup {c}
  BY DEF Closed
<1>2. CaseInv' /\ MemberInv'
  BY <1>1 DEF ScreenInv, CaseInv, MemberInv
<1>3. RoomInv'
  BY <1>1 DEF ScreenInv, RoomInv, Silent, Asking, Hearing
<1>4. TabInv'
  BY <1>1, TabsStay
<1>5. ReadInv'
  BY <1>1, ReadsStay DEF Coming, Heard
<1> QED BY <1>2, <1>3, <1>4, <1>5 DEF ScreenInv

LEMMA LeaveKeeps ==
    ASSUME ScreenInv, ReadInv, NEW c \in Conns, Leave(c)
    PROVE  ScreenInv' /\ ReadInv'
<1>1. /\ UNCHANGED <<case, unsaid, unheard, redis, cmds, wire, acked, listeners, waits, closed,
                     alive, frames, tab>>
      /\ c \in closed /\ member[c] = "joined"
      /\ member' = [member EXCEPT ![c] = "left"] /\ room' = room \ {c}
  BY DEF Leave, MayLeave
<1>2. Hearing /\ promise \in listeners /\ promise # None /\ promise \in Conns
  BY <1>1, JoinedHears DEF ScreenInv, CaseInv
<1>3. c \in room /\ c \notin alive
  BY <1>1 DEF ScreenInv, MemberInv
<1>4. /\ TabInv' /\ ReadInv'
      /\ member' \in [Conns -> {"none", "joining", "joined", "left"}]
  BY <1>1, <1>3, MemberStep
<1>5. \A d \in Conns : member'[d] = IF d = c THEN "left" ELSE member[d]
  BY <1>1 DEF ScreenInv, CaseInv
<1>6. CASE room' = {}
  <2>1. promise' = None /\ leaving' = leaving \cup {promise}
    BY <1>2, <1>6 DEF Leave
  <2>2. CaseInv'
    BY <1>1, <1>4, <1>6, <2>1 DEF ScreenInv, CaseInv
  <2>3. RoomInv'
    <3>1. leaving' = listeners' \ {promise'}
      BY <1>1, <1>2, <2>1, NoneAssumption DEF ScreenInv, RoomInv
    <3>2. Hearing'
      BY <1>1, <1>2, <2>1 DEF Hearing
    <3> QED BY <1>1, <1>5, <3>1, <3>2 DEF ScreenInv, RoomInv
  <2>4. MemberInv'
    <3>1. ASSUME NEW d \in Conns PROVE d \notin alive /\ member'[d] \notin {"joining", "joined"}
      BY <1>1, <1>3, <1>5, <1>6, <3>1 DEF ScreenInv, MemberInv
    <3> QED BY <1>1, <1>5, <1>6, <2>1, <3>1 DEF ScreenInv, MemberInv
  <2> QED BY <1>4, <2>2, <2>3, <2>4 DEF ScreenInv
<1>7. CASE room' # {}
  <2>1. UNCHANGED <<promise, leaving>>
    BY <1>7 DEF Leave
  <2>2. CaseInv'
    BY <1>1, <1>2, <1>4, <1>7, <2>1 DEF ScreenInv, CaseInv
  <2>3. RoomInv'
    BY <1>1, <1>5, <2>1 DEF ScreenInv, RoomInv, Silent, Asking, Hearing
  <2>4. MemberInv'
    BY <1>1, <1>3, <1>5, <2>1 DEF ScreenInv, MemberInv
  <2> QED BY <1>4, <2>2, <2>3, <2>4 DEF ScreenInv
<1> QED BY <1>6, <1>7

LEMMA TeardownKeeps ==
    ASSUME ScreenInv, ReadInv, NEW c \in Conns, Teardown(c)
    PROVE  ScreenInv' /\ ReadInv'
<1>1. /\ UNCHANGED <<case, unsaid, unheard, redis, wire, room, promise, acked, member, waits,
                     closed, alive, frames, tab>>
      /\ c \in leaving /\ leaving' = leaving \ {c} /\ listeners' = listeners \ {c}
      /\ cmds' = IF listeners' = {} THEN Append(cmds, <<"unsubscribe", c>>) ELSE cmds
  BY DEF Teardown
<1>2. Hearing /\ c # promise /\ leaving = listeners \ {promise} /\ IsFiniteSet(listeners)
  BY <1>1 DEF ScreenInv, RoomInv, Silent, Asking
<1>3. CaseInv' /\ MemberInv'
  BY <1>1, <1>2 DEF ScreenInv, CaseInv, MemberInv
<1>4. RoomInv'
  <2>1. IsFiniteSet(listeners')
    BY <1>1, <1>2, FS_RemoveElement
  <2>2. CASE listeners' = {}
    <3>1. cmds' = <<<<"unsubscribe", c>>>> /\ promise = None
      BY <1>1, <1>2, <2>2 DEF Hearing
    <3>2. Silent'
      BY <1>1, <1>2, <2>2, <3>1 DEF Silent, Hearing, Unsubscribes
    <3> QED BY <1>1, <1>2, <2>1, <3>2 DEF ScreenInv, RoomInv
  <2>3. CASE listeners' # {}
    <3>1. Hearing'
      BY <1>1, <1>2, <2>3 DEF Hearing
    <3> QED BY <1>1, <1>2, <2>1, <3>1 DEF ScreenInv, RoomInv
  <2> QED BY <2>2, <2>3
<1>5. TabInv'
  BY <1>1, TabsStay
<1>6. ReadInv'
  BY <1>1, ReadsStay DEF Coming, Heard
<1> QED BY <1>3, <1>4, <1>5, <1>6 DEF ScreenInv

LEMMA BreakKeeps ==
    ASSUME ScreenInv, ReadInv, NEW s \in Screens, Break(s)
    PROVE  ScreenInv' /\ ReadInv'
<1> DEFINE c == ConnOf(s)
<1>1. /\ UNCHANGED <<case, unsaid, unheard, serverVars, tab>>
      /\ c \in alive /\ c = <<s, tab[s].gen>> /\ tab[s].gen <= MaxDrops /\ c \in Conns
      /\ alive' = alive \ {c} /\ frames' = [frames EXCEPT ![c] = 0]
  BY ConnsOfTabs DEF Break
<1> HIDE DEF c
<1>2. /\ frames' \in [Conns -> Nat] /\ frames'[c] = 0
      /\ \A d \in Conns : d # c => frames'[d] = frames[d]
  BY <1>1 DEF ScreenInv, CaseInv
<1>3. CaseInv' /\ MemberInv'
  BY <1>1, <1>2 DEF ScreenInv, CaseInv, MemberInv, serverVars
<1>4. RoomInv'
  BY <1>1 DEF ScreenInv, RoomInv, Silent, Asking, Hearing, serverVars
<1>5. TabInv'
  <2>1. ASSUME NEW r \in Screens PROVE LinkOK(r, tab[r])'
    <3>1. LinkOK(r, tab[r])
      BY ConnsOfTabs
    <3>2. \A n \in 1..(MaxDrops + 1) : <<r, n>> = c => n = tab[s].gen
      BY <1>1
    <3> QED BY <1>1, <3>1, <3>2 DEF LinkOK, serverVars
  <2> QED BY <1>1, <2>1 DEF ScreenInv, TabInv, WatchOK
<1>6. ReadInv'
  <2>1. \A d \in alive' : d \in Conns /\ d # c /\ member' = member
    BY <1>1 DEF ScreenInv, CaseInv, serverVars
  <2> QED BY <1>1, <1>2, <2>1, ReadsStay DEF Coming, Heard, serverVars
<1> QED BY <1>3, <1>4, <1>5, <1>6 DEF ScreenInv

-----------------------------------------------------------------------------
(* What a tab does by itself.                                              *)
LEMMA TabKeeps ==
    ASSUME ScreenInv, ReadInv, NEW s \in Screens, NEW n \in TabType(case), Sets(s, n),
           frames' \in [Conns -> Nat], frames'[ConnOf(s)] = 0 \/ ConnOf(s) \in alive,
           \A c \in Conns : c # ConnOf(s) => frames'[c] = frames[c],
           LinkOK(s, n), WatchOK(n), Reading(s, n)'
    PROVE  ScreenInv' /\ ReadInv'
<1>1. /\ tab' = [tab EXCEPT ![s] = n] /\ UNCHANGED <<case, unsaid, unheard, serverVars, alive>>
      /\ tab \in [Screens -> TabType(case)]
  BY DEF Sets, ScreenInv, TabInv
<1>2. tab'[s] = n /\ \A r \in Screens : r # s => tab'[r] = tab[r]
  BY <1>1
<1>3. CaseInv' /\ MemberInv'
  BY <1>1 DEF ScreenInv, CaseInv, MemberInv, serverVars
<1>4. RoomInv'
  BY <1>1 DEF ScreenInv, RoomInv, Silent, Asking, Hearing, serverVars
<1>5. TabInv'
  <2>1. tab' \in [Screens -> TabType(case')]
    BY <1>1
  <2>2. ASSUME NEW r \in Screens PROVE LinkOK(r, tab[r])' /\ WatchOK(tab[r])'
    <3>1. LinkOK(r, tab'[r]) /\ WatchOK(tab'[r])
      BY <1>2, ConnsOfTabs
    <3> QED BY <1>1, <3>1 DEF LinkOK, WatchOK, serverVars
  <2> QED BY <2>1, <2>2 DEF TabInv
<1>6. ReadInv'
  <2> SUFFICES ASSUME NEW r \in Screens PROVE Reading(r, tab[r])'
    BY DEF ReadInv
  <2>1. CASE r = s
    BY <1>2, <2>1 DEF Reading
  <2>2. CASE r # s
    <3>1. /\ ConnOf(r) \in Conns /\ ConnOf(r) = <<r, tab[r].gen>> /\ ConnOf(r) # ConnOf(s)
          /\ Reading(r, tab[r])
      BY <2>2, ConnsOfTabs DEF ReadInv
    <3> QED BY <1>1, <1>2, <2>2, <3>1 DEF Reading, Coming, Heard, serverVars
  <2> QED BY <2>1, <2>2
<1> QED BY <1>3, <1>4, <1>5, <1>6 DEF ScreenInv

LEMMA TabAlone ==
    ASSUME ScreenInv, ReadInv, NEW s \in Screens, NEW n \in TabType(case), Sets(s, n),
           UNCHANGED frames, LinkOK(s, n), WatchOK(n), Reading(s, n)
    PROVE  ScreenInv' /\ ReadInv'
<1>1. ConnOf(s) \in Conns
  BY ConnsOfTabs
<1>2. Reading(s, n)'
  BY DEF Reading, Coming, Heard, Sets, serverVars
<1> QED BY <1>1, <1>2, TabKeeps DEF ScreenInv, CaseInv

LEMMA OpenedKeeps ==
    ASSUME ScreenInv, ReadInv, NEW s \in Screens, Opened(s)
    PROVE  ScreenInv' /\ ReadInv'
<1> DEFINE t == tab[s]
           n == [t EXCEPT !.link = "up", !.down = FALSE, !.wasDown = FALSE,
                          !.catchingUp = t.dropped, !.dropped = FALSE,
                          !.timer = TRUE, !.since = case]
<1>1. t \in TabType(case) /\ LinkOK(s, t) /\ WatchOK(t) /\ case \in 0..case
  BY ConnsOfTabs DEF ScreenInv, CaseInv
<1>2. t.link = "connecting" /\ Sets(s, n) /\ UNCHANGED frames
  BY DEF Opened
<1> HIDE DEF t
<1>3. /\ n \in TabType(case) /\ n.link = "up" /\ n.down = FALSE /\ n.timer = TRUE
      /\ n.since = case /\ n.gen = t.gen /\ n.watch = t.watch /\ n.drops = t.drops
  BY <1>1 DEF TabType
<1> HIDE DEF n
<1>4. LinkOK(s, n) /\ WatchOK(n)
  BY <1>1, <1>2, <1>3 DEF LinkOK, WatchOK
<1>5. Reading(s, n)
  BY <1>3 DEF Reading
<1> QED BY <1>2, <1>3, <1>4, <1>5, TabAlone

LEMMA DroppedKeeps ==
    ASSUME ScreenInv, ReadInv, NEW s \in Screens, Dropped(s)
    PROVE  ScreenInv' /\ ReadInv'
<1> DEFINE t == tab[s]
           k == t.drops + 1
           x == t.behind /\ t.failed
           n == [t EXCEPT !.link = "down", !.down = TRUE, !.wasDown = TRUE,
                          !.drops = k, !.dropped = TRUE, !.behind = TRUE, !.failed = x]
<1>1. /\ t \in TabType(case) /\ LinkOK(s, t) /\ WatchOK(t)
      /\ ConnOf(s) = <<s, t.gen>> /\ t.gen \in 1..(MaxDrops + 1)
  BY ConnsOfTabs DEF TabType
<1>2. /\ member[ConnOf(s)] # "none" /\ ConnOf(s) \notin alive /\ Sets(s, n)
      /\ UNCHANGED frames
  BY DEF Dropped
<1> HIDE DEF t
<1>a. k \in Nat /\ k = t.drops + 1 /\ x \in BOOLEAN /\ t.drops \in Nat /\ t.watch \subseteq Int
  BY <1>1 DEF TabType
<1> HIDE DEF k, x
<1>3. /\ n \in TabType(case) /\ n.link = "down" /\ n.down = TRUE
      /\ n.gen = t.gen /\ n.watch = t.watch /\ n.drops = k
  BY <1>1, <1>a DEF TabType
<1> HIDE DEF n
<1>4. LinkOK(s, n)
  BY <1>1, <1>2, <1>3 DEF LinkOK
<1>5. WatchOK(n)
  BY <1>1, <1>3, <1>a DEF WatchOK
<1>6. Reading(s, n)
  BY <1>3 DEF Reading
<1> QED BY <1>2, <1>3, <1>4, <1>5, <1>6, TabAlone

LEMMA ReconnectKeeps ==
    ASSUME ScreenInv, ReadInv, NEW s \in Screens, Reconnect(s)
    PROVE  ScreenInv' /\ ReadInv'
<1> DEFINE t == tab[s]
           n == [t EXCEPT !.link = "connecting", !.gen = @ + 1]
<1>1. t \in TabType(case) /\ LinkOK(s, t) /\ WatchOK(t) /\ MaxDrops \in Nat
  BY ConnsOfTabs, BoundsAssumption
<1>2. t.link = "down" /\ Sets(s, n) /\ UNCHANGED frames
  BY DEF Reconnect
<1> HIDE DEF t
<1>3. t.gen + 1 \in 1..(MaxDrops + 1) /\ t.down
  BY <1>1, <1>2 DEF LinkOK, TabType
<1> DEFINE g == t.gen + 1
<1>a. g \in 1..(MaxDrops + 1) /\ n = [t EXCEPT !.link = "connecting", !.gen = g]
  BY <1>3
<1> HIDE DEF n, g
<1>4. /\ n \in TabType(case) /\ n.link = "connecting" /\ n.down = t.down
      /\ n.watch = t.watch /\ n.drops = t.drops
  BY <1>1, <1>a DEF TabType
<1>5. LinkOK(s, n) /\ WatchOK(n)
  BY <1>1, <1>3, <1>4 DEF LinkOK, WatchOK
<1>6. Reading(s, n)
  BY <1>4 DEF Reading
<1>7. Sets(s, n)
  BY <1>2
<1> QED BY <1>2, <1>4, <1>5, <1>6, <1>7, TabAlone

LEMMA ToldKeeps ==
    ASSUME ScreenInv, ReadInv, NEW s \in Screens, Told(s)
    PROVE  ScreenInv' /\ ReadInv'
<1> DEFINE t == tab[s]
<1> SUFFICES ASSUME NEW n, n = [t EXCEPT !.timer = TRUE]
             PROVE  ScreenInv' /\ ReadInv'
  OBVIOUS
<1>1. t \in TabType(case) /\ LinkOK(s, t) /\ WatchOK(t) /\ ConnOf(s) \in Conns
  BY ConnsOfTabs
<1>2. /\ Sets(s, n) /\ frames[ConnOf(s)] > 0
      /\ frames' = [frames EXCEPT ![ConnOf(s)] = @ - 1]
  BY DEF Told
<1>3. /\ n \in TabType(case) /\ n.timer = TRUE /\ n.link = t.link /\ n.down = t.down
      /\ n.gen = t.gen /\ n.watch = t.watch /\ n.drops = t.drops /\ n.fetch = t.fetch
      /\ n.took = t.took /\ n.since = t.since
  BY <1>1 DEF TabType
<1> HIDE DEF t
<1>4. LinkOK(s, n) /\ WatchOK(n)
  BY <1>1, <1>3 DEF LinkOK, WatchOK
<1>5. Reading(s, n)'
  BY <1>3 DEF Reading
<1>6. /\ frames' \in [Conns -> Nat] /\ ConnOf(s) \in alive
      /\ \A c \in Conns : c # ConnOf(s) => frames'[c] = frames[c]
  BY <1>1, <1>2 DEF ScreenInv, CaseInv
<1> QED BY <1>2, <1>3, <1>4, <1>5, <1>6, TabKeeps

LEMMA SettleKeeps ==
    ASSUME ScreenInv, ReadInv, NEW s \in Screens, Settle(s)
    PROVE  ScreenInv' /\ ReadInv'
<1> DEFINE t == tab[s]
           w == IF t.catchingUp THEN t.watch \cup {Asked(t)} ELSE t.watch
           n == [t EXCEPT !.timer = FALSE, !.fetch = "asked", !.catchingUp = FALSE,
                          !.watch = w]
<1>1. t \in TabType(case) /\ LinkOK(s, t) /\ WatchOK(t)
  BY ConnsOfTabs
<1>2. Sets(s, n) /\ UNCHANGED frames
  BY DEF Settle
<1> HIDE DEF t
<1>3. /\ w \subseteq Int /\ \A v \in w : v <= t.drops
      /\ t.down => t.drops \notin w
  BY <1>1 DEF TabType, WatchOK, Asked
<1> HIDE DEF w
<1>4. /\ n \in TabType(case) /\ n.link = t.link /\ n.down = t.down /\ n.gen = t.gen
      /\ n.watch = w /\ n.drops = t.drops /\ n.fetch = "asked"
  BY <1>1, <1>3 DEF TabType
<1> HIDE DEF n
<1>5. LinkOK(s, n) /\ WatchOK(n) /\ Reading(s, n)
  BY <1>1, <1>3, <1>4 DEF LinkOK, WatchOK, Reading
<1> QED BY <1>2, <1>4, <1>5, TabAlone

LEMMA RereadKeeps ==
    ASSUME ScreenInv, ReadInv, NEW s \in Screens, Reread(s)
    PROVE  ScreenInv' /\ ReadInv'
<1> DEFINE t == tab[s]
           w == t.watch \cup {Asked(t)}
           n == [t EXCEPT !.failed = FALSE, !.fetch = "asked", !.watch = w]
<1>1. t \in TabType(case) /\ LinkOK(s, t) /\ WatchOK(t)
  BY ConnsOfTabs
<1>2. Sets(s, n) /\ UNCHANGED frames
  BY DEF Reread
<1> HIDE DEF t
<1>3. /\ w \subseteq Int /\ \A v \in w : v <= t.drops
      /\ t.down => t.drops \notin w
  BY <1>1 DEF TabType, WatchOK, Asked
<1> HIDE DEF w
<1>4. /\ n \in TabType(case) /\ n.link = t.link /\ n.down = t.down /\ n.gen = t.gen
      /\ n.watch = w /\ n.drops = t.drops /\ n.fetch = "asked"
  BY <1>1, <1>3 DEF TabType
<1> HIDE DEF n
<1>5. LinkOK(s, n) /\ WatchOK(n) /\ Reading(s, n)
  BY <1>1, <1>3, <1>4 DEF LinkOK, WatchOK, Reading
<1> QED BY <1>2, <1>4, <1>5, TabAlone

LEMMA ServedKeeps ==
    ASSUME ScreenInv, ReadInv, NEW s \in Screens, Served(s)
    PROVE  ScreenInv' /\ ReadInv'
<1> DEFINE t == tab[s]
           n == [t EXCEPT !.fetch = "served", !.took = case]
<1>1. /\ t \in TabType(case) /\ LinkOK(s, t) /\ WatchOK(t) /\ case \in 0..case
      /\ ConnOf(s) = <<s, t.gen>>
  BY ConnsOfTabs DEF ScreenInv, CaseInv
<1>2. /\ Sets(s, n) /\ UNCHANGED frames
  BY DEF Served
<1> HIDE DEF t
<1>3. /\ n \in TabType(case) /\ n.link = t.link /\ n.down = t.down /\ n.gen = t.gen
      /\ n.watch = t.watch /\ n.drops = t.drops /\ n.fetch = "served" /\ n.took = case
      /\ n.since = t.since /\ t.since \in 0..case
  BY <1>1 DEF TabType
<1> HIDE DEF n
<1>4. LinkOK(s, n) /\ WatchOK(n)
  BY <1>1, <1>3 DEF LinkOK, WatchOK
<1>5. Reading(s, n)
  BY <1>1, <1>2, <1>3 DEF Reading
<1> QED BY <1>2, <1>3, <1>4, <1>5, TabAlone

LEMMA LandsKeeps ==
    ASSUME ScreenInv, ReadInv, NEW s \in Screens, Lands(s)
    PROVE  ScreenInv' /\ ReadInv'
<1> DEFINE t == tab[s]
           b == t.behind /\ ~ Latest(t)
           x == t.failed /\ ~ Latest(t)
           n == [t EXCEPT !.fetch = "none", !.shown = t.took, !.took = 0,
                          !.errored = FALSE, !.watch = {}, !.behind = b, !.failed = x]
<1>1. /\ t \in TabType(case) /\ LinkOK(s, t) /\ WatchOK(t) /\ 0 \in 0..case
      /\ Reading(s, t)
  BY ConnsOfTabs DEF ScreenInv, CaseInv, ReadInv
<1>2. Sets(s, n) /\ UNCHANGED frames /\ t.fetch = "served"
  BY DEF Lands
<1> HIDE DEF t
<1>3. b \in BOOLEAN /\ x \in BOOLEAN
  OBVIOUS
<1> HIDE DEF b, x
<1>4. /\ n \in TabType(case) /\ n.link = t.link /\ n.down = t.down /\ n.gen = t.gen
      /\ n.watch = {} /\ n.fetch = "none" /\ n.shown = t.took /\ n.timer = t.timer
  BY <1>1, <1>3 DEF TabType
<1> HIDE DEF n
<1>5. LinkOK(s, n) /\ WatchOK(n)
  BY <1>1, <1>4 DEF LinkOK, WatchOK
<1>6. Reading(s, n)
  BY <1>1, <1>2, <1>4 DEF Reading
<1> QED BY <1>2, <1>4, <1>5, <1>6, TabAlone

LEMMA FailsKeeps ==
    ASSUME ScreenInv, ReadInv, NEW s \in Screens, Fails(s)
    PROVE  ScreenInv' /\ ReadInv'
<1> DEFINE t == tab[s]
           b == t.behind \/ Latest(t)
           x == t.failed \/ Latest(t)
           k == t.fails + 1
           n == [t EXCEPT !.fetch = "none", !.took = 0, !.errored = TRUE, !.watch = {},
                          !.fails = k, !.behind = b, !.failed = x]
<1>1. t \in TabType(case) /\ LinkOK(s, t) /\ WatchOK(t) /\ 0 \in 0..case
  BY ConnsOfTabs DEF ScreenInv, CaseInv
<1>2. Sets(s, n) /\ UNCHANGED frames
  BY DEF Fails
<1> HIDE DEF t
<1>3. b \in BOOLEAN /\ x \in BOOLEAN /\ k \in Nat
  <2>1. t.behind \in BOOLEAN /\ t.failed \in BOOLEAN /\ t.fails \in Nat
    BY <1>1 DEF TabType
  <2> QED BY <2>1
<1> HIDE DEF b, x, k
<1>4. /\ n \in TabType(case) /\ n.link = t.link /\ n.down = t.down /\ n.gen = t.gen
      /\ n.watch = {} /\ n.fetch = "none" /\ n.errored = TRUE
  BY <1>1, <1>3 DEF TabType
<1> HIDE DEF n
<1>5. LinkOK(s, n) /\ WatchOK(n) /\ Reading(s, n)
  BY <1>1, <1>4 DEF LinkOK, WatchOK, Reading
<1> QED BY <1>2, <1>4, <1>5, TabAlone

-----------------------------------------------------------------------------
LEMMA ScreensStart ==
    ASSUME Init
    PROVE  ScreenInv /\ ReadInv
<1>1. CaseInv
  BY BoundsAssumption DEF Init, CaseInv
<1>2. RoomInv
  <2>1. <<>> \in Seq(Pushes) /\ Quiet(<<>>)
    BY EmptySeq DEF Quiet
  <2>2. Silent
    BY <2>1 DEF Init, Silent
  <2> QED BY <2>1, <2>2, FS_EmptySet DEF Init, RoomInv
<1>3. MemberInv
  BY DEF Init, MemberInv
<1>4. TabInv
  <2>1. NewTab \in TabType(case)
    BY BoundsAssumption DEF Init, NewTab, TabType
  <2>2. \A s \in Screens : \A n \in 1..(MaxDrops + 1) : member[<<s, n>>] = "none"
    BY DEF Init, Conns
  <2>3. ASSUME NEW s \in Screens PROVE LinkOK(s, NewTab) /\ WatchOK(NewTab)
    BY <2>2 DEF NewTab, LinkOK, WatchOK
  <2> QED BY <2>1, <2>3 DEF Init, TabInv
<1>5. ReadInv
  BY DEF Init, ReadInv, Reading, NewTab
<1> QED BY <1>1, <1>2, <1>3, <1>4, <1>5 DEF ScreenInv

LEMMA ScreensStep ==
    ASSUME ScreenInv, ReadInv, [Next]_vars
    PROVE  ScreenInv' /\ ReadInv'
<1>1. ASSUME NEW c \in Conns, Server(c) PROVE ScreenInv' /\ ReadInv'
  BY <1>1, AttachKeeps, JoinedKeeps, ClosedKeeps, LeaveKeeps, TeardownKeeps DEF Server
<1>2. ASSUME NEW s \in Screens, Tab(s) \/ Break(s) \/ Fails(s) \/ Reread(s)
      PROVE  ScreenInv' /\ ReadInv'
  BY <1>2, AcceptKeeps, OpenedKeeps, DroppedKeeps, ReconnectKeeps, ToldKeeps, SettleKeeps,
     ServedKeeps, LandsKeeps, BreakKeeps, FailsKeeps, RereadKeeps DEF Tab
<1>3. CASE UNCHANGED vars
  <2>1. CaseInv' /\ MemberInv'
    BY <1>3 DEF ScreenInv, CaseInv, MemberInv, vars
  <2>2. RoomInv'
    BY <1>3 DEF ScreenInv, RoomInv, Silent, Asking, Hearing, vars
  <2>3. TabInv'
    BY <1>3, TabsStay DEF vars
  <2>4. ReadInv'
    BY <1>3, ReadsStay DEF Coming, Heard, vars
  <2> QED BY <2>1, <2>2, <2>3, <2>4 DEF ScreenInv
<1> QED BY <1>1, <1>2, <1>3, WriteKeeps, AnnounceKeeps, AnnounceFailsKeeps, RedisKeeps, ArrivesKeeps DEF Next

(* The inductive invariant: the room, its subscription, its members and    *)
(* the tabs fit together, and what a tab lacks is on its way.              *)
THEOREM ScreensFit == Spec => [](ScreenInv /\ ReadInv)
BY ScreensStart, ScreensStep, PTL DEF Spec

(* case-channel.service.ts: the room and its subscription are well formed, *)
(* and with a member in it the channel is subscribed and has one listener, *)
(* however its connections come and go.                                    *)
THEOREM RoomsAreKept == Spec => []RoomsKept
<1>1. ScreenInv => TypeOK
  <2> SUFFICES ASSUME ScreenInv PROVE TypeOK
    OBVIOUS
  <2>1. \A s \in Screens : tab[s].shown \in 0..case /\ tab[s].took \in 0..case
    BY DEF ScreenInv, TabInv, TabType
  <2>2. CaseInv
    BY DEF ScreenInv
  <2> QED BY <2>1, <2>2 DEF CaseInv, TypeOK
<1>2. ScreenInv => RoomsHear
  <2> SUFFICES ASSUME ScreenInv, NEW c \in Conns, member[c] = "joined", leaving = {}
               PROVE  WillListen /\ Cardinality(listeners) = 1
    BY DEF RoomsHear
  <2>1. Hearing /\ promise \in listeners
    BY JoinedHears
  <2>2. listeners = {promise}
    BY <2>1 DEF ScreenInv, RoomInv
  <2>3. Cardinality(listeners) = 1
    BY <2>2, FS_Singleton
  <2> QED BY <2>1, <2>3 DEF WillListen, Hearing
<1> QED BY <1>1, <1>2, ScreensFit, PTL DEF RoomsKept

(* useCaseChanges.ts, case-channel.service.ts: whatever breaks, and        *)
(* whichever publish fails, a screen that calls itself current shows the   *)
(* case as it is, or is about to be told, from the first write on that is  *)
(* published after its connection joined the room.                         *)
THEOREM ScreensAreTold == Spec => []JoinedIsTold
<1>1. ScreenInv /\ ReadInv => JoinedIsTold
  <2> SUFFICES ASSUME ScreenInv, ReadInv, NEW s \in Screens, Stale(s), Hears(s), ~ Owed(s)
               PROVE  FALSE
    BY DEF JoinedIsTold
  <2>1. /\ tab[s].link = "up" /\ ConnOf(s) \in alive /\ ~ tab[s].timer
        /\ tab[s].fetch # "asked" /\ ~ Coming(ConnOf(s))
        /\ ~ (tab[s].fetch = "served" /\ tab[s].took = case)
    BY ConnsOfTabs DEF Owed, Coming, HasChange, LinkOK, TabType
  <2>2. tab[s].fetch \in {"none", "asked", "served"}
    BY ConnsOfTabs DEF TabType
  <2> QED BY <2>1, <2>2, ConnsOfTabs DEF ReadInv, Reading, Stale, Hears, Heard
<1> QED BY <1>1, ScreensFit, PTL

(* useCaseChanges.ts: a screen stops saying that it is behind only with    *)
(* its connection up and what was written while it was down read.          *)
THEOREM BehindIsCleared == Spec => BehindUntilRead
<1> DEFINE Clears(s) ==
        (tab[s].behind /\ ~ tab'[s].behind) =>
            tab'[s].link = "up" /\ tab'[s].shown >= tab[s].since
<1>1. ASSUME ScreenInv, [Next]_vars, NEW s \in Screens PROVE Clears(s)
  <2> SUFFICES ASSUME tab[s].behind, ~ tab'[s].behind
               PROVE  tab'[s].link = "up" /\ tab'[s].shown >= tab[s].since
    OBVIOUS
  <2>1. tab[s] \in TabType(case) /\ LinkOK(s, tab[s]) /\ WatchOK(tab[s])
    BY <1>1, ConnsOfTabs
  <2>2. tab \in [Screens -> TabType(case)]
    BY <1>1 DEF ScreenInv, TabInv
  <2>3. Lands(s)
    <3> SUFFICES ASSUME ~ Lands(s) PROVE FALSE
      OBVIOUS
    <3>1. tab'[s] # tab[s]
      OBVIOUS
    <3>2. ASSUME NEW c \in Conns, Server(c) PROVE UNCHANGED tab
      BY <3>2 DEF Server, Attach, Joined, Closed, Leave, Teardown
    <3>3. ASSUME NEW r \in Screens, Tab(r) \/ Break(r) \/ Fails(r) \/ Reread(r) PROVE FALSE
      <4>1. r = s
        BY <2>2, <3>1, <3>3 DEF Tab, Accept, Opened, Dropped, Reconnect, Told, Settle, Served,
           Lands, Break, Fails, Reread, Sets
      <4>2. ~ Accept(s)
        BY <2>1, <2>2, <3>1 DEF Accept, TabType
      <4>3. ~ Opened(s)
        <5> DEFINE n == [tab[s] EXCEPT !.link = "up", !.down = FALSE, !.wasDown = FALSE,
                                       !.catchingUp = tab[s].dropped, !.dropped = FALSE,
                                       !.timer = TRUE, !.since = case]
        <5>1. n.behind = tab[s].behind
          BY <2>1 DEF TabType
        <5>2. Opened(s) => tab'[s] = n
          BY <2>2 DEF Opened, Sets
        <5> QED BY <5>1, <5>2
      <4>4. ~ Dropped(s)
        <5> DEFINE n == [tab[s] EXCEPT !.link = "down", !.down = TRUE, !.wasDown = TRUE,
                                       !.drops = @ + 1, !.dropped = TRUE, !.behind = TRUE,
                                       !.failed = tab[s].behind /\ @]
        <5>1. n.behind = TRUE
          BY <2>1 DEF TabType
        <5>2. Dropped(s) => tab'[s] = n
          BY <2>2 DEF Dropped, Sets
        <5> QED BY <5>1, <5>2
      <4>5. ~ Reconnect(s)
        BY <2>1, <2>2, <3>1 DEF Reconnect, Sets, TabType
      <4>6. ~ Told(s)
        BY <2>1, <2>2, <3>1 DEF Told, Sets, TabType
      <4>7. ~ Settle(s)
        BY <2>1, <2>2, <3>1 DEF Settle, Sets, TabType
      <4>8. ~ Served(s)
        BY <2>1, <2>2, <3>1 DEF Served, Sets, TabType
      <4>9. ~ Break(s)
        BY <2>1, <2>2, <3>1 DEF Break, TabType
      <4>10. ~ Fails(s)
        BY <2>1, <2>2, <3>1 DEF Fails, Sets, TabType
      <4>11. ~ Reread(s)
        BY <2>1, <2>2, <3>1 DEF Reread, Sets, TabType
      <4> QED BY <3>3, <4>1, <4>2, <4>3, <4>4, <4>5, <4>6, <4>7, <4>8, <4>9, <4>10, <4>11 DEF Tab
    <3> QED BY <1>1, <3>1, <3>2, <3>3 DEF Next, Write, Announce, AnnounceFails, Announced, RedisDoes, Arrives, vars
  <2>4. /\ tab'[s].link = tab[s].link /\ tab'[s].shown = tab[s].took
        /\ Latest(tab[s]) /\ tab[s].fetch = "served"
    BY <2>1, <2>2, <2>3 DEF Lands, Sets, TabType
  <2> QED BY <2>1, <2>4 DEF Latest, LinkOK, WatchOK
<1>2. ScreenInv /\ [Next]_vars => [\A s \in Screens : Clears(s)]_vars
  BY <1>1
<1> QED BY <1>2, ScreensFit, PTL DEF Spec, BehindUntilRead

(***************************************************************************)
(* The claims.                                                             *)
(***************************************************************************)

Jobs == [do : {"claim", "release"}, row : Rows]
        \cup [do : {"join", "yield", "leave"}, row : {Nil}]

Holders == [Rows -> Peers \cup {Nil}]

Pcs == {"start", "look", "level", "eval", "hget", "hdel", "alive", "sweep", "next", "tx"}

Places == [pc : Pcs, row : Rows \cup {Nil}, held : Holders, stranded : SUBSET Rows,
           mine : SUBSET Rows, last : BOOLEAN]

States == {"new", "open", "gone", "dead"}

NoJoin(q) == \A i \in DOMAIN q : q[i].do # "join"

NoLeave(q) == \A i \in DOMAIN q : q[i].do # "leave"

HasClaim(q) == \E i \in DOMAIN q : q[i].do = "claim"

(* No claim comes behind a leave.                                          *)
LeaveLast(q) ==
    \A i, j \in DOMAIN q : q[i].do = "leave" /\ q[j].do = "claim" => j < i

(* The chain of a connection: nothing before it is open, the join at most  *)
(* at its head.                                                            *)
ChainOK(st, q, p) ==
    /\ st = "new" => q = <<>>
    /\ \A i \in DOMAIN q : q[i].do = "join" => i = 1
    /\ LeaveLast(q) /\ (st = "open" => NoLeave(q))
    /\ st = "new" => p.pc = "start"
    /\ p.pc \in {"level", "eval", "hget", "hdel"} => p.row \in Rows

ChainsOK ==
    /\ order \in [Peers -> Seq(Jobs)] /\ at \in [Peers -> Places] /\ state \in [Peers -> States]
    /\ claims \in [Peers -> SUBSET Rows]
    /\ \A c \in Peers : ChainOK(state[c], order[c], at[c])

(* A connection that never joins again.                                    *)
Past(c) == state[c] # "new" /\ (NoJoin(order[c]) \/ (order[c] # <<>> /\ at[c].pc # "start"))

(* One that may yet claim a row.                                           *)
MayClaim(c) == Past(c) /\ (state[c] = "open" \/ HasClaim(order[c]))

LEMMA TailHasNoJoin ==
    ASSUME NEW q \in Seq(Jobs), q # <<>>, \A i \in DOMAIN q : q[i].do = "join" => i = 1
    PROVE  /\ Tail(q) \in Seq(Jobs) /\ NoJoin(Tail(q)) /\ Head(q) \in Jobs
           /\ Head(q).do # "join" => NoJoin(q)
           /\ NoLeave(q) => NoLeave(Tail(q))
           /\ HasClaim(Tail(q)) => HasClaim(q)
           /\ LeaveLast(q) => LeaveLast(Tail(q)) /\ (Head(q).do = "leave" => ~HasClaim(q))
<1>1. Head(q) = q[1] /\ 1 \in DOMAIN q /\ \A j \in DOMAIN q : j \in Nat /\ ~(j < 1)
  BY EmptySeq
<1>2. \A i \in DOMAIN Tail(q) : i \in Nat /\ i + 1 \in DOMAIN q /\ Tail(q)[i] = q[i + 1] /\ i + 1 # 1
  BY HeadTailProperties
<1>3. Tail(q) \in Seq(Jobs) /\ NoJoin(Tail(q)) /\ Head(q) \in Jobs /\ (Head(q).do # "join" => NoJoin(q))
  BY <1>1, <1>2, HeadTailProperties DEF NoJoin
<1>4. (NoLeave(q) => NoLeave(Tail(q))) /\ (HasClaim(Tail(q)) => HasClaim(q))
  BY <1>2 DEF NoLeave, HasClaim
<1>5. LeaveLast(q) => LeaveLast(Tail(q))
  BY <1>2 DEF LeaveLast
<1>6. LeaveLast(q) /\ Head(q).do = "leave" => ~HasClaim(q)
  BY <1>1 DEF LeaveLast, HasClaim
<1> QED BY <1>3, <1>4, <1>5, <1>6

LEMMA AppendKeeps ==
    ASSUME NEW q \in Seq(Jobs), NEW j \in Jobs, j.do # "join",
           \A i \in DOMAIN q : q[i].do = "join" => i = 1
    PROVE  /\ Append(q, j) \in Seq(Jobs) /\ Append(q, j) # <<>>
           /\ \A i \in DOMAIN Append(q, j) : Append(q, j)[i].do = "join" => i = 1
           /\ NoJoin(q) <=> NoJoin(Append(q, j))
           /\ HasClaim(Append(q, j)) => HasClaim(q) \/ j.do = "claim"
           /\ NoLeave(q) /\ j.do # "leave" => NoLeave(Append(q, j))
           /\ LeaveLast(q) /\ (j.do = "claim" => NoLeave(q)) => LeaveLast(Append(q, j))
<1>1. /\ Append(q, j) \in Seq(Jobs) /\ Append(q, j) # <<>>
      /\ \A i \in DOMAIN Append(q, j) :
            \/ Append(q, j)[i] = j /\ i = Len(q) + 1
            \/ i \in DOMAIN q /\ i <= Len(q) /\ i \in Nat /\ Append(q, j)[i] = q[i]
      /\ Len(q) \in Nat
      /\ \A i \in DOMAIN q : i \in DOMAIN Append(q, j) /\ Append(q, j)[i] = q[i]
  BY AppendProperties
<1>2. LeaveLast(q) /\ (j.do = "claim" => NoLeave(q)) => LeaveLast(Append(q, j))
  BY <1>1 DEF LeaveLast, NoLeave
<1> QED BY <1>1, <1>2 DEF NoJoin, NoLeave, HasClaim

LEMMA FreshIsAPlace == Fresh \in Places /\ Fresh.pc = "start" /\ \A r \in Rows : Fresh.held[r] = Nil
BY DEF Fresh, Nobody, Places, Pcs, Holders

-----------------------------------------------------------------------------
(* What a step does to the chain of c, and that it touches no other.       *)
Moves(c) ==
    /\ order' \in [Peers -> Seq(Jobs)] /\ at' \in [Peers -> Places] /\ state' \in [Peers -> States]
    /\ claims' \in [Peers -> SUBSET Rows]
    /\ \A e \in Peers \ {c} : order'[e] = order[e] /\ at'[e] = at[e] /\ state'[e] = state[e]
    /\ ChainOK(state[c], order[c], at[c])'
    /\ Past(c) => Past(c)'
    /\ MayClaim(c)' => MayClaim(c) \/ c \in beats'
    /\ \A r \in Rows : at'[c].held[r] \in {at[c].held[r], claim[r], Nil}
    /\ at'[c].pc = "hdel" => at'[c] = at[c] \/ at'[c].held[at'[c].row] = c
    /\ at'[c].pc = "sweep" =>
          at'[c] = at[c] \/ \A r \in at'[c].stranded : at'[c].held[r] \in Peers \ key

LEMMA DoneMoves ==
    ASSUME ChainsOK, claim \in Holders, NEW c \in Peers, NEW q, Done(c, q), order[c] # <<>>,
           q \in Seq(Jobs), NoJoin(q), state' \in [Peers -> States], state'[c] # "new",
           \A e \in Peers \ {c} : state'[e] = state[e], claims' \in [Peers -> SUBSET Rows],
           LeaveLast(q), state'[c] = "open" => NoLeave(q) /\ state[c] = "open",
           HasClaim(q) => HasClaim(order[c]),
           Past(c) \/ (~HasClaim(q) /\ state'[c] # "open")
    PROVE  Moves(c)
<1>1. /\ order'[c] = q /\ at'[c] = Fresh
      /\ order' \in [Peers -> Seq(Jobs)] /\ at' \in [Peers -> Places]
      /\ \A e \in Peers \ {c} : order'[e] = order[e] /\ at'[e] = at[e]
  BY FreshIsAPlace DEF Done, Goes, ChainsOK
<1>2. ChainOK(state[c], order[c], at[c])' /\ Past(c)'
  BY <1>1, FreshIsAPlace DEF ChainOK, Past, NoJoin
<1>3. MayClaim(c)' => MayClaim(c)
  BY <1>1 DEF MayClaim
<1>4. at'[c].pc = "start" /\ \A r \in Rows : at'[c].held[r] = Nil
  BY <1>1, FreshIsAPlace
<1> QED BY <1>1, <1>2, <1>3, <1>4 DEF Moves

LEMMA OpenChain == ASSUME ChainsOK, NEW c \in Peers, order[c] # <<>>
                   PROVE  /\ order[c] \in Seq(Jobs) /\ Tail(order[c]) \in Seq(Jobs)
                          /\ NoJoin(Tail(order[c])) /\ Head(order[c]) \in Jobs
                          /\ Head(order[c]).do # "join" => NoJoin(order[c])
                          /\ state[c] # "new" /\ LeaveLast(Tail(order[c]))
                          /\ NoLeave(order[c]) => NoLeave(Tail(order[c]))
                          /\ HasClaim(Tail(order[c])) => HasClaim(order[c])
                          /\ Head(order[c]).do = "leave" => ~HasClaim(order[c])
                          /\ state[c] = "open" => NoLeave(order[c])
                          /\ Head(order[c]).do # "join" \/ at[c].pc # "start" => Past(c)
BY TailHasNoJoin DEF ChainsOK, ChainOK, Past

(* The head stays, and goes on from another place.                         *)
LEMMA GoesMoves ==
    ASSUME ChainsOK, claim \in Holders, NEW c \in Peers, NEW p \in Places, Goes(c, p),
           order[c] # <<>>, UNCHANGED <<order, state>>, claims' \in [Peers -> SUBSET Rows],
           NoJoin(order[c]) \/ p.pc # "start", Past(c) \/ c \in beats',
           p.pc \in {"level", "eval", "hget", "hdel"} => p.row \in Rows,
           \A r \in Rows : p.held[r] \in {at[c].held[r], claim[r], Nil},
           p.pc = "hdel" => p.held[p.row] = c,
           p.pc = "sweep" => \A r \in p.stranded : p.held[r] \in Peers \ key
    PROVE  Moves(c)
<1>1. /\ at'[c] = p /\ at' \in [Peers -> Places]
      /\ \A e \in Peers \ {c} : at'[e] = at[e]
  BY DEF Goes, ChainsOK
<1>2. MayClaim(c)' => MayClaim(c) \/ c \in beats'
  BY DEF MayClaim
<1>3. ChainOK(state[c], order[c], at[c])' /\ Past(c)'
  BY <1>1, OpenChain DEF ChainOK, Past, ChainsOK
<1> QED BY <1>1, <1>2, <1>3 DEF Moves, ChainsOK

LEMMA SweptMoves ==
    ASSUME ChainsOK, claim \in Holders, NEW c \in Peers, order[c] # <<>>, Swept(c),
           at[c].pc # "start",
           UNCHANGED <<state, claims>>
    PROVE  Moves(c)
<1>1. /\ at[c] \in Places /\ claims \in [Peers -> SUBSET Rows] /\ state \in [Peers -> States]
      /\ Past(c)
  BY OpenChain DEF ChainsOK
<1>2. ASSUME NEW pc \in {"tx", "next"}, To(c, pc), UNCHANGED order PROVE Moves(c)
  <2> DEFINE p == [at[c] EXCEPT !.pc = pc]
  <2>1. p \in Places /\ p.pc = pc /\ p.held = at[c].held
    BY <1>1, <1>2 DEF Places, Pcs
  <2>2. Goes(c, p)
    BY <1>2 DEF To
  <2> HIDE DEF p
  <2> QED BY <1>1, <1>2, <2>1, <2>2, GoesMoves
<1>3. CASE Done(c, Tail(order[c]))
  BY <1>1, <1>3, OpenChain, DoneMoves
<1> QED BY <1>2, <1>3 DEF Swept

LEMMA AppendedMoves ==
    ASSUME ChainsOK, claim \in Holders, NEW c \in Peers, NEW j \in Jobs, j.do # "join",
           order' = [order EXCEPT ![c] = Append(@, j)], UNCHANGED at,
           state' \in [Peers -> States], state[c] # "new", state'[c] # "new",
           \A e \in Peers \ {c} : state'[e] = state[e], claims' \in [Peers -> SUBSET Rows],
           state'[c] = "open" => state[c] = "open" /\ j.do # "leave",
           j.do = "claim" => state[c] = "open"
    PROVE  Moves(c)
<1>1. order[c] \in Seq(Jobs) /\ ChainOK(state[c], order[c], at[c])
  BY DEF ChainsOK
<1>2. /\ Append(order[c], j) \in Seq(Jobs) /\ Append(order[c], j) # <<>>
      /\ \A i \in DOMAIN Append(order[c], j) : Append(order[c], j)[i].do = "join" => i = 1
      /\ NoJoin(order[c]) <=> NoJoin(Append(order[c], j))
      /\ HasClaim(Append(order[c], j)) => HasClaim(order[c]) \/ j.do = "claim"
      /\ LeaveLast(Append(order[c], j))
      /\ state'[c] = "open" => NoLeave(Append(order[c], j))
  BY <1>1, AppendKeeps DEF ChainOK
<1> DEFINE q == Append(order[c], j)
<1>3. order'[c] = q /\ order' \in [Peers -> Seq(Jobs)] /\ \A e \in Peers \ {c} : order'[e] = order[e]
  BY <1>2 DEF ChainsOK
<1> HIDE DEF q
<1>4. /\ q # <<>> /\ (\A i \in DOMAIN q : q[i].do = "join" => i = 1) /\ (NoJoin(order[c]) <=> NoJoin(q))
      /\ HasClaim(q) => HasClaim(order[c]) \/ j.do = "claim"
      /\ LeaveLast(q) /\ (state'[c] = "open" => NoLeave(q))
  BY <1>2 DEF q
<1>5. (Past(c) => Past(c)') /\ ChainOK(state[c], order[c], at[c])'
  BY <1>1, <1>3, <1>4 DEF ChainOK, Past
<1>6. Past(c)' => Past(c) \/ order[c] = <<>>
  BY <1>3, <1>4 DEF Past
<1>7. order[c] = <<>> => Past(c)
  BY DEF Past, NoJoin
<1>8. MayClaim(c)' => MayClaim(c)
  BY <1>3, <1>4, <1>6, <1>7 DEF MayClaim
<1> QED BY <1>1, <1>3, <1>5, <1>8 DEF Moves, ChainsOK

LEMMA JobsAre ==
    /\ \A do \in {"join", "yield", "leave"} : Job(do, Nil) \in Jobs /\ Job(do, Nil).do = do
    /\ \A do \in {"claim", "release"}, r \in Rows : Job(do, r) \in Jobs /\ Job(do, r).do = do
BY DEF Job, Jobs

LEMMA Stays ==
    ASSUME ChainsOK, claim \in Holders, NEW c \in Peers, UNCHANGED <<state, order, at, claims>>
    PROVE  Moves(c)
BY DEF ChainsOK, Moves, Past, MayClaim

(* Every step of a connection moves its own chain.                         *)
LEMMA ActsMove ==
    ASSUME ChainsOK, claim \in Holders, Nil \notin Peers, NEW c \in Peers, Acts(c)
    PROVE  Moves(c)
<1>1. /\ at[c] \in Places /\ claims \in [Peers -> SUBSET Rows] /\ state \in [Peers -> States]
      /\ order[c] \in Seq(Jobs) /\ ChainOK(state[c], order[c], at[c])
      /\ order[c] # <<>> /\ (Head(order[c]).do # "join" \/ at[c].pc # "start") => Past(c)
  BY OpenChain DEF ChainsOK
<1>2. CASE JoinRoster(c)
  <2> DEFINE p == [at[c] EXCEPT !.pc = "look"]
  <2>1. p \in Places /\ p.pc = "look" /\ p.held = at[c].held
    BY <1>1 DEF Places, Pcs
  <2>2. Goes(c, p) /\ order[c] # <<>> /\ UNCHANGED <<order, state, claims>>
        /\ c \in beats'
    BY <1>2 DEF JoinRoster, To, Does
  <2> HIDE DEF p
  <2> QED BY <1>1, <2>1, <2>2, GoesMoves
<1>3. CASE Level(c)
  <2>1. order[c] # <<>> /\ Head(order[c]).do = "claim" /\ at[c].pc = "level" /\ UNCHANGED state
    BY <1>3 DEF Level, Does
  <2>2. CASE Done(c, Tail(order[c])) /\ UNCHANGED claims
    BY <1>1, <2>1, <2>2, OpenChain, DoneMoves
  <2>3. CASE /\ claims' = [claims EXCEPT ![c] = @ \cup {at[c].row}]
             /\ To(c, "eval") /\ UNCHANGED order
    <3> DEFINE p == [at[c] EXCEPT !.pc = "eval"]
    <3>1. p \in Places /\ p.pc = "eval" /\ p.held = at[c].held /\ p.row = at[c].row
      BY <1>1 DEF Places, Pcs
    <3>2. Goes(c, p) /\ at[c].row \in Rows
      BY <1>1, <2>1, <2>3 DEF To, ChainOK
    <3>3. claims' \in [Peers -> SUBSET Rows]
      BY <1>1, <2>3, <3>2
    <3> HIDE DEF p
    <3> QED BY <1>1, <2>1, <2>3, <3>1, <3>2, <3>3, GoesMoves
  <2> QED BY <1>3, <2>2, <2>3 DEF Level
<1>4. CASE Claim(c)
  <2> DEFINE p == [at[c] EXCEPT !.pc = "look"]
  <2>1. p \in Places /\ p.pc = "look" /\ p.held = at[c].held
    BY <1>1 DEF Places, Pcs
  <2>2. Goes(c, p) /\ order[c] # <<>> /\ UNCHANGED <<order, state, claims>>
        /\ at[c].pc = "eval"
    BY <1>4 DEF Claim, To, Does
  <2> HIDE DEF p
  <2> QED BY <1>1, <2>1, <2>2, GoesMoves
<1>5. CASE Holder(c)
  <2> DEFINE p == [at[c] EXCEPT !.pc = IF Releasable(c, at[c].row) THEN "hdel" ELSE "look",
                                !.held = claim]
  <2>1. /\ p \in Places /\ p.pc = IF claim[at[c].row] = c THEN "hdel" ELSE "look"
        /\ p.held = claim /\ p.row = at[c].row
    BY <1>1 DEF Places, Pcs, Releasable
  <2>2. Goes(c, p) /\ order[c] # <<>> /\ UNCHANGED <<order, state, claims>> /\ at[c].pc = "hget"
    BY <1>5 DEF Holder
  <2> HIDE DEF p
  <2> QED BY <1>1, <2>1, <2>2, GoesMoves DEF ChainOK
<1>6. CASE Release(c)
  <2> DEFINE p == [Fresh EXCEPT !.pc = "look"]
  <2>1. p \in Places /\ p.pc = "look" /\ p.held = Nobody
    BY FreshIsAPlace DEF Places, Pcs, Fresh
  <2>2. Goes(c, p) /\ order[c] # <<>> /\ UNCHANGED <<order, state, claims>>
        /\ at[c].pc = "hdel"
    BY <1>6 DEF Release
  <2> HIDE DEF p
  <2> QED BY <1>1, <2>1, <2>2, GoesMoves DEF Nobody
<1>7. CASE Yield(c) \/ YieldNext(c)
  <2>1. order[c] # <<>> /\ Head(order[c]).do = "yield" /\ UNCHANGED state
    BY <1>7 DEF Yield, YieldNext, Does
  <2>2. CASE Done(c, Tail(order[c])) /\ UNCHANGED claims
    BY <1>1, <2>1, <2>2, OpenChain, DoneMoves
  <2>3. ASSUME NEW r \in claims[c], claims' = [claims EXCEPT ![c] = @ \ {r}],
               Goes(c, [Fresh EXCEPT !.pc = "hget", !.row = r]), UNCHANGED order
        PROVE  Moves(c)
    <3> DEFINE p == [Fresh EXCEPT !.pc = "hget", !.row = r]
    <3>1. r \in Rows
      BY <1>1
    <3>2. p \in Places /\ p.pc = "hget" /\ p.held = Nobody /\ p.row = r
      BY <3>1, FreshIsAPlace DEF Places, Pcs, Fresh
    <3>3. claims' \in [Peers -> SUBSET Rows] /\ Goes(c, p)
      BY <1>1, <2>3
    <3> HIDE DEF p
    <3> QED BY <1>1, <2>1, <2>3, <3>1, <3>2, <3>3, GoesMoves DEF Nobody
  <2> QED BY <1>7, <2>2, <2>3 DEF Yield, YieldNext
<1>8. CASE LeaveRoster(c)
  <2> DEFINE p == [Fresh EXCEPT !.pc = "look", !.last = TRUE]
  <2>1. p \in Places /\ p.pc = "look" /\ p.held = Nobody
    BY FreshIsAPlace DEF Places, Pcs, Fresh
  <2>2. Goes(c, p) /\ order[c] # <<>> /\ UNCHANGED <<order, state, claims>>
        /\ Head(order[c]).do = "leave"
    BY <1>8 DEF LeaveRoster, Does
  <2> HIDE DEF p
  <2> QED BY <1>1, <2>1, <2>2, GoesMoves DEF Nobody
<1>9. CASE Remove(c)
  <2> DEFINE p == [Fresh EXCEPT !.pc = "look"]
  <2>1. p \in Places /\ p.pc = "look" /\ p.held = Nobody
    BY FreshIsAPlace DEF Places, Pcs, Fresh
  <2>2. Goes(c, p) /\ order[c] # <<>> /\ UNCHANGED <<order, state, claims>>
        /\ at[c].pc = "tx"
    BY <1>9 DEF Remove, Does
  <2> HIDE DEF p
  <2> QED BY <1>1, <2>1, <2>2, GoesMoves DEF Nobody
<1>10. CASE Look(c)
  <2>1. order[c] # <<>> /\ at[c].pc = "look" /\ UNCHANGED <<state, claims>>
    BY <1>10 DEF Look
  <2>2. CASE Swept(c)
    BY <2>1, <2>2, SweptMoves
  <2>3. CASE Goes(c, [at[c] EXCEPT !.pc = "alive", !.held = claim]) /\ UNCHANGED order
    <3> DEFINE p == [at[c] EXCEPT !.pc = "alive", !.held = claim]
    <3>1. p \in Places /\ p.pc = "alive" /\ p.held = claim
      BY <1>1 DEF Places, Pcs
    <3>2. Goes(c, p)
      BY <2>3
    <3> HIDE DEF p
    <3> QED BY <1>1, <2>1, <2>3, <3>1, <3>2, GoesMoves
  <2> QED BY <1>10, <2>2, <2>3 DEF Look
<1>11. CASE Alive(c)
  <2> DEFINE stranded == {r \in Rows : at[c].held[r] # Nil /\ at[c].held[r] \notin key}
             mine == {r \in Rows \ stranded : at[c].held[r] = c}
             p == [at[c] EXCEPT !.pc = "sweep", !.stranded = stranded, !.mine = mine]
  <2>1. stranded \in SUBSET Rows /\ mine \in SUBSET Rows
        /\ \A r \in stranded : at[c].held[r] \in Peers \ key
    BY <1>1 DEF Places, Holders
  <2>2. Goes(c, p) /\ order[c] # <<>> /\ UNCHANGED <<order, state, claims>>
        /\ at[c].pc = "alive"
    BY <1>11 DEF Alive
  <2> HIDE DEF stranded, mine
  <2>3. p \in Places /\ p.pc = "sweep" /\ p.held = at[c].held /\ p.stranded = stranded
    BY <1>1, <2>1 DEF Places, Pcs
  <2> HIDE DEF p
  <2> QED BY <1>1, <2>1, <2>2, <2>3, GoesMoves
<1>12. CASE Sweep(c)
  BY <1>12, SweptMoves DEF Sweep
<1>13. CASE Authority(c)
  <2> DEFINE job == Head(order[c])
  <2>1. /\ order[c] # <<>> /\ job.do \in {"claim", "release"} /\ job \in Jobs
        /\ NoJoin(order[c]) /\ NoJoin(Tail(order[c])) /\ Tail(order[c]) \in Seq(Jobs) /\ state[c] # "new"
        /\ Past(c) /\ LeaveLast(Tail(order[c])) /\ (HasClaim(Tail(order[c])) => HasClaim(order[c]))
        /\ state[c] = "open" => NoLeave(order[c]) /\ NoLeave(Tail(order[c]))
    BY <1>13, OpenChain DEF Authority
  <2>2. CASE /\ state' = [state EXCEPT ![c] = "gone"]
             /\ Done(c, Append(Tail(order[c]), Job("leave", Nil))) /\ UNCHANGED claims
    <3>1. /\ Append(Tail(order[c]), Job("leave", Nil)) \in Seq(Jobs)
          /\ NoJoin(Append(Tail(order[c]), Job("leave", Nil)))
          /\ LeaveLast(Append(Tail(order[c]), Job("leave", Nil)))
          /\ HasClaim(Append(Tail(order[c]), Job("leave", Nil))) => HasClaim(order[c])
      BY <2>1, JobsAre, AppendKeeps DEF NoJoin
    <3>2. state' \in [Peers -> States] /\ state'[c] = "gone" /\ \A e \in Peers \ {c} : state'[e] = state[e]
      BY <1>1, <2>2 DEF States
    <3> QED BY <1>1, <2>1, <2>2, <3>1, <3>2, DoneMoves
  <2>3. CASE Done(c, Tail(order[c])) /\ UNCHANGED <<state, claims>>
    BY <1>1, <2>1, <2>3, DoneMoves
  <2>4. CASE /\ order' = IF level[c] = "read" THEN Appended(c, "yield") ELSE order
             /\ Goes(c, [Fresh EXCEPT !.pc = IF job.do = "claim" THEN "level" ELSE "hget",
                                      !.row = job.row])
             /\ claims' = [claims EXCEPT ![c] = IF job.do = "claim" THEN @ ELSE @ \ {job.row}]
             /\ UNCHANGED state
    <3> DEFINE p == [Fresh EXCEPT !.pc = IF job.do = "claim" THEN "level" ELSE "hget",
                                  !.row = job.row]
               q == IF level[c] = "read" THEN Append(order[c], Job("yield", Nil)) ELSE order[c]
    <3>1. job.row \in Rows
      BY <2>1 DEF Jobs
    <3>2. /\ p \in Places /\ p.pc \in {"level", "hget"} /\ p.held = Nobody /\ p.row \in Rows
          /\ at' = [at EXCEPT ![c] = p]
      BY <2>4, <3>1, FreshIsAPlace DEF Places, Pcs, Fresh, Goes
    <3>3. claims' \in [Peers -> SUBSET Rows]
      BY <1>1, <2>4
    <3>4. /\ q \in Seq(Jobs) /\ q # <<>> /\ NoJoin(q) /\ LeaveLast(q)
          /\ (state[c] = "open" => NoLeave(q)) /\ (HasClaim(q) => HasClaim(order[c]))
          /\ order' = [order EXCEPT ![c] = q]
      <4>1. /\ Append(order[c], Job("yield", Nil)) \in Seq(Jobs)
            /\ Append(order[c], Job("yield", Nil)) # <<>>
            /\ NoJoin(Append(order[c], Job("yield", Nil)))
            /\ LeaveLast(Append(order[c], Job("yield", Nil)))
            /\ state[c] = "open" => NoLeave(Append(order[c], Job("yield", Nil)))
            /\ HasClaim(Append(order[c], Job("yield", Nil))) => HasClaim(order[c])
        BY <1>1, <2>1, JobsAre, AppendKeeps DEF ChainOK
      <4>2. CASE level[c] = "read"
        BY <2>4, <4>1, <4>2 DEF Appended
      <4>3. CASE level[c] # "read"
        <5>1. order' = order /\ order = [order EXCEPT ![c] = order[c]] /\ q = order[c]
          BY <2>4, <4>3 DEF ChainsOK
        <5>2. LeaveLast(order[c])
          BY <1>1 DEF ChainOK
        <5> QED BY <1>1, <2>1, <5>1, <5>2
      <4> QED BY <4>2, <4>3
    <3> HIDE DEF p, q, job
    <3>5. /\ order' \in [Peers -> Seq(Jobs)] /\ at' \in [Peers -> Places]
          /\ order'[c] = q /\ at'[c] = p
          /\ \A e \in Peers \ {c} : order'[e] = order[e] /\ at'[e] = at[e]
      BY <3>2, <3>4 DEF ChainsOK
    <3>6. MayClaim(c)' => MayClaim(c)
      BY <2>1, <2>4, <3>4, <3>5 DEF MayClaim
    <3>7. ChainOK(state[c], order[c], at[c])' /\ Past(c)'
      BY <2>1, <2>4, <3>2, <3>4, <3>5 DEF ChainOK, Past, NoJoin
    <3> QED BY <1>1, <2>1, <2>4, <3>2, <3>3, <3>5, <3>6, <3>7 DEF Moves, Nobody
  <2> QED BY <1>13, <2>2, <2>3, <2>4 DEF Authority
<1> QED BY <1>2, <1>3, <1>4, <1>5, <1>6, <1>7, <1>8, <1>9, <1>10, <1>11, <1>12, <1>13 DEF Acts

(* So does every other step but that of a process killed.                  *)
LEMMA OthersMove ==
    ASSUME ChainsOK, claim \in Holders, Nil \notin Peers, NEW c \in Peers,
           \/ Open(c) \/ Close(c) \/ Frame(c) \/ ChangeLevel(c)
           \/ Revalidate(c) \/ ExpireKey(c) \/ Lapse(c) \/ Fail(c)
    PROVE  Moves(c)
<1>1. /\ at[c] \in Places /\ claims \in [Peers -> SUBSET Rows] /\ state \in [Peers -> States]
      /\ order[c] \in Seq(Jobs) /\ ChainOK(state[c], order[c], at[c])
      /\ order[c] # <<>> /\ (Head(order[c]).do # "join" \/ at[c].pc # "start") => Past(c)
  BY OpenChain DEF ChainsOK
<1>2. CASE Open(c)
  <2>1. /\ <<Job("join", Nil)>> \in Seq(Jobs) /\ <<Job("join", Nil)>> # <<>>
        /\ DOMAIN <<Job("join", Nil)>> = {1}
    BY JobsAre
  <2> DEFINE q == <<Job("join", Nil)>>
  <2> HIDE DEF q
  <2>2. /\ order' = [order EXCEPT ![c] = q] /\ state' = [state EXCEPT ![c] = "open"]
        /\ state[c] = "new" /\ UNCHANGED <<at, claims>>
    BY <1>2 DEF Open, q
  <2>3. /\ order' \in [Peers -> Seq(Jobs)] /\ order'[c] = q /\ state'[c] = "open"
        /\ state' \in [Peers -> States]
        /\ \A e \in Peers \ {c} : order'[e] = order[e] /\ state'[e] = state[e]
    BY <2>1, <2>2 DEF ChainsOK, States, q
  <2>4. Job("join", Nil).do = "join" /\ q[1] = Job("join", Nil) /\ DOMAIN q = {1}
    BY <2>1, JobsAre DEF q
  <2>5. ~Past(c) /\ at'[c] = at[c] /\ (at[c].pc = "start" => ~Past(c)')
    BY <2>2, <2>3, <2>4 DEF Past, NoJoin
  <2>6. ChainOK(state[c], order[c], at[c])'
    BY <1>1, <2>2, <2>3, <2>4 DEF ChainOK, LeaveLast, NoLeave
  <2> QED BY <1>1, <2>2, <2>3, <2>5, <2>6 DEF Moves, ChainsOK, MayClaim, ChainOK
<1>3. CASE Close(c) \/ (Revalidate(c) /\ Closing(c))
  <2>1. /\ order' = [order EXCEPT ![c] = Append(@, Job("leave", Nil))] /\ UNCHANGED <<at, claims>>
        /\ state' = [state EXCEPT ![c] = "gone"] /\ state[c] = "open"
    BY <1>3 DEF Close, Revalidate, Closing, Appended
  <2>2. state' \in [Peers -> States] /\ state'[c] = "gone" /\ \A e \in Peers \ {c} : state'[e] = state[e]
    BY <1>1, <2>1 DEF States
  <2> QED BY <1>1, <2>1, <2>2, JobsAre, AppendedMoves
<1>4. CASE Frame(c)
  <2>1. PICK do \in {"claim", "release"}, r \in Rows :
            order' = [order EXCEPT ![c] = Append(@, Job(do, r))]
    BY <1>4 DEF Frame
  <2>2. state[c] = "open" /\ UNCHANGED <<state, at, claims>>
    BY <1>4 DEF Frame
  <2>3. Job(do, r) \in Jobs /\ Job(do, r).do # "join" /\ Job(do, r).do # "leave"
    BY JobsAre
  <2> QED BY <1>1, <2>1, <2>2, <2>3, AppendedMoves
<1>5. CASE ChangeLevel(c) \/ ExpireKey(c) \/ Lapse(c)
  <2>1. UNCHANGED <<state, order, at, claims>>
    BY <1>5 DEF ChangeLevel, ExpireKey, Lapse, Redis, Room
  <2> QED BY <2>1, Stays
<1>6. CASE Revalidate(c) /\ UNCHANGED state /\ order' = Appended(c, "yield")
  <2>1. order' = [order EXCEPT ![c] = Append(@, Job("yield", Nil))] /\ UNCHANGED <<at, claims>>
        /\ state[c] = "open"
    BY <1>6 DEF Revalidate, Appended
  <2> QED BY <1>1, <1>6, <2>1, JobsAre, AppendedMoves
<1>7. CASE Fail(c)
  <2>1. order[c] # <<>> /\ Abandoned(c) /\ UNCHANGED claims
    BY <1>7 DEF Fail
  <2>2. CASE UNCHANGED state /\ Done(c, Tail(order[c])) /\ Head(order[c]).do # "join"
    BY <1>1, <2>1, <2>2, OpenChain, DoneMoves
  <2>3. CASE state' = [state EXCEPT ![c] = "gone"] /\ Done(c, <<Job("leave", Nil)>>)
    <3>1. /\ <<Job("leave", Nil)>> \in Seq(Jobs) /\ NoJoin(<<Job("leave", Nil)>>)
          /\ LeaveLast(<<Job("leave", Nil)>>) /\ ~HasClaim(<<Job("leave", Nil)>>)
      BY JobsAre DEF NoJoin, LeaveLast, HasClaim
    <3>2. state' \in [Peers -> States] /\ state'[c] = "gone" /\ \A e \in Peers \ {c} : state'[e] = state[e]
      BY <1>1, <2>3 DEF States
    <3>3. state'[c] # "open" /\ state'[c] # "new"
      BY <3>2
    <3> QED BY <1>1, <2>1, <2>3, <3>1, <3>2, <3>3, DoneMoves
  <2> QED BY <2>1, <2>2, <2>3 DEF Abandoned
<1> QED BY <1>2, <1>3, <1>4, <1>5, <1>6, <1>7 DEF Revalidate

-----------------------------------------------------------------------------
(* Who a claim names, or is read to name, has joined and will not again,   *)
(* so that one read to be off the roster stays off it.                     *)
ClaimsInv ==
    /\ key \in SUBSET Peers /\ beats \in SUBSET Peers /\ claim \in Holders
    /\ holdings \in [Peers -> SUBSET Rows]
    /\ \A c \in Peers : holdings[c] # {} => c \in beats
    /\ ChainsOK
    /\ \A c \in Peers : MayClaim(c) => c \in beats
    /\ \A r \in Rows, c \in Peers : claim[r] = c => Past(c)
    /\ \A d \in Peers, r \in Rows, c \in Peers : at[d].held[r] = c => Past(c)
    /\ \A d \in Peers : at[d].pc = "hdel" => at[d].held[at[d].row] = d
    /\ \A d \in Peers : at[d].pc = "sweep" =>
          \A r \in at[d].stranded : at[d].held[r] \in Peers \ key

(* What a step does to Redis and to the heartbeats.                        *)
Stored ==
    /\ key' \in SUBSET Peers /\ beats' \in SUBSET Peers /\ claim' \in Holders
    /\ holdings' \in [Peers -> SUBSET Rows]
    /\ \A c \in Peers : holdings'[c] # {} => c \in beats'
    /\ \A c \in Peers : Past(c) /\ c \notin key => c \notin key'
    /\ \A c \in beats : MayClaim(c) /\ MayClaim(c)' => c \in beats'
    /\ \A r \in Rows : claim'[r] = claim[r] \/ claim'[r] = Nil \/ Past(claim'[r])

(* A connection with a claim at its head is past its join; one about to    *)
(* join is not.                                                            *)
LEMMA Heads ==
    ASSUME ChainsOK, NEW c \in Peers
    PROVE  /\ \A pc : Does(c, "claim", pc) => Past(c) /\ MayClaim(c)
           /\ \A pc : Does(c, "leave", pc) => ~MayClaim(c)
           /\ Does(c, "join", "start") => ~Past(c)
<1>1. \A pc : Does(c, "claim", pc) => Past(c)
  BY OpenChain DEF Does, Past
<1>3. ASSUME order[c] # <<>>, Head(order[c]).do = "claim" PROVE HasClaim(order[c])
  <2>1. Head(order[c]) = order[c][1] /\ 1 \in DOMAIN order[c]
    BY <1>3, EmptySeq DEF ChainsOK
  <2> QED BY <1>3, <2>1 DEF HasClaim
<1>4. ASSUME order[c] # <<>>, Head(order[c]).do = "leave" PROVE ~HasClaim(order[c]) /\ state[c] # "open"
  <2>1. Head(order[c]) = order[c][1] /\ 1 \in DOMAIN order[c]
    BY <1>4, EmptySeq DEF ChainsOK
  <2> QED BY <1>4, <2>1, OpenChain DEF NoLeave
<1>2. ASSUME Does(c, "join", "start") PROVE ~Past(c)
  <2>1. order[c] # <<>> /\ Head(order[c]).do = "join" /\ order[c] \in Seq(Jobs) /\ at[c].pc = "start"
    BY <1>2 DEF Does, ChainsOK
  <2>2. Head(order[c]) = order[c][1] /\ 1 \in DOMAIN order[c]
    BY <2>1, EmptySeq
  <2> QED BY <2>1, <2>2 DEF Past, NoJoin
<1> QED BY <1>1, <1>2, <1>3, <1>4 DEF Does, MayClaim

LEMMA RedisStored ==
    ASSUME ClaimsInv, Nil \notin Peers, PresenceNext
    PROVE  Stored
<1> USE DEF ClaimsInv
<1>1. ASSUME UNCHANGED <<key, claim, beats, holdings>> PROVE Stored
  BY <1>1 DEF Stored
<1>2. ASSUME NEW c \in Peers, JoinRoster(c) PROVE Stored
  BY <1>2, Heads DEF JoinRoster, Stored
<1>3. ASSUME NEW c \in Peers, Claim(c) PROVE Stored
  <2>1. Past(c) /\ at[c].row \in Rows /\ c \in beats
    BY <1>3, Heads DEF Claim, ChainsOK, ChainOK, Does
  <2>2. CASE UNCHANGED <<claim, holdings>>
    BY <1>3, <2>2 DEF Claim, Stored
  <2>3. CASE /\ claim' = [claim EXCEPT ![at[c].row] = c]
             /\ holdings' = [holdings EXCEPT ![c] = @ \cup {at[c].row}]
    BY <1>3, <2>1, <2>3 DEF Claim, Stored, Holders
  <2> QED BY <1>3, <2>2, <2>3 DEF Claim
<1>4. ASSUME NEW c \in Peers, Release(c) PROVE Stored
  BY <1>4 DEF Release, Stored, Holders
<1>5. ASSUME NEW c \in Peers, LeaveRoster(c) PROVE Stored
  <2>1. ~MayClaim(c)
    BY <1>5, Heads DEF LeaveRoster
  <2> QED BY <1>5, <2>1 DEF LeaveRoster, Stored, Redis
<1>6. ASSUME NEW c \in Peers, Remove(c) PROVE Stored
  BY <1>6 DEF Remove, Stored, Holders, Room
<1>7. ASSUME NEW c \in Peers, Sweep(c) PROVE Stored
  BY <1>7 DEF Sweep, Stored, Holders, Room
<1>8. ASSUME NEW c \in Peers, ExpireKey(c) \/ Lapse(c) PROVE Stored
  BY <1>8 DEF ExpireKey, Lapse, Stored, Holders, Room
<1>9. ASSUME NEW r \in Rows, ExpireClaim(r) PROVE Stored
  BY <1>9 DEF ExpireClaim, Stored, Holders, Room
<1>10. ASSUME NEW c \in Peers, Fail(c) PROVE Stored
  <2>1. UNCHANGED <<beats, holdings>>
    BY <1>10 DEF Fail, Room
  <2>2. CASE UNCHANGED Redis
    BY <2>1, <2>2 DEF Redis, Stored
  <2>3. CASE Does(c, "join", "start") /\ key' = key \cup {c} /\ UNCHANGED claim
    BY <2>1, <2>3, Heads DEF Stored
  <2>4. CASE Does(c, "claim", "eval") /\ claim' = [claim EXCEPT ![at[c].row] = c] /\ UNCHANGED key
    <3>1. Past(c) /\ at[c].row \in Rows
      BY <2>4, Heads DEF ChainsOK, ChainOK, Does
    <3> QED BY <2>1, <2>4, <3>1 DEF Stored, Holders
  <2> QED BY <1>10, <2>2, <2>3, <2>4 DEF Fail
<1>11. ASSUME NEW s \in Servers, Crash(s) PROVE Stored
  <2> DEFINE its == {c \in Peers : ServerOf[c] = s /\ state[c] \in {"open", "gone"}}
  <2>1. /\ UNCHANGED <<key, claim>> /\ beats' = beats \ its
        /\ holdings' = [c \in Peers |-> IF c \in its THEN {} ELSE holdings[c]]
        /\ \A c \in its : order'[c] = <<>> /\ state'[c] = "dead"
    BY <1>11 DEF Crash, Redis
  <2> HIDE DEF its
  <2>2. ASSUME NEW c \in its PROVE ~MayClaim(c)'
    BY <2>1 DEF MayClaim, HasClaim
  <2> QED BY <2>1, <2>2 DEF Stored
<1>12. ASSUME NEW c \in Peers,
              \/ Open(c) \/ Close(c) \/ Frame(c) \/ ChangeLevel(c) \/ Revalidate(c)
              \/ Authority(c) \/ Level(c) \/ Holder(c) \/ Yield(c) \/ YieldNext(c)
              \/ Look(c) \/ Alive(c)
       PROVE  Stored
  <2>1. UNCHANGED <<key, claim, beats, holdings>>
    BY <1>12 DEF Open, Close, Frame, ChangeLevel, Revalidate, Authority, Level, Holder, Yield,
       YieldNext, Look, Alive, Redis, Room
  <2> QED BY <1>1, <2>1
<1> QED BY <1>2, <1>3, <1>4, <1>5, <1>6, <1>7, <1>8, <1>9, <1>10, <1>11, <1>12
        DEF PresenceNext, Acts

LEMMA MovesKeep ==
    ASSUME ClaimsInv, Nil \notin Peers, Stored, NEW c \in Peers, Moves(c)
    PROVE  ClaimsInv'
<1>1. \A e \in Peers : Past(e) => Past(e)'
  BY DEF Moves, Past
<1>2. ChainsOK'
  BY DEF Moves, ChainsOK, ClaimsInv
<1>3. ASSUME NEW r \in Rows, NEW e \in Peers, claim'[r] = e PROVE Past(e)'
  <2>1. Past(e)
    BY <1>3 DEF ClaimsInv, Stored
  <2> QED BY <1>1, <2>1
<1>4. ASSUME NEW d \in Peers, NEW r \in Rows, NEW e \in Peers, at'[d].held[r] = e
      PROVE  Past(e)'
  <2>1. at'[d].held[r] = at[d].held[r] \/ at'[d].held[r] = claim[r]
    BY <1>4 DEF Moves
  <2>2. Past(e)
    BY <1>4, <2>1 DEF ClaimsInv
  <2> QED BY <1>1, <2>2
<1>5. ASSUME NEW d \in Peers, at'[d].pc = "hdel" PROVE at'[d].held[at'[d].row] = d
  <2>1. at'[d] = at[d] \/ at'[d].held[at'[d].row] = d
    BY <1>5 DEF Moves
  <2>2. at[d].pc = "hdel" => at[d].held[at[d].row] = d
    BY DEF ClaimsInv
  <2> QED BY <1>5, <2>1, <2>2
<1>6. ASSUME NEW d \in Peers, at'[d].pc = "sweep", NEW r \in at'[d].stranded
      PROVE  at'[d].held[r] \in Peers \ key'
  <2>1. at'[d].held[r] \in Peers \ key
    BY <1>6 DEF Moves, ClaimsInv
  <2>2. r \in Rows /\ at[d] \in Places /\ at'[d] \in Places
    BY <1>2, <1>6 DEF ChainsOK, Places, ClaimsInv
  <2>3. at'[d].held[r] = at[d].held[r] \/ at'[d].held[r] = claim[r]
    BY <2>1, <2>2 DEF Moves
  <2>4. Past(at'[d].held[r])
    BY <2>1, <2>2, <2>3 DEF ClaimsInv
  <2> QED BY <2>1, <2>4 DEF Stored
<1>7. ASSUME NEW e \in Peers, MayClaim(e)' PROVE e \in beats'
  <2>1. CASE e = c
    <3>1. CASE MayClaim(c)
      <4>1. c \in beats
        BY <3>1 DEF ClaimsInv
      <4> QED BY <1>7, <2>1, <3>1, <4>1 DEF Stored
    <3> QED BY <1>7, <2>1, <3>1 DEF Moves
  <2>2. CASE e # c
    <3>1. MayClaim(e) /\ state'[e] = state[e]
      BY <1>7, <2>2 DEF Moves, MayClaim, Past
    <3> QED BY <1>7, <3>1 DEF ClaimsInv, Stored
  <2> QED BY <2>1, <2>2
<1> QED BY <1>2, <1>3, <1>4, <1>5, <1>6, <1>7 DEF ClaimsInv, Stored

LEMMA CrashKeeps ==
    ASSUME ClaimsInv, Nil \notin Peers, Stored, NEW s \in Servers, Crash(s)
    PROVE  ClaimsInv'
<1> DEFINE its == {c \in Peers : ServerOf[c] = s /\ state[c] \in {"open", "gone"}}
<1>1. /\ state' = [c \in Peers |-> IF c \in its THEN "dead" ELSE state[c]]
      /\ claims' = [c \in Peers |-> IF c \in its THEN {} ELSE claims[c]]
      /\ order' = [c \in Peers |-> IF c \in its THEN <<>> ELSE order[c]]
      /\ at' = [c \in Peers |-> IF c \in its THEN Fresh ELSE at[c]]
      /\ key' = key /\ claim' = claim
  BY DEF Crash, Redis
<1>9. beats' = beats \ its
  BY DEF Crash
<1> HIDE DEF its
<1>2. ChainsOK'
  <2>1. <<>> \in Seq(Jobs) /\ DOMAIN <<>> = {}
    OBVIOUS
  <2> QED BY <1>1, <2>1, FreshIsAPlace DEF ChainsOK, ChainOK, ClaimsInv, States, LeaveLast, NoLeave
<1>3. \A e \in Peers : Past(e) => Past(e)'
  BY <1>1 DEF Past, NoJoin
<1>4. ASSUME NEW r \in Rows, NEW e \in Peers, claim'[r] = e PROVE Past(e)'
  BY <1>1, <1>3, <1>4 DEF ClaimsInv
<1>5. ASSUME NEW d \in Peers PROVE at'[d] = at[d] \/ at'[d] = Fresh
  BY <1>1, <1>5
<1>6. ASSUME NEW d \in Peers, NEW r \in Rows, NEW e \in Peers, at'[d].held[r] = e PROVE Past(e)'
  <2>1. at[d].held[r] = e
    BY <1>5, <1>6, FreshIsAPlace
  <2> QED BY <1>3, <1>6, <2>1 DEF ClaimsInv
<1>7. \A d \in Peers :
        /\ at'[d].pc = "hdel" => at'[d].held[at'[d].row] = d
        /\ at'[d].pc = "sweep" => \A r \in at'[d].stranded : at'[d].held[r] \in Peers \ key'
  BY <1>1, <1>5, FreshIsAPlace DEF ClaimsInv
<1>8. ASSUME NEW e \in Peers, MayClaim(e)' PROVE e \in beats'
  <2>1. e \notin its /\ order'[e] = order[e] /\ state'[e] = state[e] /\ at'[e] = at[e]
    BY <1>1, <1>8 DEF MayClaim, HasClaim
  <2>2. MayClaim(e)
    BY <1>8, <2>1 DEF MayClaim, Past
  <2> QED BY <2>1, <2>2, <1>9 DEF ClaimsInv
<1> QED BY <1>2, <1>4, <1>6, <1>7, <1>8 DEF ClaimsInv, Stored

LEMMA ClaimsStep ==
    ASSUME ClaimsInv, Nil \notin Peers, [PresenceNext]_presenceVars
    PROVE  ClaimsInv'
<1>1. ASSUME UNCHANGED presenceVars PROVE ClaimsInv'
  BY <1>1 DEF presenceVars, ClaimsInv, ChainsOK, Past, MayClaim
<1>2. ASSUME PresenceNext PROVE ClaimsInv'
  <2>1. Stored /\ ChainsOK /\ claim \in Holders
    BY <1>2, RedisStored DEF ClaimsInv
  <2>2. ASSUME NEW c \in Peers,
               \/ Open(c) \/ Close(c) \/ Frame(c) \/ ChangeLevel(c) \/ Acts(c)
               \/ Revalidate(c) \/ ExpireKey(c) \/ Lapse(c) \/ Fail(c)
        PROVE  ClaimsInv'
    BY <2>1, <2>2, ActsMove, OthersMove, MovesKeep
  <2>3. ASSUME NEW r \in Rows, ExpireClaim(r) PROVE ClaimsInv'
    <3>1. UNCHANGED <<state, order, at, claims>>
      BY <2>3 DEF ExpireClaim
    <3>2. CASE \E c \in Peers : TRUE
      BY <2>1, <3>1, <3>2, Stays, MovesKeep
    <3>3. CASE Peers = {}
      BY <2>1, <3>1, <3>3 DEF ClaimsInv, Stored, ChainsOK, Holders
    <3> QED BY <3>2, <3>3
  <2> QED BY <1>2, <2>1, <2>2, <2>3, CrashKeeps DEF PresenceNext
<1> QED BY <1>1, <1>2

LEMMA ClaimsInit == ASSUME Nil \notin Peers, PresenceInit PROVE ClaimsInv
<1>1. <<>> \in Seq(Jobs) /\ DOMAIN <<>> = {}
  OBVIOUS
<1>2. ChainsOK
  BY <1>1, FreshIsAPlace DEF PresenceInit, ChainsOK, ChainOK, States, LeaveLast, NoLeave
<1> QED BY <1>2, FreshIsAPlace DEF PresenceInit, ClaimsInv, Nobody, Holders, MayClaim, Past

(* presence.store.ts: whoever a claim names has joined and will not again, *)
(* a release under way read its own claim, and a sweep's stranded claims   *)
(* are of connections that are gone for good.                              *)
THEOREM ClaimsFit == PresenceSpec => []ClaimsInv
<1>1. Nil \notin Peers
  BY PresenceAssumption
<1>2. ClaimsInv /\ [PresenceNext]_presenceVars => ClaimsInv'
  BY <1>1, ClaimsStep
<1>3. PresenceInit => ClaimsInv
  BY <1>1, ClaimsInit
<1> QED BY <1>2, <1>3, PTL DEF PresenceSpec

(* presence.store.ts: "first writer wins, and only if nobody live holds    *)
(* it", "Only the holder may release", "must not drop the claim of a       *)
(* surviving analyst": whatever the connections, servers, rows and faults. *)
THEOREM ClaimsStay == PresenceSpec => LivingClaimsStay
<1>1. Nil \notin Peers
  BY PresenceAssumption
<1> DEFINE Stay(r, c) ==
       (claim[r] = c /\ r \in holdings[c] /\ claim'[r] # c) =>
           \E d \in Peers, x \in Peers : Deletes(d, r, x) /\ (d = c \/ x # c)
<1>2. ASSUME ClaimsInv, [PresenceNext]_presenceVars, NEW r \in Rows, NEW c \in key \cap key'
      PROVE  Stay(r, c)
  <2> SUFFICES ASSUME claim[r] = c, r \in holdings[c], claim'[r] # c
               PROVE  \E d \in Peers, x \in Peers : Deletes(d, r, x) /\ (d = c \/ x # c)
    OBVIOUS
  <2>1. c \in Peers /\ c # Nil /\ c \in beats
    BY <1>1, <1>2 DEF ClaimsInv
  <2>2. ASSUME NEW d \in Peers, Release(d) PROVE at[d].pc = "hdel" /\ at[d].row = r /\ at[d].held[r] = d
    BY <1>2, <2>2 DEF Release, ClaimsInv
  <2>3. ASSUME NEW d \in Peers, Remove(d) PROVE at[d].pc = "tx" /\ r \in at[d].mine
    BY <1>2, <2>3 DEF Remove, Does
  <2>4. ASSUME NEW d \in Peers, Sweep(d)
        PROVE  /\ at[d].pc = "sweep" /\ r \in at[d].stranded
               /\ at[d].held[r] \in Peers /\ at[d].held[r] # c
    BY <1>2, <2>4 DEF Sweep, ClaimsInv
  <2>5. ASSUME NEW d \in Peers, Claim(d) \/ Fail(d) PROVE FALSE
    <3>1. \/ claim' = claim
          \/ claim' = [claim EXCEPT ![at[d].row] = d] /\ Takeable(d, at[d].row)
      BY <2>5 DEF Claim, Fail, Redis
    <3> QED BY <1>2, <2>1, <3>1 DEF Takeable, ClaimsInv, Holders
  <2>6. ASSUME NEW d \in Peers, Lapse(d) PROVE FALSE
    <3>1. d # c
      BY <1>2, <2>6 DEF Lapse
    <3>2. Refreshed(d, r)
      BY <1>2, <2>1, <3>1 DEF Refreshed
    <3> QED BY <1>2, <2>6, <3>2 DEF Lapse
  <2>7. ASSUME NEW x \in Rows, ExpireClaim(x) PROVE FALSE
    BY <1>2, <2>1, <2>7 DEF ExpireClaim, ClaimsInv, Holders
  <2>8. ASSUME UNCHANGED claim PROVE FALSE
    BY <2>8
  <2>9. ASSUME NEW d \in Peers,
               \/ Open(d) \/ Close(d) \/ Frame(d) \/ ChangeLevel(d) \/ Revalidate(d)
               \/ Authority(d) \/ Level(d) \/ Holder(d) \/ Yield(d) \/ YieldNext(d)
               \/ Look(d) \/ Alive(d) \/ JoinRoster(d) \/ LeaveRoster(d) \/ ExpireKey(d)
        PROVE  FALSE
    <3>1. UNCHANGED claim
      BY <2>9 DEF Open, Close, Frame, ChangeLevel, Revalidate, Authority, Level, Holder, Yield,
         YieldNext, Look, Alive, JoinRoster, LeaveRoster, ExpireKey, Redis
    <3> QED BY <2>8, <3>1
  <2>10. PICK d \in Peers : Release(d) \/ Remove(d) \/ Sweep(d)
    <3>1. ~UNCHANGED presenceVars
      BY <2>8 DEF presenceVars
    <3>2. ASSUME NEW s \in Servers, Crash(s) PROVE FALSE
      BY <2>8, <3>2 DEF Crash, Redis
    <3> QED BY <1>2, <2>5, <2>6, <2>7, <2>9, <3>1, <3>2 DEF PresenceNext, Acts
  <2>11. CASE Release(d)
    BY <2>2, <2>11 DEF Deletes
  <2>12. CASE Remove(d)
    BY <2>3, <2>12 DEF Deletes
  <2>13. CASE Sweep(d)
    BY <2>4, <2>13 DEF Deletes
  <2> QED BY <2>10, <2>11, <2>12, <2>13
<1>3. ClaimsInv /\ [PresenceNext]_presenceVars
        => [\A r \in Rows, c \in key \cap key' : Stay(r, c)]_presenceVars
  BY <1>2
<1>4. ClaimsInv /\ [PresenceNext]_presenceVars => ClaimsInv'
  BY <1>1, ClaimsStep
<1>5. PresenceInit => ClaimsInv
  BY <1>1, ClaimsInit
<1> QED BY <1>3, <1>4, <1>5, PTL DEF PresenceSpec, LivingClaimsStay
=============================================================================
