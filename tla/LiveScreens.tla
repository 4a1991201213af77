----------------------------- MODULE LiveScreens -----------------------------
(***************************************************************************)
(* How a write reaches the screens open on a case: the announcement over   *)
(* Redis, the room one server keeps for the case                           *)
(* (server/src/live/case-channel.service.ts, presence.store.ts subscribe,  *)
(* live.gateway.ts open and close), the socket of a browser tab            *)
(* (ui/src/api/caseSocket.ts) and the reading again of what it shows       *)
(* (ui/src/api/useCaseChanges.ts).                                         *)
(*                                                                         *)
(* The case is its number of writes, and a screen shows the number it last *)
(* read: every scope is one, so an announcement invalidates all a screen   *)
(* shows.  Writes are committed by any server; the room is that of one.    *)
(***************************************************************************)
EXTENDS Integers, Sequences, FiniteSets

CONSTANTS
    Screens,      \* browser tabs open on the case
    MaxWrites,    \* bound: how many writes are committed
    MaxDrops,     \* bound: how often one tab's connection breaks
    MaxFails,     \* bound: how many reads of one tab fail
    None

ASSUME BoundsAssumption ==
    MaxWrites \in Nat /\ MaxDrops \in Nat /\ MaxFails \in Nat

(* The connections a tab makes, one after the other.                       *)
Conns == Screens \X (1..MaxDrops + 1)

ASSUME NoneAssumption == None \notin Conns

VARIABLES
    case,        \* how many writes are committed
    unsaid,      \* those whose announcement is not published yet
    redis,       \* whether Redis holds the server's subscription
    cmds,        \* commands on the server's reader connection, not yet executed
    wire,        \* what Redis has pushed to the server: acknowledgements and changes
    room,        \* CaseChannel.local: the connections of the case
    promise,     \* CaseChannel.subscriptions: the subscription's owner, or None
    acked,       \* subscriptions Redis has confirmed and nobody has attached
    listeners,   \* PresenceStore.listeners of the channel
    leaving,     \* subscriptions whose teardown is about to run
    member,      \* per connection: "none", "joining", "joined" or "left"
    waits,       \* per connection, the subscription its join waits for
    closed,      \* connections whose close the server has seen
    alive,       \* connections whose two ends can still reach each other
    frames,      \* per connection, announcements on their way to the tab
    tab,         \* per screen, the state of its link and of the hook
    unheard      \* per connection, how much was written that nothing tells it of;
                 \* no state of the code

vars == <<case, unsaid, redis, cmds, wire, room, promise, acked, listeners, leaving,
          member, waits, closed, alive, frames, tab, unheard>>

serverVars == <<redis, cmds, wire, room, promise, acked, listeners, leaving,
                member, waits, closed>>

-----------------------------------------------------------------------------
(* Link and useCaseChanges: link and gen are the socket; down and drops    *)
(* are socket.current; fetch is the read under way and watch the drops at  *)
(* which a read that may call the screen current was asked for (-1: while  *)
(* it was down).  since is no state of the code: how much was written when *)
(* the link last came up.                                                  *)
NewTab == [link |-> "connecting", gen |-> 1, down |-> TRUE, drops |-> 1,
           wasDown |-> TRUE, dropped |-> FALSE, timer |-> FALSE,
           catchingUp |-> FALSE, fetch |-> "none", took |-> 0, watch |-> {},
           shown |-> 0, behind |-> FALSE, failed |-> FALSE, errored |-> FALSE,
           fails |-> 0, since |-> 0]

Init ==
    /\ case = 0 /\ unsaid = 0
    /\ redis = FALSE /\ cmds = <<>> /\ wire = <<>>
    /\ room = {} /\ promise = None /\ acked = {} /\ listeners = {} /\ leaving = {}
    /\ member = [c \in Conns |-> "none"]
    /\ waits = [c \in Conns |-> None]
    /\ closed = {} /\ alive = {}
    /\ frames = [c \in Conns |-> 0]
    /\ tab = [s \in Screens |-> NewTab]
    /\ unheard = [c \in Conns |-> 0]

ConnOf(s) == <<s, tab[s].gen>>

-----------------------------------------------------------------------------
(* A write commits, and is announced after its commit.                     *)
Write ==
    /\ case < MaxWrites
    /\ case' = case + 1
    /\ unsaid' = unsaid + 1
    /\ UNCHANGED <<serverVars, alive, frames, tab, unheard>>

(* An announcement, as Redis pushes it.                                    *)
Change == <<"change", None>>

Announced ==
    /\ unsaid > 0
    /\ unsaid' = unsaid - 1
    /\ UNCHANGED <<case, redis, cmds, room, promise, acked, listeners, leaving,
                   member, waits, closed, alive, frames, tab>>

Announce ==
    /\ Announced
    /\ wire' = IF redis THEN Append(wire, Change) ELSE wire
    /\ UNCHANGED unheard

(* A publish that fails is logged, and the write stays.                    *)
AnnounceFails ==
    /\ Announced
    /\ unheard' = [c \in Conns |-> case - unsaid']
    /\ UNCHANGED wire

-----------------------------------------------------------------------------
(* The gateway and the room.  A subscription is named by the connection    *)
(* that asked for it; a store that already has a listener for the channel  *)
(* attaches the next without asking Redis.                                 *)

(* Mutant: the subscription is remembered once it is ready. *)
JoinForgetting(c) ==
    /\ room' = room \cup {c}
    /\ waits' = [waits EXCEPT ![c] = IF promise = None THEN c ELSE promise]
    /\ IF promise # None
       THEN UNCHANGED <<promise, listeners, cmds>>
       ELSE /\ promise' = None
            /\ IF listeners # {}
               THEN listeners' = listeners \cup {c} /\ UNCHANGED cmds
               ELSE cmds' = Append(cmds, <<"subscribe", c>>) /\ UNCHANGED listeners

Join(c) ==
    /\ room' = room \cup {c}
    /\ waits' = [waits EXCEPT ![c] = IF promise = None THEN c ELSE promise]
    /\ IF promise # None
       THEN UNCHANGED <<promise, listeners, cmds>>
       ELSE /\ promise' = c
            /\ IF listeners # {}
               THEN listeners' = listeners \cup {c} /\ UNCHANGED cmds
               ELSE cmds' = Append(cmds, <<"subscribe", c>>) /\ UNCHANGED listeners

Accept(s) ==
    LET c == ConnOf(s)
    IN  /\ tab[s].link = "connecting"
        /\ member[c] = "none"
        /\ member' = [member EXCEPT ![c] = "joining"]
        /\ alive' = alive \cup {c}
        /\ Join(c)
        /\ UNCHANGED <<case, unsaid, unheard, redis, wire, acked, leaving, closed, frames, tab>>

(* The acknowledgement resolves store.subscribe, which then attaches.      *)
Attach(c) ==
    /\ c \in acked
    /\ acked' = acked \ {c}
    /\ listeners' = {c}
    /\ UNCHANGED <<case, unsaid, unheard, redis, cmds, wire, room, promise, leaving, member,
                   waits, closed, alive, frames, tab>>

Joined(c) ==
    /\ member[c] = "joining"
    /\ waits[c] \in listeners
    /\ member' = [member EXCEPT ![c] = "joined"]
    /\ unheard' = [unheard EXCEPT ![c] = case - unsaid]
    /\ UNCHANGED <<case, unsaid, redis, cmds, wire, room, promise, acked, listeners,
                   leaving, waits, closed, alive, frames, tab>>

Closed(c) ==
    /\ member[c] \in {"joining", "joined"}
    /\ c \notin alive /\ c \notin closed
    /\ closed' = closed \cup {c}
    /\ UNCHANGED <<case, unsaid, unheard, redis, cmds, wire, room, promise, acked, listeners,
                   leaving, member, waits, alive, frames, tab>>

(* Mutant: a connection leaves without waiting for its own join. *)
MayLeaveAtOnce(c) == c \in closed /\ member[c] \in {"joining", "joined"}

(* The end of a connection comes after its own join.                       *)
MayLeave(c) == c \in closed /\ member[c] = "joined"

(* Mutant: the last member leaves and its room's subscription stays. *)
LeaveKeeping(c) ==
    /\ MayLeave(c)
    /\ member' = [member EXCEPT ![c] = "left"]
    /\ room' = room \ {c}
    /\ UNCHANGED <<case, unsaid, unheard, redis, cmds, wire, promise, acked, listeners, leaving,
                   waits, closed, alive, frames, tab>>

Leave(c) ==
    /\ MayLeave(c)
    /\ member' = [member EXCEPT ![c] = "left"]
    /\ room' = room \ {c}
    /\ IF room' = {} /\ promise # None
       THEN promise' = None /\ leaving' = leaving \cup {promise}
       ELSE UNCHANGED <<promise, leaving>>
    /\ UNCHANGED <<case, unsaid, unheard, redis, cmds, wire, acked, listeners, waits, closed,
                   alive, frames, tab>>

(* Mutant: the channel is given up whoever else listens. *)
TeardownAlways(c) ==
    /\ c \in leaving
    /\ leaving' = leaving \ {c}
    /\ listeners' = listeners \ {c}
    /\ cmds' = Append(cmds, <<"unsubscribe", c>>)
    /\ UNCHANGED <<case, unsaid, unheard, redis, wire, room, promise, acked, member, waits,
                   closed, alive, frames, tab>>

(* What store.subscribe returned: the channel is given up with its last    *)
(* listener.                                                               *)
Teardown(c) ==
    /\ c \in leaving
    /\ leaving' = leaving \ {c}
    /\ listeners' = listeners \ {c}
    /\ cmds' = IF listeners' = {} THEN Append(cmds, <<"unsubscribe", c>>) ELSE cmds
    /\ UNCHANGED <<case, unsaid, unheard, redis, wire, room, promise, acked, member, waits,
                   closed, alive, frames, tab>>

-----------------------------------------------------------------------------
(* Redis executes one connection's commands in order and pushes in order.  *)
RedisDoes ==
    /\ cmds # <<>>
    /\ cmds' = Tail(cmds)
    /\ redis' = (Head(cmds)[1] = "subscribe")
    /\ wire' = IF redis' THEN Append(wire, <<"ack", Head(cmds)[2]>>) ELSE wire
    /\ UNCHANGED <<case, unsaid, unheard, room, promise, acked, listeners, leaving, member,
                   waits, closed, alive, frames, tab>>

(* A push arrives: relay sends an announcement to every connection of the  *)
(* room, once for each listener of the channel.                            *)
Arrives ==
    /\ wire # <<>>
    /\ wire' = Tail(wire)
    /\ IF Head(wire) = Change
       THEN /\ frames' = [c \in Conns |->
                             IF c \in room \cap alive
                             THEN frames[c] + Cardinality(listeners) ELSE frames[c]]
            /\ UNCHANGED acked
       ELSE acked' = acked \cup {Head(wire)[2]} /\ UNCHANGED frames
    /\ UNCHANGED <<case, unsaid, unheard, redis, cmds, room, promise, listeners, leaving,
                   member, waits, closed, alive, tab>>

-----------------------------------------------------------------------------
(* A connection breaks: what was on its way is lost, and each end learns   *)
(* of it in its own time.                                                  *)
Break(s) ==
    LET c == ConnOf(s)
    IN  /\ c \in alive
        /\ tab[s].gen <= MaxDrops
        /\ alive' = alive \ {c}
        /\ frames' = [frames EXCEPT ![c] = 0]
        /\ UNCHANGED <<case, unsaid, unheard, serverVars, tab>>

Sets(s, t) ==
    /\ tab' = [tab EXCEPT ![s] = t]
    /\ UNCHANGED <<case, unsaid, unheard, serverVars, alive>>

(* Mutant: a tab that comes back reads nothing again. *)
OpenedIdle(s) ==
    /\ tab[s].link = "connecting"
    /\ ConnOf(s) \in alive
    /\ Sets(s, [tab[s] EXCEPT !.link = "up", !.down = FALSE, !.wasDown = FALSE,
                              !.dropped = FALSE, !.since = case])
    /\ UNCHANGED frames

(* onopen: a tab that was down reads everything again, shortly.            *)
Opened(s) ==
    /\ tab[s].link = "connecting"
    /\ ConnOf(s) \in alive
    /\ Sets(s, [tab[s] EXCEPT !.link = "up", !.down = FALSE, !.wasDown = FALSE,
                              !.catchingUp = tab[s].dropped, !.dropped = FALSE,
                              !.timer = TRUE, !.since = case])
    /\ UNCHANGED frames

(* onclose: the screen is behind from here on.                             *)
Dropped(s) ==
    /\ tab[s].link \in {"connecting", "up"}
    /\ member[ConnOf(s)] # "none" /\ ConnOf(s) \notin alive
    /\ Sets(s, [tab[s] EXCEPT !.link = "down", !.down = TRUE, !.wasDown = TRUE,
                              !.drops = @ + 1, !.dropped = TRUE,
                              !.behind = TRUE, !.failed = tab[s].behind /\ @])
    /\ UNCHANGED frames

(* The retry timer of Link.                                                *)
Reconnect(s) ==
    /\ tab[s].link = "down"
    /\ Sets(s, [tab[s] EXCEPT !.link = "connecting", !.gen = @ + 1])
    /\ UNCHANGED frames

(* Mutant: an announcement that comes while a read is out is left to it. *)
ToldInPassing(s) ==
    /\ frames[ConnOf(s)] > 0
    /\ tab[s].link = "up"
    /\ frames' = [frames EXCEPT ![ConnOf(s)] = @ - 1]
    /\ Sets(s, [tab[s] EXCEPT !.timer = @ \/ tab[s].fetch = "none"])

(* An announcement reaches the tab.                                        *)
Told(s) ==
    /\ frames[ConnOf(s)] > 0
    /\ tab[s].link = "up"
    /\ frames' = [frames EXCEPT ![ConnOf(s)] = @ - 1]
    /\ Sets(s, [tab[s] EXCEPT !.timer = TRUE])

Asked(t) == IF t.down THEN -1 ELSE t.drops

(* settle: what moved is read again; an earlier read still out is given up *)
(* and whoever waited for it waits for this one.                           *)
Settle(s) ==
    /\ tab[s].timer
    /\ Sets(s, [tab[s] EXCEPT !.timer = FALSE, !.fetch = "asked",
                    !.catchingUp = FALSE,
                    !.watch = IF tab[s].catchingUp THEN @ \cup {Asked(tab[s])} ELSE @])
    /\ UNCHANGED frames

(* The analyst presses "read again".                                       *)
Reread(s) ==
    /\ tab[s].failed
    /\ Sets(s, [tab[s] EXCEPT !.failed = FALSE, !.fetch = "asked",
                              !.watch = @ \cup {Asked(tab[s])}])
    /\ UNCHANGED frames

(* The server reads the case for the tab.                                  *)
Served(s) ==
    /\ tab[s].fetch = "asked"
    /\ Sets(s, [tab[s] EXCEPT !.fetch = "served", !.took = case])
    /\ UNCHANGED frames

(* Mutant: any read that lands calls the screen current. *)
LatestAlways(t) == t.watch # {}

(* The read a drop called for was asked for since the last drop.           *)
Latest(t) == ~ t.down /\ t.drops \in t.watch

(* Mutant: the read that lands leaves the mark where it was. *)
LandsQuietly(s) ==
    /\ tab[s].fetch = "served"
    /\ Sets(s, [tab[s] EXCEPT !.fetch = "none", !.shown = @, !.errored = FALSE,
                              !.watch = {}, !.took = 0])
    /\ UNCHANGED frames

Lands(s) ==
    /\ tab[s].fetch = "served"
    /\ Sets(s, [tab[s] EXCEPT !.fetch = "none", !.shown = tab[s].took, !.took = 0,
                              !.errored = FALSE, !.watch = {},
                              !.behind = @ /\ ~ Latest(tab[s]),
                              !.failed = @ /\ ~ Latest(tab[s])])
    /\ UNCHANGED frames

Fails(s) ==
    /\ tab[s].fetch # "none"
    /\ tab[s].fails < MaxFails
    /\ Sets(s, [tab[s] EXCEPT !.fetch = "none", !.took = 0, !.errored = TRUE,
                              !.watch = {}, !.fails = @ + 1,
                              !.behind = @ \/ Latest(tab[s]),
                              !.failed = @ \/ Latest(tab[s])])
    /\ UNCHANGED frames

-----------------------------------------------------------------------------
Server(c) == Attach(c) \/ Joined(c) \/ Closed(c) \/ Leave(c) \/ Teardown(c)

Tab(s) ==
    \/ Accept(s) \/ Opened(s) \/ Dropped(s) \/ Reconnect(s) \/ Told(s)
    \/ Settle(s) \/ Served(s) \/ Lands(s)

Next ==
    \/ Write \/ Announce \/ AnnounceFails \/ RedisDoes \/ Arrives
    \/ \E c \in Conns : Server(c)
    \/ \E s \in Screens : Tab(s) \/ Break(s) \/ Fails(s) \/ Reread(s)

Spec == Init /\ [][Next]_vars

(* Node and the browser run what is due; Redis and the network deliver.    *)
FairSpec ==
    /\ Spec
    /\ WF_vars(Announce \/ AnnounceFails) /\ WF_vars(RedisDoes) /\ WF_vars(Arrives)
    /\ \A c \in Conns : WF_vars(Server(c))
    /\ \A s \in Screens :
          /\ WF_vars(Accept(s)) /\ WF_vars(Opened(s)) /\ WF_vars(Dropped(s))
          /\ WF_vars(Reconnect(s)) /\ WF_vars(Told(s)) /\ WF_vars(Settle(s))
          /\ WF_vars(Served(s)) /\ WF_vars(Lands(s))

-----------------------------------------------------------------------------
(* PROPERTIES *)

(* Every variable has its type; a broken connection carries nothing, and   *)
(* a subscription is remembered exactly while somebody is in the room.     *)
TypeOK ==
    /\ case \in 0..MaxWrites /\ unsaid \in 0..case
    /\ room \subseteq Conns /\ alive \subseteq Conns /\ closed \subseteq Conns
    /\ promise \in Conns \cup {None} /\ (promise = None <=> room = {})
    /\ \A c \in Conns : member[c] \in {"none", "joining", "joined", "left"}
    /\ \A c \in Conns : frames[c] \in Nat /\ (c \notin alive => frames[c] = 0)
    /\ \A s \in Screens : tab[s].shown \in 0..case /\ tab[s].took \in 0..case

(* Whether Redis will hold the subscription once it has executed what it   *)
(* was sent.                                                               *)
WillListen ==
    IF cmds = <<>> THEN redis ELSE cmds[Len(cmds)][1] = "subscribe"

(* A room with a member in it hears: however connections come and go, the  *)
(* channel is subscribed and has one listener, so that nothing is missed   *)
(* and no frame is relayed twice.                                          *)
RoomsHear ==
    \A c \in Conns :
        (member[c] = "joined" /\ leaving = {}) =>
            WillListen /\ Cardinality(listeners) = 1

(* The room, its subscription and its promise are well formed, and hear.    *)
RoomsKept == TypeOK /\ RoomsHear

(* Something is on its way that makes the screen read what it is missing,  *)
(* or say that it is behind.                                               *)
Owed(s) ==
    LET t == tab[s] c == ConnOf(s)
    IN  \/ t.timer
        \/ t.fetch = "asked" \/ (t.fetch = "served" /\ t.took = case)
        \/ t.link = "connecting"
        \/ c \notin alive
        \/ frames[c] > 0
        \/ unsaid > 0
        \/ \E i \in DOMAIN wire : wire[i] = Change

(* A screen that calls itself current, and whose read did not fail, lacks  *)
(* something.                                                              *)
Stale(s) == ~ tab[s].behind /\ ~ tab[s].errored /\ tab[s].shown # case

(* Something was written since the tab's connection joined the room, and   *)
(* published, or will be.                                                  *)
Hears(s) == member[ConnOf(s)] = "joined" /\ case > unheard[ConnOf(s)]

(* openspec live: "MUST NOT present a screen as current when it cannot     *)
(* know that it is".  The tab reads as its socket opens, and nothing waits *)
(* for the gateway to have joined the connection to its room by then.      *)
CurrentOrTold == \A s \in Screens : Stale(s) => Owed(s)

(* A screen that calls itself current shows the case as it is, or is about *)
(* to be told, from the first write on that is published after its         *)
(* connection joined the room.                                             *)
JoinedIsTold == \A s \in Screens : Stale(s) /\ Hears(s) => Owed(s)

(* A screen stops saying that it is behind only with its connection up and *)
(* what was written while it was down read.                                *)
BehindUntilRead ==
    [][\A s \in Screens :
          (tab[s].behind /\ ~ tab'[s].behind) =>
              tab'[s].link = "up" /\ tab'[s].shown >= tab[s].since]_vars

(* When connections stop breaking and reads stop failing, every screen     *)
(* comes to show the case, or what nothing more told it of, and to say     *)
(* that it is live, unless it says that its read failed.                   *)
ScreensCatchUp ==
    \A s \in Screens :
        <>[](\/ ~ tab[s].behind /\ (tab[s].shown = case \/ ~ Hears(s))
             \/ tab[s].failed \/ tab[s].errored)
=============================================================================
