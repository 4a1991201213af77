--------------------------- MODULE PresenceClaims ---------------------------
(***************************************************************************)
(* Who is on a case, and who is editing which row: what the connections of *)
(* several servers keep in Redis (server/src/live/presence.store.ts), the  *)
(* order in which a connection acts (live.gateway.ts open, onFrame,        *)
(* onClaim) and the sweep that ends or restrains one whose analyst no      *)
(* longer has the case.                                                    *)
(*                                                                         *)
(* One Redis command, or one MULTI or script, is a step, and so is what a  *)
(* server does between two awaits.  A roster is the members whose key      *)
(* exists; the set of ids beside the keys is corrected as it is read and   *)
(* an id is used once, so it is left out.                                  *)
(***************************************************************************)
EXTENDS Integers, Sequences

CONSTANTS
    Peers,        \* the connections opened on the case
    Editors,      \* bound: those whose analyst claims and releases rows
    Rows,         \* its rows
    Servers, ServerOf,   \* the processes, and the one that holds a connection
    MaxFrames,    \* bound: how many claims and releases are sent
    MaxLevels,    \* bound: how often an analyst's level on the case changes
    MaxFaults,    \* bound: member keys that lapse under a failing heartbeat,
                  \* commands and reads that are rejected, processes killed
    Nil

ASSUME PresenceAssumption ==
    /\ Nil \notin Peers /\ Editors \subseteq Peers /\ ServerOf \in [Peers -> Servers]
    /\ {MaxFrames, MaxLevels, MaxFaults} \subseteq Nat

VARIABLES
    key,         \* Redis: connections whose member key exists
    claim,       \* Redis: the connection each row's claim names, or Nil
    beats,       \* connections whose heartbeat runs
    holdings,    \* PresenceStore.holdings: the rows a heartbeat refreshes
    state,       \* a connection: "new", "open", "gone" or "dead"
    claims,      \* the rows open() counts as held by the connection
    order,       \* what a connection has still to do, its head under way
    at,          \* where the head is, and what it has read
    level,       \* what the analyst of a connection may do on the case
    spent        \* how much of each bound is used, and whether a command failed

presenceVars == <<key, claim, beats, holdings, state, claims, order, at, level, spent>>

Levels == {"none", "read", "write"}

Nobody == [r \in Rows |-> Nil]

Fresh == [pc |-> "start", row |-> Nil, held |-> Nobody, stranded |-> {}, mine |-> {},
          last |-> FALSE]

PresenceInit ==
    /\ key = {} /\ claim = Nobody
    /\ beats = {}
    /\ holdings = [c \in Peers |-> {}]
    /\ state = [c \in Peers |-> "new"]
    /\ claims = [c \in Peers |-> {}]
    /\ order = [c \in Peers |-> <<>>]
    /\ at = [c \in Peers |-> Fresh]
    /\ level = [c \in Peers |-> "write"]
    /\ spent = [frames |-> 0, levels |-> 0, faults |-> 0, failed |-> FALSE]

-----------------------------------------------------------------------------
Job(do, r) == [do |-> do, row |-> r]

Does(c, do, pc) == order[c] # <<>> /\ Head(order[c]).do = do /\ at[c].pc = pc

Goes(c, step) == at' = [at EXCEPT ![c] = step]

To(c, pc) == Goes(c, [at[c] EXCEPT !.pc = pc])

(* The head is done, and the rest of the chain is q.                       *)
Done(c, q) == order' = [order EXCEPT ![c] = q] /\ Goes(c, Fresh)

Appended(c, do) == [order EXCEPT ![c] = Append(@, Job(do, Nil))]

Redis == <<key, claim>>
Room == <<beats, holdings>>

-----------------------------------------------------------------------------
(* open(), after check() admitted the upgrade: everything waits behind the *)
(* join.                                                                   *)
Open(c) ==
    /\ state[c] = "new" /\ level[c] # "none"
    /\ state' = [state EXCEPT ![c] = "open"]
    /\ order' = [order EXCEPT ![c] = <<Job("join", Nil)>>]
    /\ UNCHANGED <<Redis, Room, claims, at, level, spent>>

(* Mutant: a close leaves at once, whatever is still to be done. *)
ClosingAtOnce(c) ==
    /\ state' = [state EXCEPT ![c] = "gone"]
    /\ order' = [order EXCEPT ![c] = <<Job("leave", Nil)>> \o @]

(* close(): once, and the end comes behind everything that arrived.        *)
Closing(c) ==
    /\ state' = [state EXCEPT ![c] = "gone"]
    /\ order' = Appended(c, "leave")

Close(c) ==
    /\ state[c] = "open"
    /\ Closing(c)
    /\ UNCHANGED <<Redis, Room, claims, at, level, spent>>

(* The analyst opens a row for editing, or closes it.                      *)
Frame(c) ==
    /\ c \in Editors /\ state[c] = "open" /\ spent.frames < MaxFrames
    /\ \E do \in {"claim", "release"}, r \in Rows :
          order' = [order EXCEPT ![c] = Append(@, Job(do, r))]
    /\ spent' = [spent EXCEPT !.frames = @ + 1]
    /\ UNCHANGED <<Redis, Room, state, claims, at, level>>

ChangeLevel(c) ==
    /\ spent.levels < MaxLevels
    /\ \E l \in Levels \ {level[c]} : level' = [level EXCEPT ![c] = l]
    /\ spent' = [spent EXCEPT !.levels = @ + 1]
    /\ UNCHANGED <<Redis, Room, state, claims, order, at>>

-----------------------------------------------------------------------------
(* The chain of one connection.                                            *)

(* PresenceStore.join: the key and the id in one MULTI, then the heartbeat. *)
JoinRoster(c) ==
    /\ Does(c, "join", "start")
    /\ key' = key \cup {c} /\ beats' = beats \cup {c}
    /\ To(c, "look")
    /\ UNCHANGED <<claim, holdings, state, claims, order, level, spent>>

(* Every frame asks whether its session still covers the connection.       *)
Authority(c) ==
    LET job == Head(order[c])
    IN  /\ order[c] # <<>> /\ job.do \in {"claim", "release"} /\ at[c].pc = "start"
        /\ IF level[c] = "none" /\ state[c] = "open"
           THEN /\ state' = [state EXCEPT ![c] = "gone"]
                /\ Done(c, Append(Tail(order[c]), Job("leave", Nil)))
                /\ UNCHANGED claims
           ELSE IF level[c] = "none" THEN Done(c, Tail(order[c])) /\ UNCHANGED <<state, claims>>
           ELSE /\ order' = IF level[c] = "read" THEN Appended(c, "yield") ELSE order
                /\ Goes(c, [Fresh EXCEPT !.pc = IF job.do = "claim" THEN "level" ELSE "hget",
                                         !.row = job.row])
                /\ claims' = [claims EXCEPT ![c] = IF job.do = "claim" THEN @ ELSE @ \ {job.row}]
                /\ UNCHANGED state
        /\ UNCHANGED <<Redis, Room, level, spent>>

(* onClaim: a claim takes write on the case.                               *)
Level(c) ==
    /\ Does(c, "claim", "level")
    /\ IF level[c] # "write"
       THEN Done(c, Tail(order[c])) /\ UNCHANGED claims
       ELSE /\ claims' = [claims EXCEPT ![c] = @ \cup {at[c].row}]
            /\ To(c, "eval") /\ UNCHANGED order
    /\ UNCHANGED <<Redis, Room, state, level, spent>>

(* Mutant: a row somebody holds is taken. *)
TakeableAlways(c, r) == TRUE

(* CLAIM_SCRIPT: a holder whose key is gone holds nothing.                 *)
Takeable(c, r) == claim[r] \in {Nil, c} \/ claim[r] \notin key

Claim(c) ==
    LET r == at[c].row
    IN  /\ Does(c, "claim", "eval")
        /\ IF Takeable(c, r)
           THEN /\ claim' = [claim EXCEPT ![r] = c]
                /\ holdings' = [holdings EXCEPT ![c] = @ \cup {r}]
           ELSE UNCHANGED <<claim, holdings>>
        /\ To(c, "look")
        /\ UNCHANGED <<key, beats, state, claims, order, level, spent>>

(* Mutant: whoever releases a row, it is released. *)
ReleasableAlways(c, r) == claim[r] # Nil

(* PresenceStore.release: only the holder's, read and then deleted.        *)
Releasable(c, r) == claim[r] = c

Holder(c) ==
    /\ order[c] # <<>> /\ at[c].pc = "hget"
    /\ Goes(c, [at[c] EXCEPT !.pc = IF Releasable(c, at[c].row) THEN "hdel" ELSE "look",
                             !.held = claim])
    /\ UNCHANGED <<Redis, Room, state, claims, order, level, spent>>

Release(c) ==
    LET r == at[c].row
    IN  /\ order[c] # <<>> /\ at[c].pc = "hdel"
        /\ claim' = [claim EXCEPT ![r] = Nil]
        /\ holdings' = [holdings EXCEPT ![c] = @ \ {r}]
        /\ Goes(c, [Fresh EXCEPT !.pc = "look"])
        /\ UNCHANGED <<key, beats, state, claims, order, level, spent>>

(* yieldClaims: the level is asked again, in order; then each row counted  *)
(* is released.                                                            *)
Yield(c) ==
    /\ Does(c, "yield", "start")
    /\ IF level[c] = "write" \/ claims[c] = {}
       THEN Done(c, Tail(order[c])) /\ UNCHANGED claims
       ELSE \E r \in claims[c] :
               /\ claims' = [claims EXCEPT ![c] = @ \ {r}]
               /\ Goes(c, [Fresh EXCEPT !.pc = "hget", !.row = r])
               /\ UNCHANGED order
    /\ UNCHANGED <<Redis, Room, state, level, spent>>

YieldNext(c) ==
    /\ Does(c, "yield", "next")
    /\ IF claims[c] = {}
       THEN Done(c, Tail(order[c])) /\ UNCHANGED claims
       ELSE \E r \in claims[c] :
               /\ claims' = [claims EXCEPT ![c] = @ \ {r}]
               /\ Goes(c, [Fresh EXCEPT !.pc = "hget", !.row = r])
               /\ UNCHANGED order
    /\ UNCHANGED <<Redis, Room, state, level, spent>>

(* Mutant: the heartbeat is left running. *)
LeaveBeating(c) ==
    /\ Does(c, "leave", "start")
    /\ holdings' = [holdings EXCEPT ![c] = {}]
    /\ Goes(c, [Fresh EXCEPT !.pc = "look", !.last = TRUE])
    /\ UNCHANGED <<Redis, beats, state, claims, order, level, spent>>

(* PresenceStore.leave: the heartbeat ends, the claims are read (Look),    *)
(* and the key goes together with those that are its own.                  *)
LeaveRoster(c) ==
    /\ Does(c, "leave", "start")
    /\ beats' = beats \ {c} /\ holdings' = [holdings EXCEPT ![c] = {}]
    /\ Goes(c, [Fresh EXCEPT !.pc = "look", !.last = TRUE])
    /\ UNCHANGED <<Redis, state, claims, order, level, spent>>

Remove(c) ==
    /\ Does(c, "leave", "tx")
    /\ key' = key \ {c}
    /\ claim' = [r \in Rows |-> IF r \in at[c].mine THEN Nil ELSE claim[r]]
    /\ Goes(c, [Fresh EXCEPT !.pc = "look"])
    /\ UNCHANGED <<Room, state, claims, order, level, spent>>

-----------------------------------------------------------------------------
(* PresenceStore.claims, read by leave() and by every announcement: the    *)
(* hash, then who is alive, then the stranded ones are deleted.  Then the  *)
(* announcement is published and the work under way goes on.               *)
Swept(c) ==
    IF at[c].last THEN To(c, "tx") /\ UNCHANGED order
    ELSE IF Head(order[c]).do = "yield" THEN To(c, "next") /\ UNCHANGED order
    ELSE Done(c, Tail(order[c]))

Look(c) ==
    /\ order[c] # <<>> /\ at[c].pc = "look"
    /\ IF claim = Nobody THEN Swept(c)
       ELSE Goes(c, [at[c] EXCEPT !.pc = "alive", !.held = claim]) /\ UNCHANGED order
    /\ UNCHANGED <<Redis, Room, state, claims, level, spent>>

Alive(c) ==
    LET held == at[c].held
        stranded == {r \in Rows : held[r] # Nil /\ held[r] \notin key}
    IN  /\ order[c] # <<>> /\ at[c].pc = "alive"
        /\ Goes(c, [at[c] EXCEPT !.pc = "sweep", !.stranded = stranded,
                                 !.mine = {r \in Rows \ stranded : held[r] = c}])
        /\ UNCHANGED <<Redis, Room, state, claims, order, level, spent>>

Sweep(c) ==
    /\ order[c] # <<>> /\ at[c].pc = "sweep"
    /\ claim' = [r \in Rows |-> IF r \in at[c].stranded THEN Nil ELSE claim[r]]
    /\ Swept(c)
    /\ UNCHANGED <<key, Room, state, claims, level, spent>>

-----------------------------------------------------------------------------
(* Mutant: a connection below write keeps what it holds. *)
RevalidateEndingOnly(c) ==
    /\ state[c] = "open" /\ level[c] = "none"
    /\ Closing(c)
    /\ UNCHANGED <<Redis, Room, claims, at, level, spent>>

(* revalidateOne, from the gateway's sweep or a change of reach.  A yield  *)
(* that has not begun stands for those queued behind it.                   *)
Revalidate(c) ==
    /\ state[c] = "open"
    /\ \/ level[c] = "none" /\ Closing(c)
       \/ /\ level[c] = "read" /\ UNCHANGED state
          /\ \A i \in DOMAIN order[c] : order[c][i].do = "yield" => i = 1 /\ at[c].pc # "start"
          /\ order' = Appended(c, "yield")
    /\ UNCHANGED <<Redis, Room, claims, at, level, spent>>

(* A key or a field that nothing refreshes expires.                        *)
ExpireKey(c) ==
    /\ c \in key \ beats
    /\ key' = key \ {c}
    /\ UNCHANGED <<claim, Room, state, claims, order, at, level, spent>>

ExpireClaim(r) ==
    /\ claim[r] # Nil /\ \A c \in beats : r \notin holdings[c]
    /\ claim' = [claim EXCEPT ![r] = Nil]
    /\ UNCHANGED <<key, Room, state, claims, order, at, level, spent>>

(* A row that another heartbeat refreshes.                                 *)
Refreshed(c, r) == \E d \in (key \cap beats) \ {c} : r \in holdings[d]

(* The heartbeats of a connection fail until its key lapses, and with it   *)
(* rows that it alone refreshed; the next one refreshes what is there and  *)
(* creates nothing.                                                        *)
Lapse(c) ==
    /\ c \in key \cap beats /\ spent.faults < MaxFaults
    /\ key' = key \ {c}
    /\ \E gone \in SUBSET {r \in holdings[c] : claim[r] # Nil /\ ~Refreshed(c, r)} :
          claim' = [r \in Rows |-> IF r \in gone THEN Nil ELSE claim[r]]
    /\ spent' = [spent EXCEPT !.faults = @ + 1]
    /\ UNCHANGED <<Room, state, claims, order, at, level>>

(* What a rejection leaves of the chain: a join that failed acts on no     *)
(* frame and its connection is closed; any other job is given up.          *)
Abandoned(c) ==
    IF Head(order[c]).do # "join" THEN UNCHANGED state /\ Done(c, Tail(order[c]))
    ELSE /\ state' = [state EXCEPT ![c] = "gone"]
         /\ Done(c, <<Job("leave", Nil)>>)

(* A command is rejected; one that was sent may have been done.            *)
Fail(c) ==
    /\ order[c] # <<>> /\ ~Does(c, "leave", "start") /\ spent.faults < MaxFaults
    /\ spent' = [spent EXCEPT !.faults = @ + 1, !.failed = TRUE]
    /\ Abandoned(c)
    /\ \/ UNCHANGED Redis
       \/ Does(c, "join", "start") /\ key' = key \cup {c} /\ UNCHANGED claim
       \/ /\ Does(c, "claim", "eval") /\ Takeable(c, at[c].row)
          /\ claim' = [claim EXCEPT ![at[c].row] = c] /\ UNCHANGED key
    /\ UNCHANGED <<Room, claims, level>>

(* A process is killed: what it kept in memory is gone with it.            *)
Crash(p) ==
    LET its == {c \in Peers : ServerOf[c] = p /\ state[c] \in {"open", "gone"}}
    IN  /\ its # {} /\ spent.faults < MaxFaults
        /\ state' = [c \in Peers |-> IF c \in its THEN "dead" ELSE state[c]]
        /\ beats' = beats \ its
        /\ holdings' = [c \in Peers |-> IF c \in its THEN {} ELSE holdings[c]]
        /\ claims' = [c \in Peers |-> IF c \in its THEN {} ELSE claims[c]]
        /\ order' = [c \in Peers |-> IF c \in its THEN <<>> ELSE order[c]]
        /\ at' = [c \in Peers |-> IF c \in its THEN Fresh ELSE at[c]]
        /\ spent' = [spent EXCEPT !.faults = @ + 1]
        /\ UNCHANGED <<Redis, level>>

-----------------------------------------------------------------------------
Acts(c) ==
    \/ JoinRoster(c) \/ Authority(c) \/ Level(c) \/ Claim(c) \/ Holder(c) \/ Release(c)
    \/ Yield(c) \/ YieldNext(c) \/ LeaveRoster(c) \/ Remove(c)
    \/ Look(c) \/ Alive(c) \/ Sweep(c)

PresenceNext ==
    \/ \E c \in Peers :
          \/ Open(c) \/ Close(c) \/ Frame(c) \/ ChangeLevel(c) \/ Acts(c)
          \/ Revalidate(c) \/ ExpireKey(c) \/ Lapse(c) \/ Fail(c)
    \/ \E r \in Rows : ExpireClaim(r)
    \/ \E p \in Servers : Crash(p)

PresenceSpec == PresenceInit /\ [][PresenceNext]_presenceVars

(* Node runs what is due, the sweep comes round, and Redis expires keys.   *)
PresenceFairSpec ==
    /\ PresenceSpec
    /\ \A c \in Peers : WF_presenceVars(Acts(c)) /\ WF_presenceVars(Revalidate(c))
    /\ WF_presenceVars(\E c \in Peers : ExpireKey(c))
    /\ \A r \in Rows : WF_presenceVars(ExpireClaim(r))

-----------------------------------------------------------------------------
(* PROPERTIES *)

(* Every variable has its type; a heartbeat and what it refreshes belong   *)
(* to a connection of a process that runs.                                 *)
PresenceTypeOK ==
    /\ key \subseteq Peers /\ claim \in [Rows -> Peers \cup {Nil}]
    /\ beats \subseteq {c \in Peers : state[c] \in {"open", "gone"}}
    /\ holdings \in [Peers -> SUBSET Rows] /\ claims \in [Peers -> SUBSET Rows]
    /\ \A c \in Peers : holdings[c] # {} => c \in beats
    /\ state \in [Peers -> {"new", "open", "gone", "dead"}] /\ level \in [Peers -> Levels]

(* Connection d is about to delete the claim of row r, having read that x  *)
(* holds it.                                                               *)
Deletes(d, r, x) ==
    \/ at[d].pc = "hdel" /\ at[d].row = r /\ x = at[d].held[r]
    \/ at[d].pc = "sweep" /\ r \in at[d].stranded /\ x = at[d].held[r]
    \/ at[d].pc = "tx" /\ r \in at[d].mine /\ x = d

(* presence.store.ts: "first writer wins, and only if nobody live holds    *)
(* it", "Only the holder may release", "must not drop the claim of a       *)
(* surviving analyst".  A claim that a living connection refreshes is      *)
(* ended by that connection, or by a delete decided while the row was      *)
(* another's.                                                              *)
LivingClaimsStay ==
    [][\A r \in Rows, c \in key \cap key' :
          (claim[r] = c /\ r \in holdings[c] /\ claim'[r] # c) =>
              \E d \in Peers, x \in Peers : Deletes(d, r, x) /\ (d = c \/ x # c)]_presenceVars

(* A connection that closed, whose process was killed, or whose analyst    *)
(* lost the case.                                                          *)
Over(c) == state[c] \in {"gone", "dead"} \/ (state[c] = "open" /\ level[c] = "none")

(* openspec live: presence expires "on its own rather than depend on a     *)
(* departure being announced".  A connection that is over leaves the       *)
(* roster for good, whatever it was in the middle of, and so do its        *)
(* claims, unless the heartbeat of another that held the row before        *)
(* refreshes them.                                                         *)
GoneIsForgotten ==
    \A c \in Peers :
        <>[]Over(c) =>
            <>[](/\ c \notin key \cup beats
                 /\ \A r \in Rows : claim[r] = c => \E d \in beats : r \in holdings[d])

(* live.gateway.ts: a connection below write "still reads, and may hold no *)
(* claim".  One whose analyst stays below write comes to hold none,        *)
(* unless a command was rejected.                                          *)
BelowWriteYields ==
    \A c \in Peers :
        <>[](level[c] = "read" /\ ~spent.failed) => <>[](\A r \in Rows : claim[r] # c)
=============================================================================
