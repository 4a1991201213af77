---------------------------- MODULE CustomerReach ----------------------------
(***************************************************************************)
(* Who reaches which case: the customers, the groups that hold them, the   *)
(* analysts in those groups at a level, and the case behind its customer   *)
(* (access/groups.service.ts, customers/customers.service.ts, the move of  *)
(* cases.service.ts attribute, and the store's answers in db/reach.sql),   *)
(* beside the accounts of InstallAccounts, whose roles they ask.           *)
(*                                                                         *)
(* A merge is one transaction of several statements at READ COMMITTED:     *)
(* what it has done and not committed is in doing[p], and the rows it      *)
(* wrote, and the customer its rows name, are locked until it ends.  The   *)
(* other acts are one write each, and what they ask of the directory they  *)
(* ask it at the write.  What an organisation answers of itself, and what  *)
(* a merge settles of it, is left out; so are the connections an analyst   *)
(* has to another server, which its sweep reads again.                     *)
(***************************************************************************)
EXTENDS InstallAccounts

CONSTANTS
    Customers,
    Default,       \* the customer a case has before anybody knows whose it is
    Groups,
    Cases,
    RefOf,         \* the reference each case carries, or None
    None,
    Granted,       \* bound: the levels a grant gives
    Directories    \* bound: the directories looked at, see ReachInit

Levels == 0..3     \* none, read, write, delete

(* No two cases of one customer carry one reference.                       *)
Free(place) ==
    \A j, k \in Cases :
        j # k /\ place[j] = place[k] => RefOf[j] = None \/ RefOf[j] # RefOf[k]

ASSUME DirectoriesAssumption ==
    /\ Default \in Customers /\ None \notin Cases \cup Groups \cup Accounts
    /\ Granted \subseteq Levels
    /\ \A d \in Directories :
          /\ d.behind \in [Cases -> Customers] /\ Free(d.behind)
          /\ d.held \subseteq Groups \X Customers
          /\ d.member \in [Groups -> [Accounts -> Levels]]
          /\ d.asks \in Nat /\ d.acts \in Nat

VARIABLES
    customers,     \* those there are
    behind,        \* the customer each case belongs to
    held,          \* which group holds which customer
    member,        \* the level of each analyst in each group
    doing,         \* the requests under way
    unheard,       \* analysts and cases they were cut off from, not yet told
    asks           \* bound: the requests still to come

directory == <<customers, behind, held, member, doing, unheard, asks>>
reachVars == <<vars, directory>>

NoRequest ==
    [step |-> "idle", by |-> "", from |-> Default, into |-> Default, moved |-> {},
     read |-> {}, copied |-> {}, found |-> {}, dropped |-> {}, group |-> None, who |-> None, kase |-> None]

(* A directory is beside the installs with as many account acts to come as *)
(* it says.  Where the trail is at work or a server stops, nobody asks for *)
(* anything of the directory.                                              *)
ReachInit ==
    /\ Init
    /\ \E d \in Directories :
          /\ behind = d.behind /\ held = d.held
          /\ asks = IF shipped \/ stops > 0 THEN 0 ELSE d.asks
          /\ d.acts = IF shipped \/ stops > 0 THEN 0 ELSE acts
          /\ member = [g \in Groups |->
                [t \in Accounts |-> IF t \in Known THEN d.member[g][t] ELSE 0]]
    /\ customers = Customers
    /\ doing = [p \in Requests |-> NoRequest]
    /\ unheard = {}

-----------------------------------------------------------------------------
(* The store's answers (reach.sql).                                         *)

(* ic_floor: what an account has by its role, over the default customer.   *)
Floor(t) == CASE account[t].role = "none" -> 0
              [] account[t].role = "admin" -> 3
              [] OTHER -> 2

(* ic_level: the strongest of the floor and every group, level l or more.  *)
Reaches(t, c, l) ==
    \/ c = Default /\ Floor(t) >= l
    \/ \E g \in Groups : <<g, c>> \in held /\ member[g][t] >= l

(* Who no longer reads, or no longer writes, a case they did.              *)
CutOff ==
    {e \in Accounts \X Cases : \E l \in {1, 2} :
        Reaches(e[1], behind[e[2]], l) /\ ~ Reaches(e[1], behind[e[2]], l)'}

(* What is locked: a case, an edge, or a customer that rows name.          *)
Others(p) == Requests \ {p}
MovedBy(S) == UNION {doing[q].moved : q \in S}
CopiedBy(S) == UNION {doing[q].copied \X {doing[q].into} : q \in S}
DroppedBy(S) == UNION {doing[q].dropped \X {doing[q].from} : q \in S}
Pinned(S) ==
    {doing[q].into : q \in {q \in S : \/ doing[q].moved \cup doing[q].copied # {}
                                      \/ doing[q].step = "delete"}}

(* Whose edges a merge has deleted: to delete them with it waits.          *)
Dropping(S) == {doing[q].from : q \in {q \in S : doing[q].dropped # {}}}

(* The index of references sees a row of another transaction: it waits.    *)
Claimed(S, c, k) ==
    \E q \in S : \E j \in doing[q].moved :
        doing[q].into = c /\ RefOf[j] # None /\ RefOf[j] = RefOf[k]

Carried(c, k) ==
    \E j \in Cases \ {k} : behind[j] = c /\ RefOf[j] # None /\ RefOf[j] = RefOf[k]

-----------------------------------------------------------------------------
(* Requests.                                                                *)

Administrator(t) == t \in SignedIn /\ Administers(t)

(* The routes of groups and customers are the administrators'.             *)
AdminOnly == \E t \in Accounts : Administrator(t)

Arrives(p) ==
    /\ asks > 0 /\ asks' = asks - 1
    /\ doing[p].step = "idle"
    /\ \A q \in 1..(p - 1) : doing[q].step # "idle"

Doing(p, request) == doing' = [doing EXCEPT ![p] = request]
Over(p) == doing' = [doing EXCEPT ![p] = NoRequest]
On(p, step) == doing' = [doing EXCEPT ![p].step = step]

Merge(p) ==
    /\ Arrives(p)
    /\ \E by \in {t \in Accounts : Administrator(t)}, from, into \in Customers :
          /\ from # into
          /\ Doing(p, [NoRequest EXCEPT !.step = "read", !.by = by, !.from = from, !.into = into])
    /\ UNCHANGED <<customers, behind, held, member, unheard>>

(* Both are there and neither is the default; or the answers they disagree *)
(* on are not chosen between, or others are.                               *)
Read(p) ==
    /\ doing[p].step = "read"
    /\ \/ /\ {doing[p].from, doing[p].into} \subseteq customers \ {Default}
          /\ On(p, "compare")
       \/ Over(p)
    /\ UNCHANGED <<customers, behind, held, member, unheard, asks>>

(* ic_administers: the role alone, as it is now.                           *)
StillAdmin(p) == account[doing[p].by].role = "admin"

Compare(p) ==
    /\ doing[p].step = "compare"
    /\ IF /\ StillAdmin(p)
          /\ \A k \in Cases : behind[k] = doing[p].from => ~ Carried(doing[p].into, k)
       THEN On(p, "move") ELSE Over(p)
    /\ UNCHANGED <<customers, behind, held, member, unheard, asks>>

BehindCustomer(c) == {k \in Cases : behind[k] = c}

(* Every case moves, or the survivor is gone, or a reference is carried by *)
(* a case that came to it meanwhile.                                       *)
Move(p) ==
    LET m == doing[p] its == BehindCustomer(m.from)
    IN  /\ m.step = "move"
        /\ its \cap MovedBy(Others(p)) = {}
        /\ \A k \in its : ~ Claimed(Others(p), m.into, k)
        /\ IF /\ StillAdmin(p) /\ (its # {} => m.into \in customers)
              /\ \A k \in its : ~ Carried(m.into, k)
           THEN Doing(p, [m EXCEPT !.step = "edges", !.moved = its])
           ELSE Over(p)
        /\ UNCHANGED <<customers, behind, held, member, unheard, asks>>

HoldersOf(c) == {g \in Groups : <<g, c>> \in held}

Edges(p) ==
    /\ doing[p].step = "edges"
    /\ Doing(p, [doing[p] EXCEPT !.step = "copy", !.read = HoldersOf(doing[p].from)])
    /\ UNCHANGED <<customers, behind, held, member, unheard, asks>>

(* Mutant: a merge moves the cases only. *)
CopyNothing(p) == On(p, "drop") /\ UNCHANGED <<customers, behind, held, member, unheard, asks>>
                  /\ doing[p].step = "copy"

(* Each group that held the one holds the other, or is found holding it.   *)
Copy(p) ==
    LET m == doing[p] new == m.read \X {m.into}
    IN  /\ m.step = "copy"
        /\ new \cap (CopiedBy(Others(p)) \cup DroppedBy(Others(p))) = {}
        /\ IF m.read = {} \/ m.into \in customers
           THEN Doing(p, [m EXCEPT !.step = "drop", !.copied = m.read \ HoldersOf(m.into),
                                   !.found = m.read \cap HoldersOf(m.into)])
           ELSE Over(p)
        /\ UNCHANGED <<customers, behind, held, member, unheard, asks>>

Drop(p) ==
    LET m == doing[p]
    IN  /\ m.step = "drop"
        /\ (HoldersOf(m.from) \X {m.from}) \cap DroppedBy(Others(p)) = {}
        /\ Doing(p, [m EXCEPT !.step = "settle", !.dropped = HoldersOf(m.from)])
        /\ UNCHANGED <<customers, behind, held, member, unheard, asks>>

(* The survivor's row is written, where it is there.                       *)
Settle(p) ==
    /\ doing[p].step = "settle"
    /\ \A q \in Others(p) : doing[q].step = "delete" => doing[q].into # doing[p].into
    /\ On(p, "delete")
    /\ UNCHANGED <<customers, behind, held, member, unheard, asks>>

(* Mutant: a customer is removed from under its cases. *)
VacantAlways(c, moved) == TRUE

(* cases.customer_id, on delete restrict.                                  *)
Vacant(c, moved) == BehindCustomer(c) \subseteq moved

(* The losing record goes, its edges with it, and the merge is committed.  *)
Delete(p) ==
    LET m == doing[p]
    IN  /\ m.step = "delete"
        /\ m.from \in customers => m.from \notin Pinned(Others(p)) \cup Dropping(Others(p))
        /\ IF Vacant(m.from, m.moved)
           THEN /\ customers' = customers \ {m.from}
                /\ behind' = [k \in Cases |-> IF k \in m.moved THEN m.into ELSE behind[k]]
                /\ held' = {e \in held : e[2] # m.from} \cup (m.copied \X {m.into})
           ELSE UNCHANGED <<customers, behind, held>>
        /\ Over(p)
        /\ UNCHANGED <<member, unheard, asks>>

Merging == {"read", "compare", "move", "edges", "copy", "drop", "settle", "delete"}

(* A statement fails, or a circle of waits is broken: nothing was done.    *)
RollBack(p) ==
    /\ doing[p].step \in Merging
    /\ Over(p)
    /\ UNCHANGED <<customers, behind, held, member, unheard, asks>>

(* remove(): refused for the default, and while a case stands behind it.   *)
Remove(p) ==
    /\ Arrives(p) /\ AdminOnly
    /\ \E c \in customers \ ({Default} \cup Pinned(Requests)) :
          /\ Vacant(c, {})
          /\ c \notin Dropping(Requests)
          /\ customers' = customers \ {c}
          /\ held' = {e \in held : e[2] # c}
    /\ UNCHANGED <<behind, member, doing, unheard>>

-----------------------------------------------------------------------------
(* Acts on a group: the write, and who it is announced to after it.        *)

Hears(p, request) ==
    /\ Doing(p, request)
    /\ unheard' = unheard \cup CutOff

Hold(p) ==
    /\ Arrives(p) /\ AdminOnly
    /\ \E g \in Groups, c \in customers :
          /\ <<g, c>> \notin held \cup CopiedBy(Requests)
          /\ held' = held \cup {<<g, c>>}
          /\ UNCHANGED <<customers, behind, member>>
          /\ Hears(p, [NoRequest EXCEPT !.step = "members", !.group = g])

Release(p) ==
    /\ Arrives(p) /\ AdminOnly
    /\ \E e \in held \ DroppedBy(Requests) :
          /\ held' = held \ {e}
          /\ UNCHANGED <<customers, behind, member>>
          /\ Hears(p, [NoRequest EXCEPT !.step = "members", !.group = e[1]])

(* A grant, of another level, or a revocation.                             *)
Grant(p) ==
    /\ Arrives(p) /\ AdminOnly
    /\ \E g \in Groups, t \in Known, l \in Granted :
          /\ l # member[g][t]
          /\ member' = [member EXCEPT ![g][t] = l]
          /\ UNCHANGED <<customers, behind, held>>
          /\ Hears(p, [NoRequest EXCEPT !.step = "one", !.who = t])

(* ic_move_case, as somebody who writes the case.                          *)
Attribute(p) ==
    /\ Arrives(p)
    /\ \E by \in SignedIn, k \in Cases \ MovedBy(Requests), c \in customers \ {Default} :
          /\ c # behind[k]
          /\ Reaches(by, behind[k], 2)
          /\ RefOf[k] # None => Reaches(by, c, 1)
          /\ ~ Carried(c, k) /\ ~ Claimed(Requests, c, k)
          /\ behind' = [behind EXCEPT ![k] = c]
          /\ UNCHANGED <<customers, held, member>>
          /\ Hears(p, [NoRequest EXCEPT !.step = "case", !.kase = k])

(* Mutant: whoever is in the group is announced, who left it is not. *)
ToldMembers(p) ==
    LET r == doing[p]
    IN CASE r.step = "members" -> {t \in Accounts : member[r.group][t] > 0} \X Cases
         [] r.step = "case" -> Accounts \X {r.kase}
         [] OTHER -> {}

(* The members as they are read after the write, the analyst of a grant,   *)
(* or everyone connected to the case.                                      *)
Told(p) ==
    LET r == doing[p]
    IN CASE r.step = "members" -> {t \in Accounts : member[r.group][t] > 0} \X Cases
         [] r.step = "one" -> {r.who} \X Cases
         [] r.step = "case" -> Accounts \X {r.kase}
         [] OTHER -> {}

Announce(p) ==
    /\ doing[p].step \in {"members", "one", "case"}
    /\ unheard' = unheard \ Told(p)
    /\ Over(p)
    /\ UNCHANGED <<customers, behind, held, member, asks>>

-----------------------------------------------------------------------------
MergeStep(p) ==
    \/ Read(p) \/ Compare(p) \/ Move(p) \/ Edges(p) \/ Copy(p) \/ Drop(p) \/ Settle(p)
    \/ Delete(p) \/ RollBack(p)

DirectoryStep(p) ==
    \/ Merge(p) \/ Remove(p) \/ Hold(p) \/ Release(p) \/ Grant(p) \/ Attribute(p)
    \/ MergeStep(p) \/ Announce(p)

(* An account that is taken back takes its memberships with it.            *)
AccountStep ==
    /\ Next
    /\ member' = [g \in Groups |-> [t \in Accounts |->
                    IF account'[t].role = "none" THEN 0 ELSE member[g][t]]]
    /\ unheard' = {e \in unheard : account'[e[1]].role # "none"}
    /\ UNCHANGED <<customers, behind, held, doing, asks>>

ReachNext ==
    \/ AccountStep
    \/ \E p \in Requests : UNCHANGED vars /\ DirectoryStep(p)

ReachSpec == ReachInit /\ [][ReachNext]_reachVars /\ Fairness
-----------------------------------------------------------------------------
(* What a merge has done and not committed stays true until it ends: its   *)
(* cases are behind the customer it loses, no case of their references     *)
(* comes to the survivor, and that one stays where rows of the merge name  *)
(* it.                                                                     *)
RequestKept(m) ==
    /\ m.step \in Merging => m.from # m.into
    /\ m.step \in Merging \ {"read"} => Default \notin {m.from, m.into}
    /\ m.step \notin Merging => m.moved = {}
    /\ m.step = "members" => m.group \in Groups
    /\ m.step = "case" => m.kase \in Cases
    /\ m.copied # {} => m.step \in {"drop", "settle", "delete"}
    /\ m.copied \subseteq m.read
    /\ m.step \in {"drop", "settle", "delete"} => m.read = m.copied \cup m.found
    /\ m.moved \cup m.copied # {} => m.into \in customers
    /\ \A k \in m.moved : behind[k] = m.from /\ ~ Carried(m.into, k)

(* No case is moved by both, nor one reference to one customer.            *)
Apart(m, n) ==
    \A k \in m.moved, j \in n.moved :
        k # j /\ (m.into = n.into => RefOf[j] = None \/ RefOf[j] # RefOf[k])

RequestType ==
    [step : Merging \cup {"idle", "members", "one", "case"}, by : Accounts \cup {""},
     from : Customers, into : Customers, moved : SUBSET Cases,
     read : SUBSET Groups, copied : SUBSET Groups, found : SUBSET Groups, dropped : SUBSET Groups,
     group : Groups \cup {None}, who : Accounts \cup {None}, kase : Cases \cup {None}]

(* spec.md: no customer leaves a case, or a group's hold, belonging to     *)
(* nothing, and none has two cases of one reference, whatever is moved to  *)
(* it or held of it while a merge or a removal takes it away.              *)
DirectoryKept ==
    /\ Default \in customers /\ customers \subseteq Customers
    /\ behind \in [Cases -> customers] /\ Free(behind)
    /\ held \subseteq Groups \X customers
    /\ member \in [Groups -> [Accounts -> Levels]]
    /\ doing \in [Requests -> RequestType]
    /\ \A p \in Requests :
          RequestKept(doing[p]) /\ \A q \in Others(p) : Apart(doing[p], doing[q])

(* Of the groups that held one of the two, those whose hold of the losing  *)
(* customer changed after the merge read it, or whose hold of the survivor *)
(* ended after the merge found it there.                                   *)
MovedMeanwhile(m) ==
    {g \in Groups : \/ g \in m.read <=> g \notin HoldersOf(m.from)
                    \/ g \in m.found \ HoldersOf(m.into)}

(* spec.md, "Reach after a merge": whoever reached either customer reaches *)
(* the survivor and every case of the two, at the higher of the two levels *)
(* and no higher.  What the merge read of the groups may be old by then:   *)
(* their analysts may gain or lose by a hold that changed meanwhile.       *)
MovesReach(p) ==
    LET m == doing[p]
    IN  (m.step = "delete" /\ doing'[p] # m /\ m.from \in customers \ customers') =>
           /\ \A k \in Cases : behind'[k] # m.from
           /\ \A t \in Accounts, l \in {1, 2, 3} :
                 (\A g \in MovedMeanwhile(m) : member[g][t] = 0) =>
                    \A into \in {m.into} :
                       Reaches(t, into, l)' <=> Reaches(t, m.from, l) \/ Reaches(t, into, l)

MergeMovesReach == [][\A p \in Requests : MovesReach(p)]_reachVars

(* groups.service.ts: "every act that alters reach announces the analyst   *)
(* it altered".  Who no longer reads or writes a case, by a hold, a        *)
(* membership or the case's customer, is about to be told so, however the  *)
(* group's members change between the write and the announcement.          *)
WhoLosesReachIsTold ==
    \A e \in unheard : \E p \in Requests : e \in Told(p)
=============================================================================
