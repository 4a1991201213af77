--------------------------- MODULE InstallAccounts ---------------------------
(***************************************************************************)
(* Who administers the install, and what the audit says of it: the claims  *)
(* of an install nobody has an account on (auth/setup.controller.ts), and  *)
(* the disabling, enabling and role changes of its accounts                *)
(* (accounts/accounts.controller.ts), which wait their turn in their own   *)
(* process and then for the database's lock                                *)
(* (auth/account-lookup.service.ts), each writing its line into the trail  *)
(* of AuditTrail.                                                          *)
(***************************************************************************)
EXTENDS AuditTrail

CONSTANTS
    MaxRequests,   \* bound: requests under way at once
    Installs       \* bound: the installs looked at, see Init

ASSUME RequestsAssumption == MaxRequests \in Nat

(* "" is the address of nobody: a line about no account carries it.         *)
ASSUME AddressAssumption == "" \notin Accounts

ASSUME InstallsAssumption ==
    Installs \subseteq [shipped : BOOLEAN, room : Nat, acts : Nat, stops : Nat,
                        who : [Accounts -> {"none", "admin", "analyst"}]]
ASSUME AdministeredAssumption ==
    \A install \in Installs :
        /\ \A t \in Accounts : install.who[t] # "none" =>
              \E a \in Accounts : install.who[a] = "admin"
        /\ install.room + install.acts <= MaxLines

VARIABLES
    fresh,         \* whether nobody had an account on the install at first
    account,       \* the role each account holds, and whether it is banned
    claimed,       \* whether the install's one claim row is there
    turns,         \* each process's queue of account acts
    lock,          \* who holds the database's lock, of 'account-state'
    act,           \* where each request is
    acts,          \* bound: the requests still to come
    stops,         \* bound: the servers still to stop
    stopped,       \* whether one did
    untold         \* changes no line tells: it is to come, or was not written

Requests == 1..MaxRequests

accountVars == <<fresh, account, claimed, turns, lock, act, acts, stops, stopped, untold>>
vars == <<trailVars, accountVars>>

Nobody == [role |-> "none", banned |-> FALSE]
Asked(step, kind, s, by, t) ==
    [step |-> step, kind |-> kind, at |-> s, by |-> by, target |-> t,
     role |-> "", everyone |-> {}, line |-> 0]
NoAct == Asked("idle", "", "", "", "")

Known == {t \in Accounts : account[t].role # "none"}
Administers(t) == account[t].role = "admin" /\ ~ account[t].banned

(* An install with a destination or without, either nobody's yet or of the *)
(* administrators and analysts "who" names.                                *)
Init ==
    /\ \E install \in Installs :
          /\ shipped = install.shipped
          /\ room = install.room
          /\ acts = install.acts
          /\ stops = install.stops
          /\ account = [t \in Accounts |-> [role |-> install.who[t], banned |-> FALSE]]
    /\ fresh = (Known = {})
    /\ claimed = ~ fresh
    /\ TrailInit
    /\ turns = [s \in Servers |-> <<>>]
    /\ lock = {}
    /\ act = [p \in Requests |-> NoAct]
    /\ stopped = FALSE
    /\ untold = {}

-----------------------------------------------------------------------------
(* Waiting for the turn (AccountLookupService.serialised).                  *)

Goes(p, step) == act' = [act EXCEPT ![p].step = step]

(* A claim signs its account in only once it has won it.                    *)
SignedIn == {t \in Known : \A q \in Requests : act[q].kind = "claim" => act[q].target # t}

(* A request that comes is given the first number that is free.             *)
Comes(p) ==
    /\ acts > 0
    /\ acts' = acts - 1
    /\ act[p].step = "idle"
    /\ \A q \in 1..(p - 1) : act[q].step # "idle"

(* A request past the route's guard, which asked who its caller is.         *)
Ask(p) ==
    /\ Comes(p)
    /\ \E kind \in {"disable", "enable", "admin", "analyst"}, s \in Servers, t \in Accounts :
       \E by \in {a \in SignedIn : Administers(a)} :
          /\ act' = [act EXCEPT ![p] = Asked("waiting", kind, s, by, t)]
          /\ turns' = [turns EXCEPT ![s] = Append(@, p)]
    /\ UNCHANGED <<trailVars, fresh, account, claimed, lock, stops, stopped, untold>>

Heads(p) ==
    /\ act[p].step = "waiting"
    /\ turns[act[p].at] # <<>>
    /\ Head(turns[act[p].at]) = p

(* Mutant: the acts of a process wait their turn, those of two do not. *)
TakeLockInProcess(p) ==
    /\ Heads(p)
    /\ lock' = lock \cup {p}
    /\ Goes(p, "still")
    /\ UNCHANGED <<trailVars, fresh, account, claimed, turns, acts, stops, stopped, untold>>

TakeLock(p) ==
    /\ Heads(p)
    /\ lock = {}
    /\ lock' = {p}
    /\ Goes(p, "still")
    /\ UNCHANGED <<trailVars, fresh, account, claimed, turns, acts, stops, stopped, untold>>

(* It was the head's turn.                                                  *)
Left(p) == [turns EXCEPT ![act[p].at] = Tail(@)]

(* Mutant: whoever ends unlocks, whoever holds the lock. *)
EndedUnlocking(p) ==
    /\ turns' = Left(p)
    /\ lock' = {}
    /\ act' = [act EXCEPT ![p] = NoAct]

(* Mutant: who ends stays at the head of its queue. *)
EndedQueued(p) ==
    /\ turns' = turns
    /\ lock' = lock \ {p}
    /\ act' = [act EXCEPT ![p] = NoAct]

(* The answer is sent; the turn and the lock are given up.                  *)
Ended(p) ==
    /\ turns' = Left(p)
    /\ lock' = lock \ {p}
    /\ act' = [act EXCEPT ![p] = NoAct]

(* Another process holds the lock past WAIT: 503, nothing changed.          *)
GiveUp(p) ==
    /\ Heads(p)
    /\ lock # {}
    /\ Ended(p)
    /\ UNCHANGED <<trailVars, fresh, account, claimed, acts, stops, stopped, untold>>

-----------------------------------------------------------------------------
(* The act in its turn (AccountsController.disable, enable and role).       *)

(* Mutant: the caller is what the route's guard found. *)
StillTrusted(p) ==
    /\ act[p].step = "still"
    /\ Goes(p, IF act[p].kind = "enable" THEN "target" ELSE "everyone")
    /\ UNCHANGED <<trailVars, fresh, account, claimed, turns, lock, acts, stops, stopped, untold>>

(* stillAdministers: a caller who no longer does is answered 403.           *)
Still(p) ==
    /\ act[p].step = "still"
    /\ IF Administers(act[p].by)
       THEN /\ Goes(p, IF act[p].kind = "enable" THEN "target" ELSE "everyone")
            /\ UNCHANGED <<turns, lock>>
       ELSE Ended(p)
    /\ UNCHANGED <<trailVars, fresh, account, claimed, acts, stops, stopped, untold>>

(* The accounts of the administrator role, those who administer among them. *)
Administrators == {t \in Accounts : Administers(t)}

Everyone(p) ==
    /\ act[p].step = "everyone"
    /\ act' = [act EXCEPT ![p] = [@ EXCEPT !.step = "target", !.everyone = Administrators]]
    /\ UNCHANGED <<trailVars, fresh, account, claimed, turns, lock, acts, stops, stopped, untold>>

(* Whether the change leaves nobody who can administer the install.         *)
Stranding(p) ==
    /\ act[p].kind \in {"disable", "analyst"}
    /\ Administers(act[p].target)
    /\ Cardinality(act[p].everyone) = 1

(* Whether the caller's own account would be disabled or change its role.   *)
OnThemselves(p) ==
    /\ act[p].target = act[p].by
    /\ \/ act[p].kind = "disable"
       \/ /\ act[p].kind \in {"admin", "analyst"}
          /\ account[act[p].target].role # act[p].kind

Target(p) ==
    /\ act[p].step = "target"
    /\ IF \/ act[p].target \notin Known
          \/ Stranding(p)
          \/ OnThemselves(p)
       THEN Ended(p)
       ELSE Goes(p, "write") /\ UNCHANGED <<turns, lock>>
    /\ UNCHANGED <<trailVars, fresh, account, claimed, acts, stops, stopped, untold>>

(* The half of an account's state the request is about.                     *)
Half(kind) == IF kind \in {"disable", "enable"} THEN "banned" ELSE "role"

(* What the act makes of the account: changeBanned's update, changeRole's.  *)
Becomes(p) ==
    LET held == account[act[p].target]
    IN CASE act[p].kind = "disable" -> [held EXCEPT !.banned = TRUE]
         [] act[p].kind = "enable" -> [held EXCEPT !.banned = FALSE]
         [] OTHER -> [held EXCEPT !.role = act[p].kind]

(* The write, and its outcome: an account that was so already has no line.  *)
Write(p) ==
    /\ act[p].step = "write"
    /\ act[p].target \in Known
    /\ account' = [account EXCEPT ![act[p].target] = Becomes(p)]
    /\ IF account' # account
       THEN Goes(p, "line") /\ untold' = untold \cup {<<act[p].target, Half(act[p].kind)>>}
       ELSE Goes(p, "library") /\ UNCHANGED untold
    /\ UNCHANGED <<trailVars, fresh, claimed, turns, lock, acts, stops, stopped>>

(* The account is no longer there: refused.                                 *)
WriteMissing(p) ==
    /\ act[p].step = "write"
    /\ act[p].target \notin Known
    /\ Ended(p)
    /\ UNCHANGED <<trailVars, fresh, account, claimed, acts, stops, stopped, untold>>

(* The line is inserted, and stored when the statement ends.                *)
Record(p) ==
    /\ act[p].step = "line"
    /\ trail' = Numbered(act[p].target, act[p].kind)
    /\ act' = [act EXCEPT ![p] = [@ EXCEPT !.step = "open", !.line = Len(trail) + 1]]
    /\ UNCHANGED <<shipped, room, cursor, taken, round, sweep, fresh,
                   account, claimed, turns, lock, acts, stops, stopped, untold>>

(* A line that fails is swallowed: the act goes on.                         *)
Recorded(p) ==
    /\ act[p].step = "open"
    /\ \/ /\ trail' = Stored(trail, act[p].line)
          /\ untold' = untold \ {<<act[p].target, Half(act[p].kind)>>}
       \/ /\ trail' = Voided(trail, act[p].line)
          /\ UNCHANGED untold
    /\ Goes(p, "library")
    /\ UNCHANGED <<shipped, room, cursor, taken, round, sweep, fresh,
                   account, claimed, turns, lock, acts, stops, stopped>>

(* banUser and setRole write the state just stored once more, for the      *)
(* endings and the sessions that come with it; an enable is done.          *)
Library(p) ==
    /\ act[p].step = "library"
    /\ account' = IF act[p].kind = "enable" \/ act[p].target \notin Known THEN account
                  ELSE [account EXCEPT ![act[p].target] = Becomes(p)]
    /\ Ended(p)
    /\ UNCHANGED <<trailVars, fresh, claimed, acts, stops, stopped, untold>>

-----------------------------------------------------------------------------
(* Claiming an install (SetupController.claim): the account is made by the *)
(* sign-up, then the claim row settles which of them stays.                *)

(* The count before anything else: an install with an account is refused.   *)
Claim(p) ==
    /\ Comes(p)
    /\ Known = {}
    /\ \E s \in Servers, t \in Accounts :
          act' = [act EXCEPT ![p] = Asked("gate", "claim", s, "", t)]
    /\ UNCHANGED <<trailVars, fresh, account, claimed, turns, lock, stops, stopped, untold>>

Refused(p) == act' = [act EXCEPT ![p] = NoAct]

(* The sign-up's own refusal, once any account exists.                      *)
Gate(p) ==
    /\ act[p].step = "gate"
    /\ IF Known = {} THEN Goes(p, "role") ELSE Refused(p)
    /\ UNCHANGED <<trailVars, fresh, account, claimed, turns, lock, acts, stops, stopped, untold>>

(* The role of a new account, by whether any exists when it is asked.       *)
RoleForNewUser(p) ==
    /\ act[p].step = "role"
    /\ act' = [act EXCEPT ![p] = [@ EXCEPT !.step = "insert",
                          !.role = IF Known = {} THEN "admin" ELSE "analyst"]]
    /\ UNCHANGED <<trailVars, fresh, account, claimed, turns, lock, acts, stops, stopped, untold>>

(* The account is inserted, unless the address has one.                     *)
Insert(p) ==
    /\ act[p].step = "insert"
    /\ IF act[p].target \in Known
       THEN Refused(p) /\ UNCHANGED account
       ELSE /\ account' = [account EXCEPT ![act[p].target] =
                              [role |-> act[p].role, banned |-> FALSE]]
            /\ Goes(p, "take")
    /\ UNCHANGED <<trailVars, fresh, claimed, turns, lock, acts, stops, stopped, untold>>

(* Mutant: nobody's claim is refused, whoever came first. *)
TakeAlways(p) ==
    /\ act[p].step = "take"
    /\ claimed' = TRUE
    /\ account' = [account EXCEPT ![act[p].target].role = "admin"]
    /\ Refused(p)
    /\ UNCHANGED <<trailVars, fresh, turns, lock, acts, stops, stopped, untold>>

(* takeTheClaim and the promotion, in one transaction.                      *)
Take(p) ==
    /\ act[p].step = "take"
    /\ IF claimed
       THEN Goes(p, "back") /\ UNCHANGED <<account, claimed>>
       ELSE /\ claimed' = TRUE
            /\ account' = [account EXCEPT ![act[p].target].role = "admin"]
            /\ Refused(p)
    /\ UNCHANGED <<trailVars, fresh, turns, lock, acts, stops, stopped, untold>>

(* A claim that lost takes its account back.                                *)
TakeBack(p) ==
    /\ act[p].step = "back"
    /\ account' = [account EXCEPT ![act[p].target] = Nobody]
    /\ Refused(p)
    /\ UNCHANGED <<trailVars, fresh, claimed, turns, lock, acts, stops, stopped, untold>>

-----------------------------------------------------------------------------
At(s) == {p \in Requests : act[p].at = s}

(* The process of a server goes: its queue, its acts and the lock one of   *)
(* them held are gone, its round and its sweep with their transactions; a  *)
(* line its last statement numbered may still be stored.                   *)
Stop(s) ==
    /\ stops > 0
    /\ stops' = stops - 1
    /\ stopped' = TRUE
    /\ turns' = [turns EXCEPT ![s] = <<>>]
    /\ lock' = lock \ At(s)
    /\ act' = [p \in Requests |-> IF p \in At(s) THEN NoAct ELSE act[p]]
    /\ TrailStopped(s)
    /\ LET open == {act[p].line : p \in {q \in At(s) : act[q].step = "open"}}
           pruned == IF sweep[s].step = "pruning" THEN {sweep[s].line} ELSE {}
       IN \E landed \in SUBSET open :
            trail' = [n \in DOMAIN trail |->
                        IF n \in landed THEN Stored(trail, n)[n]
                        ELSE IF n \in open \cup pruned THEN Voided(trail, n)[n]
                        ELSE trail[n]]
    /\ UNCHANGED <<shipped, room, cursor, taken, fresh, account, claimed, acts, untold>>

TurnStep(p) ==
    \/ TakeLock(p) \/ GiveUp(p)
    \/ Still(p) \/ Everyone(p) \/ Target(p) \/ Write(p) \/ WriteMissing(p)
    \/ Record(p) \/ Recorded(p) \/ Library(p)

ClaimStep(p) == Gate(p) \/ RoleForNewUser(p) \/ Insert(p) \/ Take(p) \/ TakeBack(p)

Next ==
    \/ \E p \in Requests : Ask(p) \/ Claim(p) \/ TurnStep(p) \/ ClaimStep(p)
    \/ \E s \in Servers : Stop(s)
    \/ (OtherLine \/ OtherEnds \/ \E s \in Servers : TrailStep(s)) /\ UNCHANGED accountVars

(* Each statement of a request ends, and who waits for the lock is given   *)
(* it or told of the timeout.                                              *)
Fairness ==
    /\ TrailFairness
    /\ \A p \in Requests : WF_vars(TurnStep(p)) /\ WF_vars(ClaimStep(p))

Spec == Init /\ [][Next]_vars /\ Fairness

-----------------------------------------------------------------------------
Steps == {"idle", "waiting", "still", "everyone", "target", "write", "line", "open",
          "library", "gate", "role", "insert", "take", "back"}
Holding == {"still", "everyone", "target", "write", "line", "open", "library"}

(* The kinds of the values, and what each step holds: the lock is one      *)
(* act's, the head's of its process's queue, and a queue is of the acts    *)
(* under way there.                                                        *)
TypeOK ==
    /\ TrailTypeOK
    /\ \A t \in Accounts :
          /\ account[t].role \in {"none", "admin", "analyst"}
          /\ account[t].banned \in BOOLEAN
    /\ acts \in Nat /\ stops \in Nat
    /\ \A p \in Requests :
          /\ act[p].step \in Steps
          /\ act[p].step \in Holding <=> lock = {p}
          /\ lock = {p} => turns[act[p].at] # <<>> /\ Head(turns[act[p].at]) = p
          /\ act[p].step = "open" => act[p].line \in InState("open")
    /\ \A s \in Servers : \A i \in 1..Len(turns[s]) :
          act[turns[s][i]].at = s /\ act[turns[s][i]].step \in Holding \cup {"waiting"}

(* Once it is claimed, the install always has somebody who can administer  *)
(* it, however the acts of two administrators on each other meet, on one   *)
(* server or two, and whichever of them a stopping process cuts short.     *)
AdministratorStands == claimed => \E t \in Accounts : Administers(t)

(* A change to an account is made for a caller who administers the install *)
(* at that moment: one demoted or disabled while waiting changes nothing.  *)
OnlyAdministratorsChange ==
    [][\A p \in Requests :
          act[p].step \in {"write", "library"} /\ act'[p] # act[p] /\ account' # account
             => Administers(act[p].by)]_vars

(* Two claims arriving together make one administrator, and the one that   *)
(* loses leaves nothing behind, once both have ended, unless a server      *)
(* stopped in between.                                                     *)
OneClaimStands ==
    (fresh /\ ~ stopped /\ \A p \in Requests : act[p].kind # "claim")
       => Cardinality(Known) = IF claimed THEN 1 ELSE 0

(* The turns are one act's at a time, an administrator stands, and a claim *)
(* that lost leaves nobody.                                                *)
AccountsKept == TypeOK /\ AdministratorStands /\ OneClaimStands

(* Of what an account was last made, its newest line says it: the lines    *)
(* are numbered in the order of the changes, and a change whose line is    *)
(* stored is not undone by what an earlier act still had to write.  (A     *)
(* claim cut short leaves an account nobody's line names.)                 *)
LinesTellTheAccounts ==
    ~ (fresh /\ stopped) => \A t \in SignedIn, half \in {"banned", "role"} :
       LET told == {n \in InState("stored") \cup InState("gone") :
                       trail[n].of = t /\ Half(trail[n].says) = half}
           last == trail[Top(told)].says
       IN <<t, half>> \notin untold /\ told # {} =>
             IF half = "banned" THEN account[t].banned <=> last = "disable"
             ELSE account[t].role = last

(* Every request is answered: none waits for ever behind another in its    *)
(* queue or for a lock nobody gives up.                                    *)
RequestsAnswered == \A p \in Requests : act[p].step # "idle" ~> act[p].step = "idle"

(* What waits comes to its end: the requests, and the lines to be sent.    *)
WorkIsDone == RequestsAnswered /\ LinesAreDelivered
=============================================================================
