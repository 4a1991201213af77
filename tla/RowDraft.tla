------------------------------ MODULE RowDraft ------------------------------
(***************************************************************************)
(* The fields analysts are changing on one record: the holds of a form     *)
(* that writes a field when it is left (ui/src/api/rowDraft.ts) and the    *)
(* one door a tab's writes leave by (ui/src/api/rowWrite.ts), against the  *)
(* version check of the server and the record being read again.            *)
(*                                                                         *)
(* What runs between two awaits in a tab is one step, and so is the render *)
(* that follows it, its effect included.                                   *)
(***************************************************************************)
EXTENDS Integers, Sequences, FiniteSets

CONSTANTS
    Tabs,          \* the tabs that have the record drawn
    Fields,        \* its fields
    Values,        \* what a field can hold
    First,         \* what every field holds at first
    Entries,       \* bound: what the analyst of each tab may enter in each field
    MaxPresses,    \* bound: how often the analysts change a field
    MaxLost,       \* bound: how many requests or answers are lost
    None

ASSUME DraftAssumption ==
    /\ First \in Values /\ None \notin Values
    /\ MaxPresses \in Nat /\ MaxLost \in Nat

VARIABLES
    log,       \* the record at each version, and the tab that wrote it
    served,    \* the record as each tab last read it
    fetch,     \* the record as a read on its way to a tab answers it, or None
    owed,      \* tabs told to read the record again
    holds,     \* the hold of each field in each tab, or None
    queue,     \* a tab's writes of the record that are not answered
    stray,     \* writes whose tab gave up on an answer
    moved,     \* versions a tab's own answers moved the record on from
    presses,   \* how often the analysts changed a field
    lost       \* how many requests or answers were lost

vars == <<log, served, fetch, owed, holds, queue, stray, moved, presses, lost>>

-----------------------------------------------------------------------------
Version == Len(log)

Record == [version |-> Version, val |-> log[Version].val]

Fresh(base, read, mine, again) ==
    [base |-> base, read |-> read, mine |-> mine, sending |-> FALSE, refused |-> FALSE,
     again |-> again, theirs |-> None, failed |-> FALSE]

Init ==
    /\ log = <<[by |-> None, val |-> [f \in Fields |-> First]]>>
    /\ served = [t \in Tabs |-> [version |-> 1, val |-> [f \in Fields |-> First]]]
    /\ fetch = [t \in Tabs |-> None]
    /\ owed = {}
    /\ holds = [t \in Tabs |-> [f \in Fields |-> None]]
    /\ queue = [t \in Tabs |-> <<>>]
    /\ stray = {}
    /\ moved = [t \in Tabs |-> {}]
    /\ presses = 0
    /\ lost = 0

-----------------------------------------------------------------------------
(* Mutant: a hold takes the newer version whatever its field holds.        *)
JudgeNewer(x, value, version) ==
    IF x = None THEN None
    ELSE IF version <= x.read \/ x.sending THEN x
    ELSE IF value = x.mine \/ x.mine = x.base THEN None
    ELSE Fresh(x.base, version, x.mine, x.refused \/ x.again)

(* judge(): one held field against a record served again.                  *)
Judge(x, value, version) ==
    IF x = None THEN None
    ELSE IF version <= x.read \/ x.sending THEN x
    ELSE IF value = x.mine \/ x.mine = x.base THEN None
    ELSE IF value = x.base THEN Fresh(x.base, version, x.mine, x.refused \/ x.again)
    ELSE [Fresh(x.base, x.read, x.mine, FALSE) EXCEPT
             !.theirs = [value |-> value, version |-> version]]

Reconciled(h, s) == [f \in Fields |-> Judge(h[f], s.val[f], s.version)]

(* Mutant: a refusal after the newer record arrived waits for another.     *)
RedrawnNot(h, s) == h

(* A write refused after the newer record arrived is judged against it.    *)
Redrawn(h, s) ==
    IF \E f \in Fields : h[f] # None /\ h[f].refused /\ ~h[f].sending /\ s.version > h[f].read
    THEN Reconciled(h, s) ELSE h

(* What the effect finds owed once no write of the field is out.           *)
Owed(h) ==
    {f \in Fields : h[f] # None /\ h[f].again /\ ~h[f].sending /\ h[f].theirs = None}

Out(x) == [x EXCEPT !.sending = TRUE, !.again = FALSE, !.refused = FALSE, !.failed = FALSE]

Sent(h, S) == [f \in Fields |-> IF f \in S THEN Out(h[f]) ELSE h[f]]

(* readOf(): the oldest version any of these fields was read at.           *)
ReadOf(h, S) == CHOOSE v \in {h[f].read : f \in S} : \A f \in S : v <= h[f].read

(* Mutant: the version is the record's as it is when the write is sent.    *)
RequestNow(t, h, S) ==
    [tab |-> t, at |-> "queued", read |-> served[t].version, stated |-> 0,
     vals |-> [f \in S |-> h[f].mine],
     over |-> [f \in S |-> h[f].base], seen |-> [f \in S |-> h[f].read]]

(* One request for the fields S of tab t; "over" and "seen" are what its   *)
(* analyst had read in each of them, and at which version.                 *)
Request(t, h, S) ==
    [tab |-> t, at |-> "queued", read |-> ReadOf(h, S), stated |-> 0,
     vals |-> [f \in S |-> h[f].mine],
     over |-> [f \in S |-> h[f].base], seen |-> [f \in S |-> h[f].read]]

(* An act of tab t leaves the holds h, the queue q and sends the fields S; *)
(* then the tab is drawn again.                                            *)
Draw(t, h, q, S, s) ==
    LET sent == IF S = {} THEN h ELSE Sent(h, S)
        out == IF S = {} THEN q ELSE Append(q, Request(t, h, S))
        drawn == Redrawn(sent, s)
        more == Owed(drawn)
    IN  /\ holds' = [holds EXCEPT ![t] = IF more = {} THEN drawn ELSE Sent(drawn, more)]
        /\ queue' = [queue EXCEPT ![t] = IF more = {} THEN out
                                         ELSE Append(out, Request(t, drawn, more))]

-----------------------------------------------------------------------------
(* What the analyst does in a field.                                       *)
Pressed == presses < MaxPresses /\ presses' = presses + 1

Begun(t, f, v) == Fresh(served[t].val[f], served[t].version, v, FALSE)

(* set(): the field is held, against the record as it is drawn.            *)
Holding(t, f, v) ==
    [holds[t] EXCEPT ![f] = IF @ = None THEN Begun(t, f, v)
                            ELSE [@ EXCEPT !.mine = v, !.failed = FALSE]]

Entered(t, f) == {v \in Values : <<t, f, v>> \in Entries}

Set(t, f) ==
    /\ Pressed
    /\ \E v \in Entered(t, f) : Draw(t, Holding(t, f, v), queue[t], {}, served[t])
    /\ UNCHANGED <<log, served, fetch, owed, stray, moved, lost>>

(* leave(): a dispute or a refusal is not settled by leaving.              *)
Leave(t, f) ==
    LET x == holds[t][f]
    IN  /\ x # None /\ x.theirs = None /\ ~x.refused
        /\ \/ /\ x.sending
              /\ Draw(t, [holds[t] EXCEPT ![f] = [x EXCEPT !.again = TRUE]],
                      queue[t], {}, served[t])
           \/ /\ ~x.sending /\ x.mine = x.base
              /\ Draw(t, [holds[t] EXCEPT ![f] = None], queue[t], {}, served[t])
           \/ /\ ~x.sending /\ x.mine # x.base
              /\ Draw(t, holds[t], queue[t], {f}, served[t])
    /\ UNCHANGED <<log, served, fetch, owed, stray, moved, presses, lost>>

(* commit(): a choice made in one act is sent at once.                     *)
Commit(t, f) ==
    /\ Pressed
    /\ \E v \in Entered(t, f) :
          LET h == Holding(t, f, v)
          IN  IF holds[t][f] # None /\ holds[t][f].sending
              THEN Draw(t, [h EXCEPT ![f] = [@ EXCEPT !.again = TRUE]],
                        queue[t], {}, served[t])
              ELSE Draw(t, h, queue[t], IF h[f].theirs = None THEN {f} ELSE {}, served[t])
    /\ UNCHANGED <<log, served, fetch, owed, stray, moved, lost>>

KeepMine(t, f) ==
    LET x == holds[t][f]
    IN  /\ x # None /\ x.theirs # None
        /\ Draw(t, [holds[t] EXCEPT ![f] = Fresh(x.theirs.value, x.theirs.version, x.mine, FALSE)],
                queue[t], {f}, served[t])
        /\ UNCHANGED <<log, served, fetch, owed, stray, moved, presses, lost>>

TakeTheirs(t, f) ==
    /\ holds[t][f] # None /\ holds[t][f].theirs # None
    /\ Draw(t, [holds[t] EXCEPT ![f] = None], queue[t], {}, served[t])
    /\ UNCHANGED <<log, served, fetch, owed, stray, moved, presses, lost>>

-----------------------------------------------------------------------------
(* Mutant: the version read is stated as it is.                            *)
AdvancesNot(t, read, version) == version = read

(* advance(): on from the version read, through this tab's own answers     *)
(* only.                                                                   *)
Advances(t, read, version) ==
    /\ version >= read /\ version \notin moved[t]
    /\ \A v \in read..(version - 1) : v \in moved[t]

(* writeRow(): a write leaves once this tab's earlier one is answered.     *)
Start(t) ==
    /\ queue[t] # <<>> /\ Head(queue[t]).at = "queued"
    /\ \E v \in 1..Version :
          /\ Advances(t, Head(queue[t]).read, v)
          /\ queue' = [queue EXCEPT ![t] =
                <<[Head(@) EXCEPT !.at = "out", !.stated = v]>> \o Tail(@)]
    /\ UNCHANGED <<log, served, fetch, owed, holds, stray, moved, presses, lost>>

(* The server takes a write that states the version the record is on, and  *)
(* tells every tab.                                                        *)
Stored(q) ==
    /\ log' = Append(log, [by |-> q.tab,
                val |-> [f \in Fields |-> IF f \in DOMAIN q.vals THEN q.vals[f]
                                          ELSE log[Version].val[f]]])
    /\ owed' = Tabs

Became(t, at) == queue' = [queue EXCEPT ![t] = <<[Head(@) EXCEPT !.at = at]>> \o Tail(@)]

Handle(t) ==
    /\ queue[t] # <<>> /\ Head(queue[t]).at = "out"
    /\ \/ /\ Head(queue[t]).stated = Version
          /\ Stored(Head(queue[t])) /\ Became(t, "done")
       \/ /\ Head(queue[t]).stated # Version
          /\ Became(t, "refused") /\ UNCHANGED <<log, owed>>
    /\ UNCHANGED <<served, fetch, holds, stray, moved, presses, lost>>

(* A write whose tab gave up arrives all the same.                         *)
HandleStray(q) ==
    /\ stray' = stray \ {q}
    /\ IF q.stated = Version THEN Stored(q) ELSE UNCHANGED <<log, owed>>
    /\ UNCHANGED <<served, fetch, holds, queue, moved, presses, lost>>

-----------------------------------------------------------------------------
(* The answer, or the refusal, of a tab's write; then the record is read   *)
(* again.                                                                  *)
AnsweredHold(x, value, at) ==
    IF x.mine = value THEN Fresh(value, at, value, FALSE) ELSE Fresh(value, at, x.mine, x.again)

Answer(t) ==
    /\ queue[t] # <<>> /\ Head(queue[t]).at = "done"
    /\ LET q == Head(queue[t])
       IN  /\ moved' = [moved EXCEPT ![t] = @ \cup {q.stated}]
           /\ Draw(t, [f \in Fields |-> IF f \in DOMAIN q.vals /\ holds[t][f] # None
                         THEN AnsweredHold(holds[t][f], q.vals[f], q.stated + 1)
                         ELSE holds[t][f]],
                   Tail(queue[t]), {}, served[t])
    /\ owed' = owed \cup {t}
    /\ UNCHANGED <<log, served, fetch, stray, presses, lost>>

NotStored(t, refused) ==
    /\ Draw(t, [f \in Fields |-> IF f \in DOMAIN Head(queue[t]).vals /\ holds[t][f] # None
                  THEN [holds[t][f] EXCEPT !.sending = FALSE, !.refused = @ \/ refused,
                                           !.failed = @ \/ ~refused]
                  ELSE holds[t][f]],
            Tail(queue[t]), {}, served[t])
    /\ owed' = owed \cup {t}

Refused(t) ==
    /\ queue[t] # <<>> /\ Head(queue[t]).at = "refused"
    /\ NotStored(t, TRUE)
    /\ UNCHANGED <<log, served, fetch, stray, moved, presses, lost>>

(* The connection fails: the write may have been stored, may never be, or  *)
(* may be later.                                                           *)
Fails(t) ==
    /\ queue[t] # <<>> /\ Head(queue[t]).at \in {"out", "done", "refused"} /\ lost < MaxLost
    /\ lost' = lost + 1
    /\ stray' = IF Head(queue[t]).at = "out" THEN stray \cup {Head(queue[t])} ELSE stray
    /\ NotStored(t, FALSE)
    /\ UNCHANGED <<log, served, fetch, moved, presses>>

-----------------------------------------------------------------------------
(* The record is read again, in place of a read on its way, and drawn; one *)
(* that says the same is the object drawn already.                         *)
Fetch(t) ==
    /\ t \in owed
    /\ owed' = owed \ {t}
    /\ fetch' = [fetch EXCEPT ![t] = Record]
    /\ UNCHANGED <<log, served, holds, queue, stray, moved, presses, lost>>

Deliver(t) ==
    /\ fetch[t] # None
    /\ fetch' = [fetch EXCEPT ![t] = None]
    /\ served' = [served EXCEPT ![t] = fetch[t]]
    /\ IF fetch[t] = served[t] THEN UNCHANGED <<holds, queue>>
       ELSE Draw(t, Reconciled(holds[t], fetch[t]), queue[t], {}, fetch[t])
    /\ UNCHANGED <<log, owed, stray, moved, presses, lost>>

-----------------------------------------------------------------------------
Acts(t) == \E f \in Fields : Set(t, f) \/ Leave(t, f) \/ Commit(t, f)
                             \/ KeepMine(t, f) \/ TakeTheirs(t, f)

(* A tab's writes of the record, one after another.                        *)
Writes(t) == Start(t) \/ Handle(t) \/ Answer(t) \/ Refused(t)

Next ==
    \/ \E t \in Tabs : Acts(t) \/ Writes(t) \/ Fails(t) \/ Fetch(t) \/ Deliver(t)
    \/ \E q \in stray : HandleStray(q)

Spec == Init /\ [][Next]_vars

(* Requests are answered or fail, and the record is read when it is owed.  *)
FairSpec ==
    Spec /\ \A t \in Tabs : WF_vars(Writes(t)) /\ WF_vars(Fetch(t)) /\ WF_vars(Deliver(t))
-----------------------------------------------------------------------------
Holds ==
    [base : Values, read : 1..Version, mine : Values, sending : BOOLEAN, refused : BOOLEAN,
     again : BOOLEAN, failed : BOOLEAN,
     theirs : {None} \cup [value : Values, version : 1..Version]]

TypeOK ==
    /\ \A v \in 1..Version : log[v].by \in Tabs \cup {None} /\ log[v].val \in [Fields -> Values]
    /\ served \in [Tabs -> [version : 1..Version, val : [Fields -> Values]]]
    /\ holds \in [Tabs -> [Fields -> {None} \cup Holds]]
    /\ \A t \in Tabs : moved[t] \subseteq 1..(Version - 1)
    /\ owed \subseteq Tabs
    /\ \A q \in stray : q.stated \in 1..Version

(* The writes that may still reach the server.                             *)
Arriving == stray \cup {Head(queue[t]) : t \in {u \in Tabs : queue[u] # <<>>}}

(* state/design.md, "A version is captured with what the analyst looked    *)
(* at": a write the server would take replaces, in each of its fields,     *)
(* what its analyst had read there, and every version of the record since  *)
(* was written by that same tab.                                           *)
OverwritesOnlyWhatWasRead ==
    \A q \in Arriving : q.at = "out" /\ q.stated = Version =>
        \A f \in DOMAIN q.vals :
            /\ log[q.seen[f]].val[f] = q.over[f]
            /\ \A v \in (q.seen[f] + 1)..Version : log[v].by = q.tab

(* state/spec.md: one analyst's writes to one record are not refused       *)
(* against each other; with no answer lost, somebody else's is why.        *)
RefusedByOthersOnly ==
    \A t \in Tabs : queue[t] # <<>> /\ Head(queue[t]).at = "refused" /\ lost = 0 =>
        \E v \in (Head(queue[t]).stated + 1)..Version : log[v].by # t

(* A change on its way, or refused and waiting for the record to be read.  *)
Waits(x) == x # None /\ (x.sending \/ x.refused \/ x.again)

(* state/design.md, "A collision is settled by a choice": a change that    *)
(* was left is stored, or shown beside another's or as one that failed;    *)
(* none waits for ever to be sent, answered or judged.                     *)
ChangesSettle == \A t \in Tabs, f \in Fields : []<>~Waits(holds[t][f])

(* rowDraft.ts: a field with nothing of the analyst's own left in it shows *)
(* what the server holds, once everything was answered and read again.     *)
DrawnIsServed ==
    \A t \in Tabs : queue[t] = <<>> /\ fetch[t] = None /\ t \notin owed =>
        \A f \in Fields : holds[t][f] # None /\ holds[t][f].mine = holds[t][f].base =>
            holds[t][f].mine = log[Version].val[f]
=============================================================================
