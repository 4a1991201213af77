------------------------------ MODULE CaseRows ------------------------------
(***************************************************************************)
(* The rows of one case and every way the server writes them:              *)
(* server/src/collections (collection.service.ts, write-guards.ts,         *)
(* bulk-delete, reference-check), server/src/db/mutate.ts and the          *)
(* announcement rule of server/src/db/act.ts, over PostgreSQL at READ      *)
(* COMMITTED.                                                              *)
(*                                                                         *)
(* An analyst's screen is a copy of the rows; a request carries the        *)
(* versions that copy shows.  A request runs as a sequence of statements;  *)
(* what it has written and not committed is tx[u], a partial function from *)
(* rows to their new value, and a row in DOMAIN tx[u] is locked by it.     *)
(* A row carries what the rules tell apart: the two fields of the one      *)
(* cross-field rule (kind, scoped), a position, a reference that is a      *)
(* foreign key (one) and a list of references, which is plain jsonb and    *)
(* no key (many).                                                          *)
(***************************************************************************)
EXTENDS Naturals, Sequences, FiniteSets

CONSTANTS
    Analysts,       \* each has one screen and at most one request in flight
    Rows,           \* row ids; numbers, because a reorder locks in id order
    Existing,       \* the rows the case starts with
    Collections,
    CollectionOf,   \* which collection a row's id belongs to
    Patches,        \* the changes a client may send
    Ops,            \* the operations this instance lets the clients ask for
    MaxVersion,     \* bound: no row is written past this version
    MaxRequests,    \* bound: how many requests one analyst makes
    Absent,         \* no such row
    None            \* a reference that names nothing

ASSUME RowsAssumption ==
    /\ Rows \subseteq Nat /\ IsFiniteSet(Rows)
    /\ Existing \subseteq Rows
    /\ CollectionOf \in [Rows -> Collections]
    /\ MaxVersion \in Nat \ {0} /\ MaxRequests \in Nat

(* A row's values: the columns every case-owned row has, and those the     *)
(* rules here tell apart.                                                  *)
Values == [version : Nat \ {0}, pos : Nat, kind : {"address", "domain"},
           scoped : BOOLEAN, one : Rows \cup {None}, many : SUBSET Rows]

(* A patch names some of the fields and gives each a value it can hold.    *)
ASSUME PatchesAssumption ==
    \A p \in Patches :
        /\ DOMAIN p \subseteq {"kind", "scoped", "one", "many"}
        /\ "kind" \in DOMAIN p => p.kind \in {"address", "domain"}
        /\ "scoped" \in DOMAIN p => p.scoped \in BOOLEAN
        /\ "one" \in DOMAIN p => p.one \in Rows \cup {None}
        /\ "many" \in DOMAIN p => p.many \in SUBSET Rows

ASSUME AbsentAssumption == Absent \notin Values /\ None \notin Rows

VARIABLES
    rows,      \* the committed rows
    feed,      \* change_feed, per row, in the order it was committed
    tx,        \* per analyst, what their request has written and not committed
    req,       \* per analyst, the request in flight
    screen,    \* per analyst, the rows as their screen last read them
    told,      \* per analyst, whether an announcement has not been read yet:
               \* "no", "told", or "missed" when its publish failed
    asked      \* per analyst, how many requests they have made

vars == <<rows, feed, tx, req, screen, told, asked>>

-----------------------------------------------------------------------------
Blank == [version |-> 1, pos |-> 0, kind |-> "address", scoped |-> FALSE,
          one |-> None, many |-> {}]

Patched(row, patch) ==
    LET set(f) == IF f \in DOMAIN patch THEN patch[f] ELSE row[f]
    IN  [version |-> row.version, pos |-> set("pos"), kind |-> set("kind"),
         scoped |-> set("scoped"), one |-> set("one"), many |-> set("many")]

(* The rule a patch body cannot answer: a scope on what is not an address. *)
Legal(row) == ~ (row.kind = "domain" /\ row.scoped)

(* The ids a patch points at. *)
IdsIn(patch) ==
    (IF "one" \in DOMAIN patch THEN {patch.one} \ {None} ELSE {})
        \cup (IF "many" \in DOMAIN patch THEN patch.many ELSE {})

Present == {r \in Rows : rows[r] # Absent}

Request(op, at, sent, patch, order, todo, born) ==
    [op |-> op, at |-> at, sent |-> sent, patch |-> patch,
     order |-> order, todo |-> todo, born |-> born, refused |-> FALSE]

Idle == Request("idle", "idle", <<>>, <<>>, <<>>, {}, {})

Named(u) == DOMAIN req[u].sent

Written(u) == DOMAIN tx[u]

(* The rows as u's own transaction sees them.                              *)
View(u) == [r \in Rows |-> IF r \in Written(u) THEN tx[u][r] ELSE rows[r]]

(* Mutant: the version is read again just before the write. *)
UnmovedSinceNow(u) == {r \in Named(u) : View(u)[r] # Absent}

(* The named rows that still are what the caller read.                     *)
Unmoved(u) ==
    {r \in Named(u) : View(u)[r] # Absent /\ View(u)[r].version = req[u].sent[r]}

-----------------------------------------------------------------------------
(* PostgreSQL: what a statement of u waits for.  Writing or deleting a row *)
(* waits for the transaction that holds it; a row that names another by    *)
(* foreign key waits for the delete of it, and the delete for the row.     *)
NamersOf(u, S) ==
    {h \in Rows \ S : View(u)[h] # Absent /\ View(u)[h].one \in S}

BlockedBy(u, touched, deleted, named) ==
    {v \in Analysts \ {u} :
        \/ touched \cap Written(v) # {}
        \/ \E r \in named \cap Written(v) : tx[v][r] = Absent
        \/ \E h \in Written(v) : tx[v][h] # Absent /\ tx[v][h].one \in deleted}

References(u) == IF "one" \in DOMAIN req[u].patch THEN {req[u].patch.one} \ {None} ELSE {}

UpdateWaitsFor(u) == BlockedBy(u, Unmoved(u), {}, References(u))

DeleteWaitsFor(u, S) == BlockedBy(u, S \cup NamersOf(u, S), S, {})

(* Rows referenced by foreign key that are not there: SQLSTATE 23503.      *)
MissingParent(u) == References(u) \ Present # {}

(* What a delete of S leaves in u's transaction: the rows gone, and the    *)
(* foreign keys naming them set null, which moves no version.              *)
Deleted(u, S) ==
    [r \in S \cup NamersOf(u, S) |->
        IF r \in S THEN Absent ELSE [View(u)[r] EXCEPT !.one = None]]

(* Mutant: a delete is recorded at the version that would have come next. *)
EntriesDeleteNext(before, after) ==
    IF before = Absent THEN <<[op |-> "insert", version |-> after.version]>>
    ELSE IF after = Absent THEN <<[op |-> "delete", version |-> before.version + 1]>>
    ELSE IF after.version # before.version
         THEN <<[op |-> "update", version |-> after.version]>>
    ELSE <<>>

(* The change-feed row a write of one row owes, or none.                   *)
Entries(before, after) ==
    IF before = Absent THEN <<[op |-> "insert", version |-> after.version]>>
    ELSE IF after = Absent THEN <<[op |-> "delete", version |-> before.version]>>
    ELSE IF after.version # before.version
         THEN <<[op |-> "update", version |-> after.version]>>
    ELSE <<>>

(* Commit w: the rows and their feed entries in one transaction.           *)
Commit(w) ==
    /\ rows' = [r \in Rows |-> IF r \in DOMAIN w THEN w[r] ELSE rows[r]]
    /\ feed' = [r \in Rows |->
                  IF r \in DOMAIN w THEN feed[r] \o Entries(rows[r], w[r]) ELSE feed[r]]

Merge(old, new) ==
    [r \in DOMAIN old \cup DOMAIN new |-> IF r \in DOMAIN new THEN new[r] ELSE old[r]]

Goto(u, at) == req' = [req EXCEPT ![u].at = at]

(* The answer the caller gets; nothing of the request is left behind.      *)
Answer(u) == req' = [req EXCEPT ![u] = Idle]

Bumped(r, patch) == [Patched(rows[r], patch) EXCEPT !.version = @ + 1]

-----------------------------------------------------------------------------
Init ==
    /\ rows = [r \in Rows |->
                 IF r \in Existing
                 THEN [Blank EXCEPT !.pos = Cardinality({s \in Existing : s < r})]
                 ELSE Absent]
    /\ feed = [r \in Rows |->
                 IF r \in Existing THEN Entries(Absent, Blank) ELSE <<>>]
    /\ tx = [u \in Analysts |-> <<>>]
    /\ req = [u \in Analysts |-> Idle]
    /\ screen = [u \in Analysts |-> rows]
    /\ told = [u \in Analysts |-> "no"]
    /\ asked = [u \in Analysts |-> 0]

(* A request leaves the screen, carrying the versions the screen shows.    *)
Ask(u, q) ==
    /\ req[u] = Idle
    /\ q.op \in Ops
    /\ asked[u] < MaxRequests
    /\ asked' = [asked EXCEPT ![u] = @ + 1]
    /\ req' = [req EXCEPT ![u] = q]
    /\ UNCHANGED <<rows, feed, tx, screen, told>>

Reads(u, S) == [r \in S |-> screen[u][r].version]

Shown(u) == {r \in Rows : screen[u][r] # Absent}

Writable(u) == {r \in Shown(u) : screen[u][r].version < MaxVersion}

AskUpdate(u) ==
    \E r \in Writable(u), p \in Patches :
        Ask(u, Request("update", "check", Reads(u, {r}), p, <<>>, {}, {}))

AskUpdateMany(u) ==
    \E S \in SUBSET Writable(u) \ {{}}, p \in Patches :
        Ask(u, Request("updateMany", "check", Reads(u, S), p, <<>>, {}, {}))

AskRemove(u) ==
    \E r \in Shown(u) :
        Ask(u, Request("remove", "write", Reads(u, {r}), <<>>, <<>>, {}, {}))

AskRemoveMany(u) ==
    \E S \in SUBSET Shown(u) \ {{}} :
        Ask(u, Request("removeMany", "counts", Reads(u, S), <<>>, <<>>,
                       {CollectionOf[r] : r \in S}, {}))

(* Every row the screen shows of one collection, in the order chosen.      *)
AskReorder(u) ==
    \E c \in Collections :
        LET S == {r \in Shown(u) : CollectionOf[r] = c}
        IN  \E order \in [1..Cardinality(S) -> S] :
              /\ S # {} /\ S \subseteq Writable(u)
              /\ {order[i] : i \in DOMAIN order} = S
              /\ Ask(u, Request("reorder", "names", Reads(u, S), <<>>, order, {}, {}))

(* New rows carry fresh ids: a row with a feed entry has been before.      *)
AskCreate(u) ==
    \E S \in SUBSET {r \in Rows : feed[r] = <<>> /\ \A v \in Analysts : r \notin req[v].born} \ {{}},
       p \in Patches :
        /\ Legal(Patched(Blank, p))
        /\ Ask(u, Request("create", "insert", <<>>, p, <<>>, {}, S))

-----------------------------------------------------------------------------
(* Mutant: the rule is asked of the patch body alone. *)
PatchBodyBroken(u) ==
    \E r \in Unmoved(u) : ~ Legal(Patched(Blank, req[u].patch))

(* update's own check transaction, and updateMany's check before its       *)
(* statement: a reference outside the case refuses, and a result that      *)
(* breaks the cross-field rule refuses - unless the row has moved, which   *)
(* the version check is left to answer.                                    *)
CrossFieldBroken(u) ==
    \E r \in Unmoved(u) : ~ Legal(Patched(rows[r], req[u].patch))

Check(u) ==
    /\ req[u].at = "check"
    /\ IF IdsIn(req[u].patch) \subseteq Present /\ ~ CrossFieldBroken(u)
       THEN Goto(u, "write")
       ELSE Answer(u)
    /\ UNCHANGED <<rows, feed, tx, screen, told, asked>>

(* updateVersioned: one UPDATE that matches id and version, and its feed   *)
(* row, committed together.  No match is a refusal, an answer.             *)
Update(u) ==
    /\ req[u].op = "update" /\ req[u].at = "write"
    /\ UpdateWaitsFor(u) = {}
    /\ IF Unmoved(u) = {} \/ MissingParent(u)
       THEN Answer(u) /\ UNCHANGED <<rows, feed>>
       ELSE /\ Commit([r \in Unmoved(u) |-> Bumped(r, req[u].patch)])
            /\ Goto(u, "announce")
    /\ UNCHANGED <<tx, screen, told, asked>>

(* updateMany: one UPDATE over the pairs still at the version they were    *)
(* read at; the others are answered refused or missing, and stay as they   *)
(* are.                                                                    *)
UpdateMany(u) ==
    /\ req[u].op = "updateMany" /\ req[u].at = "write"
    /\ UpdateWaitsFor(u) = {}
    /\ IF Unmoved(u) = {} \/ MissingParent(u)
       THEN Answer(u) /\ UNCHANGED tx
       ELSE /\ tx' = [tx EXCEPT ![u] = [r \in Unmoved(u) |-> Bumped(r, req[u].patch)]]
            /\ Goto(u, "commit")
    /\ UNCHANGED <<rows, feed, screen, told, asked>>

(* remove: the version is in the DELETE.                                   *)
Remove(u) ==
    /\ req[u].op = "remove" /\ req[u].at = "write"
    /\ DeleteWaitsFor(u, Unmoved(u)) = {}
    /\ IF Unmoved(u) = {}
       THEN Answer(u) /\ UNCHANGED <<rows, feed>>
       ELSE Commit(Deleted(u, Unmoved(u))) /\ Goto(u, "announce")
    /\ UNCHANGED <<tx, screen, told, asked>>

(* The bulk delete's question, asked in a transaction of its own: does a   *)
(* row outside the selection still name one in it?                         *)
Holders(S) ==
    {h \in Present \ S : rows[h].one \in S \/ rows[h].many \cap S # {}}

ReferenceCounts(u) ==
    /\ req[u].at = "counts"
    /\ IF Holders(Named(u)) = {} THEN Goto(u, "delete") ELSE Answer(u)
    /\ UNCHANGED <<rows, feed, tx, screen, told, asked>>

(* removeMany's loop over the collections of the selection: one DELETE     *)
(* matching (id, version) pairs, then the rows that did not go and are     *)
(* still here are refused.                                                 *)
DeleteGroup(u) ==
    \E c \in req[u].todo :
        LET gone == {r \in Unmoved(u) : CollectionOf[r] = c}
            left == {r \in Named(u) \ gone : CollectionOf[r] = c}
        IN  /\ req[u].at = "delete"
            /\ DeleteWaitsFor(u, gone) = {}
            /\ tx' = [tx EXCEPT ![u] = Merge(@, Deleted(u, gone))]
            /\ req' = [req EXCEPT
                   ![u].todo = @ \ {c},
                   ![u].refused = @ \/ \E r \in left : View(u)[r] # Absent,
                   ![u].at = IF req[u].todo = {c} THEN "commit" ELSE @]
            /\ UNCHANGED <<rows, feed, screen, told, asked>>

(* reorder reads the named rows and then, in a statement of its own, the   *)
(* rows of their collection, to lock each in id order.  This step is the   *)
(* second read: a row named by the first and gone by the second is missed  *)
(* among those locked, and refuses as one the first does not find.         *)
ReorderNames(u) ==
    /\ req[u].at = "names"
    /\ IF Named(u) \subseteq Present
       THEN req' = [req EXCEPT ![u].at = "lock",
                               ![u].todo = {r \in Present :
                                     \E s \in Named(u) : CollectionOf[r] = CollectionOf[s]}]
       ELSE Answer(u)
    /\ UNCHANGED <<rows, feed, tx, screen, told, asked>>

(* Mutant: the rows are locked in the order the caller sent. *)
NextAsSent(u) ==
    IF req[u].todo \subseteq Named(u)
    THEN req[u].order[CHOOSE i \in 1..Len(req[u].order) :
            /\ req[u].order[i] \in req[u].todo
            /\ \A j \in 1..(i - 1) : req[u].order[j] \notin req[u].todo]
    ELSE CHOOSE r \in req[u].todo : \A s \in req[u].todo : r <= s

(* FOR UPDATE takes them one at a time, waiting at each; one deleted       *)
(* meanwhile is not in the answer.                                         *)
NextToLock(u) == CHOOSE r \in req[u].todo : \A s \in req[u].todo : r <= s

ReorderLock(u) ==
    /\ req[u].at = "lock" /\ req[u].todo # {}
    /\ BlockedBy(u, {NextToLock(u)}, {}, {}) = {}
    /\ tx' = [tx EXCEPT ![u] = Merge(@, [r \in {NextToLock(u)} \cap Present |-> rows[r]])]
    /\ req' = [req EXCEPT ![u].todo = @ \ {NextToLock(u)}]
    /\ UNCHANGED <<rows, feed, screen, told, asked>>

(* Mutant: the rows are compared by name and not by version. *)
ReorderWhateverMoved(u) ==
    LET at(r) == (CHOOSE i \in 1..Len(req[u].order) : req[u].order[i] = r) - 1
        moved == {r \in Named(u) \cap Written(u) : rows[r].pos # at(r)}
    IN  /\ req[u].at = "lock" /\ req[u].todo = {}
        /\ IF Cardinality(Written(u)) = Len(req[u].order) /\ moved # {}
           THEN /\ Commit([r \in moved |-> Bumped(r, [pos |-> at(r)])])
                /\ Goto(u, "announce")
           ELSE Answer(u) /\ UNCHANGED <<rows, feed>>
        /\ tx' = [tx EXCEPT ![u] = <<>>]
        /\ UNCHANGED <<screen, told, asked>>

(* Mutant: a refused reorder returns with its transaction left open. *)
ReorderLeftOpen(u) ==
    /\ req[u].at = "lock" /\ req[u].todo = {}
    /\ Answer(u)
    /\ UNCHANGED <<rows, feed, tx, screen, told, asked>>

(* The whole collection or nothing, and nothing that moved since; then     *)
(* only the rows whose position changes are written.                       *)
ReorderWrite(u) ==
    LET at(r) == (CHOOSE i \in 1..Len(req[u].order) : req[u].order[i] = r) - 1
        moved == {r \in Named(u) : rows[r].pos # at(r)}
    IN  /\ req[u].at = "lock" /\ req[u].todo = {}
        /\ IF /\ Cardinality(Written(u)) = Len(req[u].order)
              /\ \A r \in Named(u) : r \in Written(u) /\ tx[u][r].version = req[u].sent[r]
              /\ moved # {}
           THEN /\ Commit([r \in moved |-> Bumped(r, [pos |-> at(r)])])
                /\ Goto(u, "announce")
           ELSE Answer(u) /\ UNCHANGED <<rows, feed>>
        /\ tx' = [tx EXCEPT ![u] = <<>>]
        /\ UNCHANGED <<screen, told, asked>>

(* createMany and createAcross: every reference of every row is checked,   *)
(* then the rows are inserted, in one transaction.                         *)
Insert(u) ==
    /\ req[u].at = "insert"
    /\ IF IdsIn(req[u].patch) \subseteq Present
       THEN /\ tx' = [tx EXCEPT ![u] = [r \in req[u].born |-> Patched(Blank, req[u].patch)]]
            /\ Goto(u, "commit")
       ELSE Answer(u) /\ UNCHANGED tx
    /\ UNCHANGED <<rows, feed, screen, told, asked>>

(* Mutant: the refused rows are answered and the rest of the selection goes. *)
CommitWhatWent(u) ==
    /\ req[u].at = "commit"
    /\ Commit(tx[u])
    /\ IF Written(u) = {} THEN Answer(u) ELSE Goto(u, "announce")
    /\ tx' = [tx EXCEPT ![u] = <<>>]
    /\ UNCHANGED <<screen, told, asked>>

(* Mutant: an act of several statements commits and tells nobody. *)
CommitInSilence(u) ==
    /\ req[u].at = "commit"
    /\ IF req[u].refused THEN UNCHANGED <<rows, feed>> ELSE Commit(tx[u])
    /\ Answer(u)
    /\ tx' = [tx EXCEPT ![u] = <<>>]
    /\ UNCHANGED <<screen, told, asked>>

(* The end of a transaction of more than one statement: thrown where a row *)
(* was refused, and committed otherwise.                                   *)
CommitRequest(u) ==
    /\ req[u].at = "commit"
    /\ IF req[u].refused
       THEN Answer(u) /\ UNCHANGED <<rows, feed>>
       ELSE /\ Commit(tx[u])
            /\ IF Written(u) = {} THEN Answer(u) ELSE Goto(u, "announce")
    /\ tx' = [tx EXCEPT ![u] = <<>>]
    /\ UNCHANGED <<screen, told, asked>>

(* After the commit, and only then, every screen on the case is told; the  *)
(* writer's own too.  A publish that fails is logged, and no screen hears  *)
(* of the write until the next one (case-channel.service.ts:169-172).      *)
Announce(u) ==
    /\ req[u].at = "announce"
    /\ \/ told' = [v \in Analysts |-> "told"]
       \/ told' = [v \in Analysts |-> IF told[v] = "told" THEN "told" ELSE "missed"]
    /\ Answer(u)
    /\ UNCHANGED <<rows, feed, tx, screen, asked>>

(* A statement fails, the connection is lost or the database picks the     *)
(* transaction to break a deadlock: everything it wrote is rolled back.    *)
Abort(u) ==
    /\ req[u].at \in {"write", "delete", "lock", "commit"}
    /\ tx' = [tx EXCEPT ![u] = <<>>]
    /\ Answer(u)
    /\ UNCHANGED <<rows, feed, screen, told, asked>>

(* The process stops between any two steps.  Every socket drops with it,   *)
(* and a screen whose socket comes back reads the whole case again.        *)
Crash ==
    /\ \E u \in Analysts : req[u] # Idle
    /\ tx' = [u \in Analysts |-> <<>>]
    /\ req' = [u \in Analysts |-> Idle]
    /\ told' = [u \in Analysts |-> "told"]
    /\ UNCHANGED <<rows, feed, screen, asked>>

(* The screen reads the case again.                                        *)
Refresh(u) ==
    /\ told[u] = "told"
    /\ told' = [told EXCEPT ![u] = "no"]
    /\ screen' = [screen EXCEPT ![u] = rows]
    /\ UNCHANGED <<rows, feed, tx, req, asked>>

Serve(u) ==
    \/ Check(u) \/ Update(u) \/ UpdateMany(u) \/ Remove(u)
    \/ ReferenceCounts(u) \/ DeleteGroup(u)
    \/ ReorderNames(u) \/ ReorderLock(u) \/ ReorderWrite(u)
    \/ Insert(u) \/ CommitRequest(u) \/ Announce(u)

Next ==
    \/ \E u \in Analysts :
          \/ AskUpdate(u) \/ AskUpdateMany(u) \/ AskRemove(u) \/ AskRemoveMany(u)
          \/ AskReorder(u) \/ AskCreate(u)
          \/ Serve(u) \/ Abort(u) \/ Refresh(u)
    \/ Crash

Spec == Init /\ [][Next]_vars

-----------------------------------------------------------------------------
(* PostgreSQL picks a victim when transactions wait for one another in a   *)
(* circle; nothing else makes a waiting statement give up.                 *)
WaitsFor(u) ==
    CASE req[u].at = "write" /\ req[u].op # "remove" -> UpdateWaitsFor(u)
      [] req[u].at = "write" /\ req[u].op = "remove" -> DeleteWaitsFor(u, Unmoved(u))
      [] req[u].at = "delete" ->
            UNION {DeleteWaitsFor(u, {r \in Unmoved(u) : CollectionOf[r] = c}) : c \in req[u].todo}
      [] req[u].at = "lock" /\ req[u].todo # {} -> BlockedBy(u, {NextToLock(u)}, {}, {})
      [] OTHER -> {}

Deadlocked(u, v) == u \in WaitsFor(v) /\ v \in WaitsFor(u)

DeadlockVictim(u) == (\E v \in Analysts : Deadlocked(u, v)) /\ Abort(u)

FairSpec ==
    /\ Spec
    /\ \A u \in Analysts :
          /\ WF_vars(Serve(u)) /\ WF_vars(DeadlockVictim(u)) /\ WF_vars(Refresh(u))

=============================================================================
