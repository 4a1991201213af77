---------------------------- MODULE MergeReviews ----------------------------
(***************************************************************************)
(* The refused saves an analyst still has to answer:                       *)
(* server/src/collections/conflicts.service.ts, and the PATCH doors that   *)
(* record them (entities.controller.ts, timeline.controller.ts).           *)
(*                                                                         *)
(* A save is an UPDATE that names the version its row was read at.  One    *)
(* that is refused is kept in a transaction of its own, one record for     *)
(* each analyst and row; pending() and resolve() read the records in one   *)
(* transaction, the rows in others, and delete in another.  A session is a *)
(* tab: an analyst with two of them is two writers.                        *)
(***************************************************************************)
EXTENDS Naturals, FiniteSets

CONSTANTS
    Analysts,
    Sessions,       \* the tabs, each with at most one request in flight
    OwnerOf,        \* whose tab it is
    Rows,
    Fields,
    Texts,          \* what a field may hold
    Blank,          \* what every field holds at first
    Forms,          \* the changes this instance's tabs save
    Ops,            \* the operations this instance lets the tabs ask for
    MaxVersion,     \* bound: no row is written past this version
    MaxRequests,    \* bound: how many requests each tab makes
    Absent          \* no such row, no such record

ASSUME ReviewsAssumption ==
    /\ OwnerOf \in [Sessions -> Analysts]
    /\ MaxVersion \in Nat \ {0}
    /\ MaxRequests \in [Sessions -> Nat]
    /\ Blank \in Texts

(* The fields a save changes, and the same fields as the form showed them. *)
Edits == UNION {[F -> Texts] : F \in SUBSET Fields \ {{}}}

ASSUME FormsAssumption == Forms \subseteq Edits

RowValues == [version : 1..MaxVersion, text : [Fields -> Texts]]

(* id tells a record from the one that took its place after a delete.      *)
Records == [id : Nat, base : Edits, mine : Edits]

ASSUME AbsentIsNone == Absent \notin RowValues \cup Records \cup Edits

VARIABLES
    rows,      \* the committed rows
    held,      \* per analyst and row, the refused save kept for them
    serial,    \* how many records there have been
    copy,      \* per tab, the rows as its screen last read them
    review,    \* per tab, the rows its open review shows, at which version
    req,       \* per tab, the request in flight
    asked,     \* per tab, how many requests it has made
    owed,      \* per analyst and row, the edit last answered 409 and not since
               \* answered by the analyst or found to agree
    between    \* per analyst, the rows whose last refusal was recorded while
               \* another of their tabs had read the records and not yet deleted

vars == <<rows, held, serial, copy, review, req, asked, owed, between>>

-----------------------------------------------------------------------------
Idle == [at |-> "idle"]

Mine(s) == held[OwnerOf[s]]

Answer(s) == req' = [req EXCEPT ![s] = Idle]

(* Mutant: a second refusal of a row leaves the record of the first. *)
UpsertedNothing(old, base, mine) ==
    IF old = Absent THEN [id |-> serial, base |-> base, mine |-> mine] ELSE old

(* Drizzle's onConflictDoUpdate on (case, analyst, row): the record keeps  *)
(* its id and takes the newer edit.                                        *)
Upserted(old, base, mine) ==
    IF old = Absent THEN [id |-> serial, base |-> base, mine |-> mine]
    ELSE [old EXCEPT !.base = base, !.mine = mine]

(* Both moved the field, and to different answers.                         *)
Disagreement(record, row) ==
    {f \in DOMAIN record.mine :
        /\ row.text[f] # record.base[f]
        /\ record.mine[f] # record.base[f]
        /\ record.mine[f] # row.text[f]}

Written(row, mine) ==
    [version |-> row.version + 1,
     text |-> [f \in Fields |-> IF f \in DOMAIN mine THEN mine[f] ELSE row.text[f]]]

Init ==
    /\ rows = [r \in Rows |-> [version |-> 1, text |-> [f \in Fields |-> Blank]]]
    /\ held = [a \in Analysts |-> [r \in Rows |-> Absent]]
    /\ serial = 0
    /\ copy = [s \in Sessions |-> rows]
    /\ review = [s \in Sessions |-> <<>>]
    /\ req = [s \in Sessions |-> Idle]
    /\ asked = [s \in Sessions |-> 0]
    /\ owed = [a \in Analysts |-> [r \in Rows |-> Absent]]
    /\ between = [a \in Analysts |-> {}]

-----------------------------------------------------------------------------
Ask(s, op, request) ==
    /\ req[s] = Idle /\ op \in Ops
    /\ asked[s] < MaxRequests[s]
    /\ asked' = [asked EXCEPT ![s] = @ + 1]
    /\ req' = [req EXCEPT ![s] = request]
    /\ UNCHANGED <<rows, held, serial, copy, review, owed, between>>

(* A form is saved: the changed fields, what they were, and the version.   *)
Save(s) ==
    \E r \in Rows, mine \in Forms :
        /\ copy[s][r] # Absent
        /\ copy[s][r].version < MaxVersion
        /\ \A f \in DOMAIN mine : mine[f] # copy[s][r].text[f]
        /\ Ask(s, "save",
               [at |-> "save", row |-> r, version |-> copy[s][r].version, mine |-> mine,
                base |-> [f \in DOMAIN mine |-> copy[s][r].text[f]]])

(* The UPDATE, and the read that tells a refusal from a row that is gone.  *)
Write(s) ==
    LET r == req[s].row
    IN  /\ req[s].at = "save"
        /\ IF rows[r] = Absent THEN Answer(s) /\ UNCHANGED rows
           ELSE IF rows[r].version # req[s].version
           THEN req' = [req EXCEPT ![s].at = "record"] /\ UNCHANGED rows
           ELSE /\ rows' = [rows EXCEPT ![r] = Written(@, req[s].mine)]
                /\ Answer(s)
        /\ UNCHANGED <<held, serial, copy, review, asked, owed, between>>

(* A tab of the analyst holds records it has read and may go on to delete. *)
Reading(a) ==
    \E s \in Sessions :
        OwnerOf[s] = a /\ req[s].at \in {"judge", "resolve", "overwrite"}

(* record(): the refused edit is kept, and then the 409 is answered.       *)
Record(s) ==
    LET r == req[s].row
        a == OwnerOf[s]
    IN  /\ req[s].at = "record"
        /\ held' = [held EXCEPT ![a][r] = Upserted(@, req[s].base, req[s].mine)]
        /\ serial' = IF held[a][r] = Absent THEN serial + 1 ELSE serial
        /\ owed' = [owed EXCEPT ![a][r] = req[s].mine]
        /\ between' = [between EXCEPT ![a] = IF Reading(a) THEN @ \cup {r} ELSE @ \ {r}]
        /\ Answer(s)
        /\ UNCHANGED <<rows, copy, review, asked>>

(* A row is deleted by whoever shows its present version.                  *)
Remove(s) ==
    \E r \in Rows :
        /\ "remove" \in Ops /\ req[s] = Idle /\ asked[s] < MaxRequests[s]
        /\ rows[r] # Absent /\ copy[s][r] = rows[r]
        /\ rows' = [rows EXCEPT ![r] = Absent]
        /\ asked' = [asked EXCEPT ![s] = @ + 1]
        /\ UNCHANGED <<held, serial, copy, review, req, owed, between>>

(* The screen reads the case again.                                        *)
Look(s) ==
    /\ copy[s] # rows
    /\ copy' = [copy EXCEPT ![s] = rows]
    /\ UNCHANGED <<rows, held, serial, review, req, asked, owed, between>>

-----------------------------------------------------------------------------
Recorded(records) == {r \in Rows : records[r] # Absent}

(* pending(): the analyst's records are read.                              *)
Pending(s) ==
    Ask(s, "pending", [at |-> "judge", read |-> Mine(s), todo |-> Recorded(Mine(s)),
                       settled |-> {}, shown |-> <<>>])

Shows(s, r, version) ==
    [t \in DOMAIN req[s].shown \cup {r} |-> IF t = r THEN version ELSE req[s].shown[t]]

(* Then each row in turn, and a record whose fields all agree is settled.  *)
Judge(s) ==
    /\ req[s].at = "judge"
    /\ \E r \in req[s].todo :
          req' = [req EXCEPT
             ![s].todo = @ \ {r},
             ![s].settled = IF rows[r] # Absent /\ Disagreement(req[s].read[r], rows[r]) = {}
                            THEN @ \cup {r} ELSE @,
             ![s].shown = IF rows[r] = Absent THEN Shows(s, r, 0)
                          ELSE IF Disagreement(req[s].read[r], rows[r]) = {} THEN @
                          ELSE Shows(s, r, rows[r].version)]
    /\ UNCHANGED <<rows, held, serial, copy, review, asked, owed, between>>

SettledIds(s) == {req[s].read[r].id : r \in req[s].settled}

(* And the settled records are deleted, by their ids.                      *)
Drop(s) ==
    LET a == OwnerOf[s]
    IN  /\ req[s].at = "judge" /\ req[s].todo = {}
        /\ held' = [b \in Analysts |-> [r \in Rows |->
              IF held[b][r] # Absent /\ held[b][r].id \in SettledIds(s)
              THEN Absent ELSE held[b][r]]]
        /\ owed' = [owed EXCEPT ![a] = [r \in Rows |->
              IF r \in req[s].settled /\ @[r] = req[s].read[r].mine THEN Absent ELSE @[r]]]
        /\ review' = [review EXCEPT ![s] = req[s].shown]
        /\ Answer(s)
        /\ UNCHANGED <<rows, serial, copy, asked, between>>

-----------------------------------------------------------------------------
(* resolve(): an open review is answered.  The records are read again.     *)
Resolve(s) ==
    \E choice \in {"mine", "theirs"} :
        /\ DOMAIN review[s] # {}
        /\ Ask(s, "resolve",
               [at |-> "resolve", choice |-> choice, read |-> Mine(s),
                todo |-> IF choice = "mine" THEN Recorded(Mine(s)) ELSE {},
                row |-> Absent, version |-> 0, written |-> {}, gone |-> {},
                shown |-> review[s]])

(* "mine": the row is read for the version it is at now, unless it is gone. *)
ReadRow(s) ==
    /\ req[s].at = "resolve"
    /\ \E r \in req[s].todo :
          req' = [req EXCEPT
             ![s].todo = @ \ {r},
             ![s].at = IF rows[r] = Absent THEN @ ELSE "overwrite",
             ![s].row = r,
             ![s].version = IF rows[r] = Absent THEN 0 ELSE rows[r].version,
             ![s].gone = IF rows[r] = Absent THEN @ \cup {r} ELSE @]
    /\ UNCHANGED <<rows, held, serial, copy, review, asked, owed, between>>

(* Mutant: the refusal of the write is discarded. *)
OverwriteOrNot(s) ==
    LET r == req[s].row
    IN  /\ req[s].at = "overwrite"
        /\ req[s].version < MaxVersion
        /\ IF rows[r] # Absent /\ rows[r].version = req[s].version
           THEN /\ rows' = [rows EXCEPT ![r] = Written(@, req[s].read[r].mine)]
                /\ req' = [req EXCEPT ![s].at = "resolve", ![s].written = @ \cup {r}]
           ELSE req' = [req EXCEPT ![s].at = "resolve"] /\ UNCHANGED rows
        /\ UNCHANGED <<held, serial, copy, review, asked, owed, between>>

(* And written at that version; moved meanwhile, the whole answer is       *)
(* refused and every record stays.                                         *)
Overwrite(s) ==
    LET r == req[s].row
    IN  /\ req[s].at = "overwrite"
        /\ req[s].version < MaxVersion
        /\ IF rows[r] # Absent /\ rows[r].version = req[s].version
           THEN /\ rows' = [rows EXCEPT ![r] = Written(@, req[s].read[r].mine)]
                /\ req' = [req EXCEPT ![s].at = "resolve", ![s].written = @ \cup {r}]
           ELSE Answer(s) /\ UNCHANGED rows
        /\ UNCHANGED <<held, serial, copy, review, asked, owed, between>>

(* Mutant: the delete names the case and not the analyst. *)
ClearCase(s) ==
    LET a == OwnerOf[s]
    IN  /\ req[s].at = "resolve" /\ req[s].todo = {}
        /\ held' = [b \in Analysts |-> [r \in Rows |-> Absent]]
        /\ owed' = [owed EXCEPT ![a] = [r \in Rows |->
              IF req[s].read[r] # Absent /\ @[r] = req[s].read[r].mine
              THEN Absent ELSE @[r]]]
        /\ review' = [review EXCEPT ![s] = <<>>]
        /\ Answer(s)
        /\ UNCHANGED <<rows, serial, copy, asked, between>>

(* Then every record of the analyst is deleted.                            *)
Clear(s) ==
    LET a == OwnerOf[s]
    IN  /\ req[s].at = "resolve" /\ req[s].todo = {}
        /\ held' = IF Recorded(req[s].read) = {} THEN held
                   ELSE [held EXCEPT ![a] = [r \in Rows |-> Absent]]
        /\ owed' = [owed EXCEPT ![a] = [r \in Rows |->
              IF req[s].read[r] # Absent /\ @[r] = req[s].read[r].mine
              THEN Absent ELSE @[r]]]
        /\ review' = [review EXCEPT ![s] = <<>>]
        /\ Answer(s)
        /\ UNCHANGED <<rows, serial, copy, asked, between>>

(* A statement fails or the process stops between two transactions: what   *)
(* was committed stays, and nothing more is done.                          *)
Abort(s) ==
    /\ req[s] # Idle
    /\ Answer(s)
    /\ UNCHANGED <<rows, held, serial, copy, review, asked, owed, between>>

Next ==
    \E s \in Sessions :
        \/ Save(s) \/ Write(s) \/ Record(s) \/ Remove(s) \/ Look(s)
        \/ Pending(s) \/ Judge(s) \/ Drop(s)
        \/ Resolve(s) \/ ReadRow(s) \/ Overwrite(s) \/ Clear(s)
        \/ Abort(s)

Spec == Init /\ [][Next]_vars

-----------------------------------------------------------------------------
TypeOK ==
    /\ rows \in [Rows -> RowValues \cup {Absent}]
    /\ held \in [Analysts -> [Rows -> Records \cup {Absent}]]
    /\ serial \in Nat
    /\ copy \in [Sessions -> [Rows -> RowValues \cup {Absent}]]
    /\ owed \in [Analysts -> [Rows -> Edits \cup {Absent}]]
    /\ between \in [Analysts -> SUBSET Rows]
    /\ \A s \in Sessions : asked[s] \in 0..MaxRequests[s]

(* conflicts.service.ts record(): an edit answered 409 is kept until its   *)
(* analyst answers it or it is found to agree - not replaced, not dropped  *)
(* by a delete that was decided about another, whichever tabs are open.    *)
(* Excepted is the edit refused after another tab of the same analyst read *)
(* the records (209, 282) and before it deletes them (259, 323): the       *)
(* record keeps its id, and an answer deletes all the analyst has.         *)
RefusedEditIsKept ==
    \A a \in Analysts, r \in Rows :
        (owed[a][r] # Absent /\ r \notin between[a])
          => held[a][r] # Absent /\ held[a][r].mine = owed[a][r]

(* conflicts.service.ts resolve(): records are dropped for "mine" only     *)
(* when every row they are about was written over by this answer, or was   *)
(* found gone.                                                             *)
MineIsWrittenBeforeItIsDropped ==
    [][\A s \in Sessions :
         (/\ req[s].at = "resolve" /\ req[s].choice = "mine" /\ req'[s] = Idle
          /\ held'[OwnerOf[s]] # held[OwnerOf[s]])
            => Recorded(req[s].read) = req[s].written \cup req[s].gone]_vars

(* conflicts.service.ts:163 says a refused save is kept until its analyst  *)
(* answers it: an answer deletes the edits it read, and none refused since. *)
AnswerDropsOnlyWhatItRead ==
    [][\A s \in Sessions :
         LET a == OwnerOf[s]
         IN  (req[s].at = "resolve" /\ req'[s] = Idle /\ held' # held)
               => \A r \in Recorded(held[a]) :
                     /\ req[s].read[r] # Absent
                     /\ req[s].read[r].mine = held[a][r].mine]_vars

(* conflicts.service.ts:268 says "mine" overwrites a value the analyst has *)
(* now seen: the version written over is the one their review showed.      *)
OverwritesWhatWasShown ==
    [][\A s \in Sessions :
         (req[s].at = "overwrite" /\ rows' # rows /\ req'[s].written # req[s].written)
            => /\ req[s].row \in DOMAIN req[s].shown
               /\ req[s].shown[req[s].row] = req[s].version]_vars
=============================================================================
