--------------------------- MODULE ArtefactStore ---------------------------
(***************************************************************************)
(* Where the bytes of attached evidence live and when they leave: the      *)
(* store of one directory per case (evidence/store.ts), the acts that are  *)
(* queued on a case's artefacts (attaching, removing records, deleting the *)
(* case, reading an archive in), the question which of them the case still *)
(* names (report/artefacts-named.ts), and the sending of a report whose    *)
(* figure one of them is.                                                  *)
(*                                                                         *)
(* A transaction is one step, and so is one call on the file system.       *)
(***************************************************************************)
EXTENDS Integers, Sequences, FiniteSets, SequencesExt

CONSTANTS
    Cases,
    Opened,        \* the cases there are at first; the others may be read in
    Rows,          \* the evidence records of a case
    Hashes,        \* digests of the bytes
    MaxAsks,       \* bound: how often an analyst asks for something
    MaxMishaps,    \* bound: failing statements and removals, crashes, and acts
                   \* whose analyst loses reach to the case meanwhile
    None

(* An evidence record.                                                     *)
Records == [hash : Hashes \cup {None}, stored : BOOLEAN, version : Nat]

ASSUME StoreAssumption ==
    /\ Opened \subseteq Cases /\ None \notin Hashes \cup Rows \cup Records
    /\ \A files \in SUBSET Hashes : files # None
    /\ MaxAsks \in Nat /\ MaxMishaps \in Nat

VARIABLES
    open,      \* whether the database holds the case: "no", "yes" or "gone"
    row,       \* its evidence records, or None where one is not there
    held,      \* the digests in the case's directory
    arriving,  \* attachments whose bytes are still arriving
    lane,      \* the acts queued on the case's artefacts
    report,    \* the case's report: the figure in it, and what a send froze
    sending,   \* the send of it under way, or None
    reading,   \* the digests an archive being read in brought, or None
    spilled,   \* cases in which an act failed or died after its bytes landed
    asks, fails, withdrawn

vars == <<open, row, held, arriving, lane, report, sending, reading, spilled,
          asks, fails, withdrawn>>

-----------------------------------------------------------------------------
Present(c) == {r \in Rows : row[c][r] # None}

Draft(figure) == [figure |-> figure, version |-> 1, sent |-> FALSE, frozen |-> None, drawn |-> FALSE]

Init ==
    /\ open = [c \in Cases |-> IF c \in Opened THEN "yes" ELSE "no"]
    /\ row = [c \in Cases |-> [r \in Rows |->
                IF c \in Opened THEN [hash |-> None, stored |-> FALSE, version |-> 1] ELSE None]]
    /\ held = [c \in Cases |-> {}]
    /\ arriving = {}
    /\ lane = [c \in Cases |-> <<>>]
    /\ report = [c \in Cases |-> Draft(None)]
    /\ sending = [c \in Cases |-> None]
    /\ reading = [c \in Cases |-> None]
    /\ spilled = {}
    /\ asks = 0 /\ fails = 0 /\ withdrawn = 0

(* Mutant: what a sent report froze is not counted.                        *)
NamedByRows(c) == {row[c][r].hash : r \in {p \in Present(c) : row[c][p].stored}} \ {None}

(* namedIn(): the digests the case's records say it holds, and the figure  *)
(* its sent report froze.                                                  *)
Named(c) ==
    ({row[c][r].hash : r \in {p \in Present(c) : row[c][p].stored}}
     \cup (IF report[c].sent THEN {report[c].frozen} ELSE {})) \ {None}

-----------------------------------------------------------------------------
(* Asking: what an analyst names is what their screen showed.              *)
Asked == asks < MaxAsks /\ asks' = asks + 1

Act(op, reads, hash) ==
    [op |-> op, at |-> "queued", reads |-> reads, hash |-> hash, letgo |-> {}, sees |-> TRUE]

Versions(c, S) == [r \in S |-> row[c][r].version]

(* attach(): the record is read, then the bytes arrive and are sealed.     *)
Attach(c, r, h) ==
    /\ Asked /\ open[c] = "yes" /\ r \in Present(c)
    /\ arriving' = arriving \cup {[case |-> c, old |-> row[c][r].hash,
                                   act |-> Act("attach", Versions(c, {r}), h)]}
    /\ UNCHANGED <<open, row, held, lane, report, sending, reading, spilled, fails, withdrawn>>

(* Mutant: the bytes land before the wait.                                 *)
LandsAtOnce(a) ==
    /\ arriving' = arriving \ {a}
    /\ lane' = [lane EXCEPT ![a.case] = Append(@, [a.act EXCEPT !.letgo = {a.old} \ {None},
                                                                !.at = "kept"])]
    /\ held' = [held EXCEPT ![a.case] = @ \cup {a.act.hash}]
    /\ UNCHANGED <<open, row, report, sending, reading, spilled, asks, fails, withdrawn>>

(* exclusive(): an act waits for those asked for before it.                *)
Lands(a) ==
    /\ arriving' = arriving \ {a}
    /\ lane' = [lane EXCEPT ![a.case] = Append(@, [a.act EXCEPT !.letgo = {a.old} \ {None}])]
    /\ UNCHANGED <<open, row, held, report, sending, reading, spilled, asks, fails, withdrawn>>

Queue(c, act) ==
    /\ Asked /\ open[c] = "yes"
    /\ lane' = [lane EXCEPT ![c] = Append(@, act)]
    /\ UNCHANGED <<open, row, held, arriving, report, sending, reading, spilled, fails, withdrawn>>

(* One record removed, or a selection.                                     *)
RemoveRecords(c, S) ==
    /\ S # {} /\ S \subseteq Present(c)
    /\ Queue(c, Act("remove", Versions(c, S), None))

Delete(c) == Queue(c, Act("delete", <<>>, None))

(* A record is changed otherwise, by the doors that do not touch its file. *)
Edit(c, r) ==
    /\ Asked /\ r \in Present(c)
    /\ row' = [row EXCEPT ![c][r].version = @ + 1]
    /\ UNCHANGED <<open, held, arriving, lane, report, sending, reading, spilled, fails, withdrawn>>

-----------------------------------------------------------------------------
(* Mutant: an act does not wait for the one before it.                     *)
AnyTurn(c, i) == i \in 1..Len(lane[c])

Turn(c, i) == i = 1 /\ lane[c] # <<>>

(* Mutant: a failed act holds up the next.                                 *)
EndedHolding(c, i) == [lane EXCEPT ![c][i].at = "failed"]

Ended(c, i) == [lane EXCEPT ![c] = RemoveAt(@, i)]

(* The next step of the act: at stage "at", with these digests to let go.  *)
Stage(c, i, at, letgo) ==
    lane' = [lane EXCEPT ![c] = ReplaceAt(@, i, [@[i] EXCEPT !.at = at, !.letgo = letgo])]

Keep(c, i) ==
    /\ lane[c][i].op = "attach" /\ lane[c][i].at = "queued"
    /\ held' = [held EXCEPT ![c] = @ \cup {lane[c][i].hash}]
    /\ Stage(c, i, "kept", lane[c][i].letgo)
    /\ UNCHANGED <<open, row, arriving, report, sending, reading, spilled, asks, fails, withdrawn>>

(* The record has the version that was read, and its analyst reaches it.   *)
Current(c, act, r) == act.sees /\ row[c][r] # None /\ row[c][r].version = act.reads[r]

(* Mutant: a refused attachment lets go of what the record named before.   *)
LetGoOld(act, taken) == act.letgo

LetGo(act, taken) == IF taken THEN act.letgo ELSE {act.hash}

(* The record names the bytes, or is refused and they are let go.          *)
Attached(c, i) ==
    LET act == lane[c][i]
        r == CHOOSE x \in DOMAIN act.reads : TRUE
        taken == Current(c, act, r)
    IN  /\ act.op = "attach" /\ act.at = "kept"
        /\ row' = IF taken THEN [row EXCEPT ![c][r] = [hash |-> act.hash, stored |-> TRUE,
                                                       version |-> @.version + 1]]
                           ELSE row
        /\ Stage(c, i, "written", LetGo(act, taken))
        /\ UNCHANGED <<open, held, arriving, report, sending, reading, spilled, asks, fails,
                       withdrawn>>

(* All of the records go, or none; a figure is left without its record.    *)
Removed(c, i) ==
    LET act == lane[c][i]
        here == DOMAIN act.reads \cap Present(c)
    IN  /\ act.op = "remove" /\ act.at = "queued"
        /\ IF act.sees /\ here # {} /\ \A r \in here : Current(c, act, r)
           THEN /\ row' = [row EXCEPT ![c] = [r \in Rows |-> IF r \in here THEN None ELSE @[r]]]
                /\ report' = [report EXCEPT ![c].figure = IF @ \in here THEN None ELSE @]
                /\ Stage(c, i, "written", {row[c][r].hash : r \in here} \ {None})
           ELSE lane' = Ended(c, i) /\ UNCHANGED <<row, report>>
        /\ UNCHANGED <<open, held, arriving, sending, reading, spilled, asks, fails, withdrawn>>

(* The case goes with all of its records and its report.                   *)
Deleted(c, i) ==
    LET act == lane[c][i]
    IN  /\ act.op = "delete" /\ act.at = "queued"
        /\ IF act.sees /\ open[c] = "yes"
           THEN /\ open' = [open EXCEPT ![c] = "gone"]
                /\ row' = [row EXCEPT ![c] = [r \in Rows |-> None]]
                /\ report' = [report EXCEPT ![c] = Draft(None)]
                /\ Stage(c, i, "written", {})
           ELSE lane' = Ended(c, i) /\ UNCHANGED <<open, row, report>>
        /\ UNCHANGED <<held, arriving, sending, reading, spilled, asks, fails, withdrawn>>

Discard(c, i) ==
    /\ lane[c][i].op = "delete" /\ lane[c][i].at = "written"
    /\ held' = [held EXCEPT ![c] = {}]
    /\ lane' = Ended(c, i)
    /\ UNCHANGED <<open, row, arriving, report, sending, reading, spilled, asks, fails, withdrawn>>

(* release(): what to let go of that nothing names, as the asker sees it.  *)
Ask(c, i) ==
    LET act == lane[c][i]
    IN  /\ act.op # "delete" /\ act.at = "written"
        /\ IF act.letgo = {} THEN lane' = Ended(c, i)
           ELSE Stage(c, i, "asked", IF act.sees THEN act.letgo \ Named(c) ELSE act.letgo)
        /\ UNCHANGED <<open, row, held, arriving, report, sending, reading, spilled, asks,
                       fails, withdrawn>>

Forget(c, i) ==
    /\ lane[c][i].at = "asked"
    /\ held' = [held EXCEPT ![c] = @ \ lane[c][i].letgo]
    /\ lane' = Ended(c, i)
    /\ UNCHANGED <<open, row, arriving, report, sending, reading, spilled, asks, fails, withdrawn>>

Run(c) ==
    \E i \in 1..Len(lane[c]) :
        /\ Turn(c, i)
        /\ \/ Keep(c, i) \/ Attached(c, i) \/ Removed(c, i) \/ Deleted(c, i)
           \/ Discard(c, i) \/ Ask(c, i) \/ Forget(c, i)

Mishap == fails + withdrawn < MaxMishaps

(* A statement or a removal fails; after the write that is only logged.    *)
Fail(c) ==
    /\ Mishap /\ fails' = fails + 1
    /\ \E i \in 1..Len(lane[c]) :
          /\ Turn(c, i) /\ lane' = Ended(c, i)
          /\ spilled' = IF lane[c][i].at = "queued" THEN spilled ELSE spilled \cup {c}
    /\ UNCHANGED <<open, row, held, arriving, report, sending, reading, asks, withdrawn>>

(* The analyst of an act under way loses their reach to the case.          *)
Blinded(act) == [act EXCEPT !.sees = FALSE]

Withdraw ==
    /\ Mishap /\ withdrawn' = withdrawn + 1
    /\ \/ /\ \E a \in arriving :
                arriving' = (arriving \ {a}) \cup {[a EXCEPT !.act = Blinded(@)]}
          /\ UNCHANGED lane
       \/ /\ \E c \in Cases : \E i \in 1..Len(lane[c]) :
                lane' = [lane EXCEPT ![c] = ReplaceAt(@, i, Blinded(@[i]))]
          /\ UNCHANGED arriving
    /\ UNCHANGED <<open, row, held, report, sending, reading, spilled, asks, fails>>

Crash ==
    /\ Mishap /\ fails' = fails + 1
    /\ arriving' = {}
    /\ lane' = [c \in Cases |-> <<>>]
    /\ sending' = [c \in Cases |-> None]
    /\ reading' = [c \in Cases |-> None]
    /\ spilled' = spilled \cup {c \in Cases : lane[c] # <<>> \/ reading[c] # None}
    /\ UNCHANGED <<open, row, held, report, asks, withdrawn>>

-----------------------------------------------------------------------------
(* The figure of a draft is a record of the case.                          *)
Place(c, r) ==
    /\ Asked /\ r \in Present(c) /\ ~report[c].sent
    /\ report' = [report EXCEPT ![c].figure = r, ![c].version = @ + 1]
    /\ UNCHANGED <<open, row, held, arriving, lane, sending, reading, spilled, fails, withdrawn>>

(* send(): the case is read for the render,                                *)
Send(c) ==
    /\ Asked /\ open[c] = "yes" /\ ~report[c].sent /\ sending[c] = None
    /\ sending' = [sending EXCEPT ![c] =
            [at |-> "read", version |-> report[c].version, drawn |-> FALSE,
             hash |-> IF report[c].figure = None THEN None ELSE row[c][report[c].figure].hash]]
    /\ UNCHANGED <<open, row, held, arriving, lane, report, reading, spilled, fails, withdrawn>>

(* its figure is drawn if the case holds the bytes,                        *)
Figures(c) ==
    /\ sending[c] # None /\ sending[c].at = "read"
    /\ sending' = [sending EXCEPT ![c].at = "drawn", ![c].drawn = sending[c].hash \in held[c]]
    /\ UNCHANGED <<open, row, held, arriving, lane, report, reading, spilled, asks, fails, withdrawn>>

Unmoved(c, s) == report[c].version = s.version

(* and the report stamped, unless it or a part of it moved.                *)
Stamp(c) ==
    LET s == sending[c]
    IN  /\ s # None /\ s.at = "drawn"
        /\ sending' = [sending EXCEPT ![c] = None]
        /\ report' = IF open[c] = "yes" /\ Unmoved(c, s)
                     THEN [report EXCEPT ![c].sent = TRUE, ![c].frozen = s.hash, ![c].drawn = s.drawn]
                     ELSE report
        /\ UNCHANGED <<open, row, held, arriving, lane, reading, spilled, asks, fails, withdrawn>>

-----------------------------------------------------------------------------
(* load(): what an archive carries lands under the id of a new case,       *)
Import(c) ==
    /\ Asked /\ open[c] = "no" /\ reading[c] = None /\ held[c] = {}
    /\ \E files \in SUBSET Hashes :
          /\ reading' = [reading EXCEPT ![c] = files]
          /\ held' = [held EXCEPT ![c] = files]
    /\ UNCHANGED <<open, row, arriving, lane, report, sending, spilled, fails, withdrawn>>

(* Mutant: a record is stored as the archive states it.                    *)
CarriedAsStated(files, h, stated) == stated

Carried(files, h, stated) == stated /\ h \in files \cup {None}

(* the case is written as the archive states it, in one transaction; what  *)
(* nothing in it names is let go,                                          *)
Imported(c) ==
    /\ reading[c] # None
    /\ reading' = [reading EXCEPT ![c] = None]
    /\ open' = [open EXCEPT ![c] = "yes"]
    /\ \E hash \in [Rows -> Hashes \cup {None}], stated \in BOOLEAN, frozen \in Hashes \cup {None} :
          /\ row' = [row EXCEPT ![c] = [r \in Rows |->
                [hash |-> hash[r], version |-> 1,
                 stored |-> Carried(reading[c], hash[r], stated)]]]
          /\ report' = [report EXCEPT ![c] =
                [figure |-> None, version |-> 1, sent |-> frozen # None, frozen |-> frozen,
                 drawn |-> frozen \in reading[c]]]
    /\ lane' = [lane EXCEPT ![c] = Append(@,
            [op |-> "import", at |-> "written", reads |-> <<>>, hash |-> None,
             letgo |-> reading[c], sees |-> TRUE])]
    /\ UNCHANGED <<held, arriving, sending, spilled, asks, fails, withdrawn>>

(* or the archive is refused and all of it discarded.                      *)
Refused(c) ==
    /\ reading[c] # None
    /\ reading' = [reading EXCEPT ![c] = None]
    /\ held' = [held EXCEPT ![c] = {}]
    /\ UNCHANGED <<open, row, arriving, lane, report, sending, spilled, asks, fails, withdrawn>>

-----------------------------------------------------------------------------
Analyst(c) ==
    \/ \E r \in Rows : Edit(c, r) \/ Place(c, r) \/ \E h \in Hashes : Attach(c, r, h)
    \/ \E S \in SUBSET Rows : RemoveRecords(c, S)
    \/ Delete(c) \/ Send(c) \/ Import(c)

Server(c) == Run(c) \/ Figures(c) \/ Stamp(c) \/ Imported(c) \/ Refused(c)

Next ==
    \/ \E c \in Cases : Analyst(c) \/ Server(c) \/ Fail(c)
    \/ \E a \in arriving : Lands(a)
    \/ Withdraw \/ Crash

Spec == Init /\ [][Next]_vars

(* The file system and the database answer or fail.                        *)
FairSpec == Spec /\ \A c \in Cases : WF_vars(Run(c))

-----------------------------------------------------------------------------
ActOK(act) ==
    /\ act.op \in {"attach", "remove", "delete", "import"}
    /\ act.at \in {"queued", "kept", "written", "asked"}
    /\ DOMAIN act.reads \subseteq Rows /\ act.hash \in Hashes \cup {None}
    /\ act.letgo \subseteq Hashes /\ act.sees \in BOOLEAN

TypeOK ==
    /\ open \in [Cases -> {"no", "yes", "gone"}]
    /\ \A c \in Cases : \A r \in Rows :
          row[c][r] \in Records \cup {None}
    /\ held \in [Cases -> SUBSET Hashes]
    /\ \A a \in arriving : ActOK(a.act)
    /\ \A c \in Cases : \A i \in 1..Len(lane[c]) :
          ActOK(lane[c][i]) /\ (i > 1 => lane[c][i].at = "queued")
    /\ \A c \in Cases : report[c].figure \in Present(c) \cup {None}

(* state/spec.md, "An artefact nothing names any more": bytes one of the   *)
(* case's records says it holds are held, whatever is removed, replaced,   *)
(* refused or read in beside it.  Who lost reach to the case while an act  *)
(* of theirs was under way sees nothing named, and removes bytes that are: *)
(* without the condition it does not hold.                                 *)
NamedIsHeld ==
    withdrawn = 0 =>
        \A c \in Cases : open[c] = "yes" =>
            \A r \in Present(c) : row[c][r].stored => row[c][r].hash \in held[c] \cup {None}

(* state/spec.md: bytes leave a case once nothing in it names them, and    *)
(* those that came for no record do not stay, unless something failed.     *)
NothingUnnamedStays ==
    \A c \in Cases \ spilled : lane[c] = <<>> /\ reading[c] = None => held[c] \subseteq Named(c)

(* state/design.md, "A sent report keeps its figures": what a sent report  *)
(* froze is never picked to be let go, and it stays unless it was picked   *)
(* before the report was stamped, by acts whose analysts reach the case.   *)
LettingGo(c) == UNION {lane[c][i].letgo : i \in {j \in 1..Len(lane[c]) : lane[c][j].at = "asked"}}

SentFiguresStay ==
    [][\A c \in Cases :
          withdrawn = 0 /\ open'[c] = "yes" /\ report[c].sent /\ report[c].frozen \notin LettingGo(c) =>
              /\ report[c].frozen \notin LettingGo(c)'
              /\ report[c].frozen \in held[c] => report[c].frozen \in held'[c]]_vars

(* state/spec.md: every report the case sent still draws each figure it    *)
(* was sent with.                                                          *)
SentFiguresAreDrawn ==
    \A c \in Cases : report[c].sent /\ report[c].drawn => report[c].frozen \in held[c]

(* exclusive(): a failed act does not hold up the next; all of them end.   *)
ActsEnd == \A c \in Cases : lane[c] # <<>> ~> lane[c] = <<>>
=============================================================================
