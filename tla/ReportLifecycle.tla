--------------------------- MODULE ReportLifecycle ---------------------------
(***************************************************************************)
(* The reports of one case and their sections: the acts of                 *)
(* server/src/report/lifecycle.service.ts (send, supersede,                *)
(* restoreSections), the collection routes that write a report or a part,  *)
(* and the triggers, foreign keys and unique index of                      *)
(* server/src/db/schema (store-guards.ts, report.ts), over PostgreSQL at   *)
(* READ COMMITTED.                                                         *)
(*                                                                         *)
(* A request runs as a sequence of statements.  What a statement waits for *)
(* is WaitsFor; what a request has taken is locks.  A request changes      *)
(* nothing another can see before its last step.                           *)
(* The prose a send seals is in HeldProse; the change feed is in CaseRows. *)
(***************************************************************************)
EXTENDS Naturals, FiniteSets

CONSTANTS
    Analysts,       \* each makes one request at a time
    Reports,        \* report ids; a removed report's id is never used again
    Parts,          \* section ids, likewise
    Sections,       \* what tells two sections of a report apart
    Layouts,        \* the layouts a report may be started from
    RequiredBy,     \* the sections each layout requires
    FirstReports,   \* the reports the case starts with: report id -> layout
    FirstParts,     \* the sections those hold: section id -> [of, section]
    Ops,            \* the requests this instance makes
    MaxRequests,    \* bound: how many requests are made in all
    None, Unborn, Gone

ASSUME RequiredAssumption ==
    /\ RequiredBy \in [Layouts -> SUBSET Sections]
    /\ IsFiniteSet(Reports) /\ IsFiniteSet(Parts) /\ IsFiniteSet(Analysts)

ASSUME FirstAssumption ==
    /\ DOMAIN FirstReports \subseteq Reports
    /\ \A r \in DOMAIN FirstReports : FirstReports[r] \in Layouts
    /\ DOMAIN FirstParts \subseteq Parts
    /\ \A p \in DOMAIN FirstParts :
          FirstParts[p] \in [of : DOMAIN FirstReports, section : Sections]

ASSUME BoundsAssumption == MaxRequests \in Nat

PartRows == [of : Reports, section : Sections, version : Nat \ {0}]

(* What a document was drawn from: sections and their versions.            *)
IsContent(c) == \E S \in SUBSET Parts : c \in [S -> PartRows]

ReportRows == [version : Nat \ {0}, template : Layouts, sent : BOOLEAN,
               supersedes : Reports \cup {None}]

ASSUME AbsentAssumption ==
    /\ None \notin Reports /\ ~ IsContent(None)
    /\ Unborn \notin ReportRows /\ Gone \notin ReportRows
    /\ Unborn \notin PartRows /\ Gone \notin PartRows
    /\ Unborn # Gone

VARIABLES
    reports,    \* the committed reports
    document,   \* per report, the column of what was preserved when it was sent
    parts,      \* the committed sections
    req,        \* per analyst, the request in flight
    locks,      \* per analyst, what its transaction has taken
    asked       \* how many requests were made

vars == <<reports, document, parts, req, locks, asked>>

-----------------------------------------------------------------------------
IsReport(r) == reports[r] \notin {Unborn, Gone}

IsPart(p) == parts[p] \notin {Unborn, Gone}

PartsOf(r) == {p \in Parts : IsPart(p) /\ parts[p].of = r}

(* The sections of a report, as rows.                                      *)
Held(r) == [p \in PartsOf(r) |-> parts[p]]

IsSent(r) == IsReport(r) /\ reports[r].sent

Successors(r) == {s \in Reports : IsReport(s) /\ reports[s].supersedes = r}

Request(op, at, report, part, version, to, section) ==
    [op |-> op, at |-> at, report |-> report, part |-> part,
     version |-> version, to |-> to, section |-> section,
     seen |-> None, read |-> <<>>]

Idle == Request("idle", "idle", None, None, 0, None, None)

(* What a transaction can hold: reports shared and alone, part rows, and   *)
(* the report whose successor it has inserted.                             *)
Nothing == [share |-> {}, hold |-> {}, rows |-> {}, succeeds |-> {}]

Init ==
    /\ reports = [r \in Reports |->
                    IF r \in DOMAIN FirstReports
                    THEN [version |-> 1, template |-> FirstReports[r], sent |-> FALSE,
                          supersedes |-> None]
                    ELSE Unborn]
    /\ document = [r \in Reports |-> None]
    /\ parts = [p \in Parts |->
                  IF p \in DOMAIN FirstParts
                  THEN [of |-> FirstParts[p].of, version |-> 1,
                        section |-> FirstParts[p].section]
                  ELSE Unborn]
    /\ req = [u \in Analysts |-> Idle]
    /\ locks = [u \in Analysts |-> Nothing]
    /\ asked = 0

-----------------------------------------------------------------------------
(* Mutant: a send or a restore reads the parts FOR UPDATE too. *)
WaitsForPartsToo(u) ==
    LET q == req[u]
    IN  {v \in Analysts \ {u} :
            \/ q.at = "row" /\ q.part \in locks[v].rows
            \/ q.at = "leave" /\ parts[q.part].of \in locks[v].hold
            \/ q.at = "join" /\ q.to \in locks[v].hold
            \/ q.at = "share" /\ q.report \in locks[v].hold
            \/ q.at = "hold" /\ q.report \in locks[v].hold \cup locks[v].share
            \/ /\ q.at \in {"compare", "cascade"}
               /\ \/ PartsOf(q.report) \cap locks[v].rows # {}
                  \/ Successors(q.report) \cap (locks[v].hold \cup locks[v].share) # {}
            \/ q.at = "insert" /\ q.report \in locks[v].succeeds}

(* PostgreSQL: whom the next statement of u waits for.  A part row is      *)
(* locked before its triggers run; the triggers share-lock the report the  *)
(* part leaves and the one it joins; a write of a report locks it alone;   *)
(* a delete cascades to the parts and to the report that corrects it; the  *)
(* unique index makes a second successor wait for the first.               *)
WaitsFor(u) ==
    LET q == req[u]
    IN  {v \in Analysts \ {u} :
            \/ q.at = "row" /\ q.part \in locks[v].rows
            \/ q.at = "leave" /\ parts[q.part].of \in locks[v].hold
            \/ q.at = "join" /\ q.to \in locks[v].hold
            \/ q.at = "share" /\ q.report \in locks[v].hold
            \/ q.at = "hold" /\ q.report \in locks[v].hold \cup locks[v].share
            \/ /\ q.at = "cascade"
               /\ \/ PartsOf(q.report) \cap locks[v].rows # {}
                  \/ Successors(q.report) \cap (locks[v].hold \cup locks[v].share) # {}
            \/ q.at = "insert" /\ q.report \in locks[v].succeeds}

At(u, at) == req[u].at = at /\ WaitsFor(u) = {}

Goes(u, at) == req' = [req EXCEPT ![u].at = at]

Takes(u, what, rows) == locks' = [locks EXCEPT ![u][what] = @ \cup rows]

(* Mutant: a transaction that ended keeps its locks. *)
EndsHolding(u) ==
    /\ req' = [req EXCEPT ![u] = Idle]
    /\ UNCHANGED <<locks, asked>>

(* The request is answered and its transaction, committed or rolled back,  *)
(* lets go of what it held.                                                *)
Ends(u) ==
    /\ req' = [req EXCEPT ![u] = Idle]
    /\ locks' = [locks EXCEPT ![u] = Nothing]
    /\ UNCHANGED asked

Refused(u) == Ends(u) /\ UNCHANGED <<reports, document, parts>>

-----------------------------------------------------------------------------
(* What a screen can ask for: the versions it states are those it shows.   *)
Asks(u, q) ==
    /\ req[u] = Idle
    /\ asked < MaxRequests
    /\ q.op \in Ops
    /\ req' = [req EXCEPT ![u] = q]
    /\ asked' = asked + 1
    /\ UNCHANGED <<reports, document, parts, locks>>

AskEdit(u) ==
    \E p \in {p \in Parts : IsPart(p)}, t \in {r \in Reports : IsReport(r)}, s \in Sections :
        Asks(u, Request("edit", "row", None, p, parts[p].version, t, s))

AskRemove(u) ==
    \E p \in {p \in Parts : IsPart(p)} :
        Asks(u, Request("remove", "row", None, p, parts[p].version, None, None))

AskAdd(u) ==
    \E t \in {r \in Reports : IsReport(r)}, s \in Sections :
        Asks(u, Request("add", "join", None, None, 0, t, s))

AskOfReport(u) ==
    \E r \in {r \in Reports : IsReport(r)} :
        \/ \E t \in Layouts :
              Asks(u, Request("label", "hold", r, None, reports[r].version, t, None))
        \/ Asks(u, Request("delete", "hold", r, None, reports[r].version, None, None))
        \/ Asks(u, Request("send", "check", r, None, 0, None, None))
        \/ Asks(u, Request("supersede", "share", r, None, 0, None, None))
        \/ Asks(u, Request("restore", "layout", r, None, 0, None, None))

Ask(u) == AskEdit(u) \/ AskRemove(u) \/ AskAdd(u) \/ AskOfReport(u)

-----------------------------------------------------------------------------
(* Writes of a part: the row, then the report it leaves, then the one it   *)
(* joins.                                                                  *)
TakeRow(u) ==
    /\ At(u, "row")
    /\ LET p == req[u].part
       IN  IF IsPart(p) /\ parts[p].version = req[u].version
           THEN /\ Takes(u, "rows", {p})
                /\ Goes(u, "leave")
                /\ UNCHANGED <<reports, document, parts, asked>>
           ELSE Refused(u)

(* Mutant: the report a part leaves is not asked. *)
LeaveReportUnasked(u) ==
    /\ At(u, "leave")
    /\ Goes(u, IF req[u].op = "edit" /\ req[u].to # parts[req[u].part].of
               THEN "join" ELSE "commit")
    /\ UNCHANGED <<reports, document, parts, locks, asked>>

(* refuse_a_part_of_a_sent_report, before the write.                       *)
LeaveReport(u) ==
    /\ At(u, "leave")
    /\ LET from == parts[req[u].part].of
       IN  IF IsSent(from)
           THEN Refused(u)
           ELSE /\ Takes(u, "share", {from})
                /\ Goes(u, IF req[u].op = "edit" /\ req[u].to # from
                           THEN "join" ELSE "commit")
                /\ UNCHANGED <<reports, document, parts, asked>>

(* Mutant: a part joins a report without waiting out a send of it. *)
JoinReportUnlocked(u) ==
    /\ At(u, "join")
    /\ IF ~ IsReport(req[u].to) \/ IsSent(req[u].to)
       THEN Refused(u)
       ELSE /\ Goes(u, "commit")
            /\ UNCHANGED <<reports, document, parts, locks, asked>>

(* The same after it, and the foreign key to the report.                   *)
JoinReport(u) ==
    /\ At(u, "join")
    /\ IF ~ IsReport(req[u].to) \/ IsSent(req[u].to)
       THEN Refused(u)
       ELSE /\ Takes(u, "share", {req[u].to})
            /\ Goes(u, "commit")
            /\ UNCHANGED <<reports, document, parts, asked>>

-----------------------------------------------------------------------------
(* send: refused early if it was sent, drawn from two reads, then stamped  *)
(* under a lock where nothing drawn from has moved.                        *)
CheckUnsent(u) ==
    /\ At(u, "check")
    /\ IF IsReport(req[u].report) /\ ~ IsSent(req[u].report)
       THEN Goes(u, "report") /\ UNCHANGED <<reports, document, parts, locks, asked>>
       ELSE Refused(u)

DrawReport(u) ==
    /\ At(u, "report")
    /\ IF ~ IsReport(req[u].report)
       THEN Refused(u)
       ELSE /\ req' = [req EXCEPT
                 ![u].seen = IF IsSent(req[u].report) THEN None
                             ELSE reports[req[u].report].version,
                 ![u].at = IF IsSent(req[u].report) THEN "hold" ELSE "parts"]
            /\ UNCHANGED <<reports, document, parts, locks, asked>>

DrawParts(u) ==
    /\ At(u, "parts")
    /\ req' = [req EXCEPT ![u].read = Held(req[u].report), ![u].at = "hold"]
    /\ UNCHANGED <<reports, document, parts, locks, asked>>

(* A section this build cannot draw.                                       *)
CannotDraw(u) == At(u, "parts") /\ Refused(u)

ReadLayout(u) ==
    /\ At(u, "layout")
    /\ IF ~ IsReport(req[u].report)
       THEN Refused(u)
       ELSE /\ req' = [req EXCEPT ![u].seen = reports[req[u].report].template,
                                  ![u].at = "hold"]
            /\ UNCHANGED <<reports, document, parts, locks, asked>>

-----------------------------------------------------------------------------
(* A write of a report takes it alone.  The collection routes state a      *)
(* version; a restore wants the layout it read.                            *)
Unmoved(u) ==
    LET row == reports[req[u].report]
    IN  CASE req[u].op \in {"label", "delete"} -> row.version = req[u].version
          [] req[u].op = "restore" -> row.template = req[u].seen
          [] OTHER -> TRUE

AfterHold(op) ==
    CASE op = "label" -> "commit"
      [] op = "delete" -> "cascade"
      [] OTHER -> "compare"

(* Mutant: a send reads the report without FOR UPDATE. *)
HoldReportUnlocked(u) ==
    /\ At(u, "hold")
    /\ LET r == req[u].report
       IN  IF IsReport(r) /\ ~ IsSent(r) /\ Unmoved(u)
           THEN /\ Takes(u, "hold", IF req[u].op = "send" THEN {} ELSE {r})
                /\ Goes(u, AfterHold(req[u].op))
                /\ UNCHANGED <<reports, document, parts, asked>>
           ELSE Refused(u)

(* Mutant: a restore reads the report without FOR UPDATE. *)
HoldReportButToRestore(u) ==
    /\ At(u, "hold")
    /\ LET r == req[u].report
       IN  IF IsReport(r) /\ ~ IsSent(r) /\ Unmoved(u)
           THEN /\ Takes(u, "hold", IF req[u].op = "restore" THEN {} ELSE {r})
                /\ Goes(u, AfterHold(req[u].op))
                /\ UNCHANGED <<reports, document, parts, asked>>
           ELSE Refused(u)

HoldReport(u) ==
    /\ At(u, "hold")
    /\ LET r == req[u].report
       IN  IF IsReport(r) /\ ~ IsSent(r) /\ Unmoved(u)
           THEN /\ Takes(u, "hold", {r})
                /\ Goes(u, AfterHold(req[u].op))
                /\ UNCHANGED <<reports, document, parts, asked>>
           ELSE Refused(u)

(* Mutant: a part removed since it was drawn is not compared. *)
MovedKeepingRemoved(q) ==
    \/ q.seen # reports[q.report].version
    \/ \E p \in PartsOf(q.report) :
          p \notin DOMAIN q.read \/ parts[p].version # q.read[p].version

(* movedSince: the report or a part was changed, added or removed since it *)
(* was drawn from.                                                         *)
Moved(q) ==
    \/ q.seen # reports[q.report].version
    \/ PartsOf(q.report) # DOMAIN q.read
    \/ \E p \in PartsOf(q.report) : parts[p].version # q.read[p].version

(* The statement after the lock reads the parts: a send compares them, a   *)
(* restore looks for what is missing.                                      *)
Compare(u) ==
    /\ At(u, "compare")
    /\ IF req[u].op = "send" /\ Moved(req[u])
       THEN Refused(u)
       ELSE /\ req' = [req EXCEPT ![u].at = "commit",
                 ![u].read = IF req[u].op = "send" THEN @ ELSE Held(req[u].report)]
            /\ UNCHANGED <<reports, document, parts, locks, asked>>

(* Mutant: a sent report is told its predecessor is gone. *)
CascadePastTheFreeze(u) ==
    /\ At(u, "cascade")
    /\ locks' = [locks EXCEPT ![u].hold = @ \cup Successors(req[u].report),
                              ![u].rows = @ \cup PartsOf(req[u].report)]
    /\ Goes(u, "commit")
    /\ UNCHANGED <<reports, document, parts, asked>>

(* What the delete of a report does to the rows that name it: its parts    *)
(* go, its successor names nothing, unless the successor was sent.         *)
Cascade(u) ==
    /\ At(u, "cascade")
    /\ LET r == req[u].report
       IN  IF \E s \in Successors(r) : IsSent(s)
           THEN Refused(u)
           ELSE /\ locks' = [locks EXCEPT ![u].hold = @ \cup Successors(r),
                                          ![u].rows = @ \cup PartsOf(r)]
                /\ Goes(u, "commit")
                /\ UNCHANGED <<reports, document, parts, asked>>

-----------------------------------------------------------------------------
(* supersede: under a shared lock, once per report.                        *)
ShareReport(u) ==
    /\ At(u, "share")
    /\ LET r == req[u].report
       IN  IF IsReport(r) /\ Successors(r) = {}
           THEN /\ Takes(u, "share", {r})
                /\ req' = [req EXCEPT ![u].at = "insert", ![u].read = Held(r)]
                /\ UNCHANGED <<reports, document, parts, asked>>
           ELSE Refused(u)

(* Mutant: no unique index over the report a successor names. *)
InsertUnchecked(u) ==
    /\ At(u, "insert")
    /\ Goes(u, "commit")
    /\ UNCHANGED <<reports, document, parts, locks, asked>>

InsertSuccessor(u) ==
    /\ At(u, "insert")
    /\ IF Successors(req[u].report) # {}
       THEN Refused(u)
       ELSE /\ Takes(u, "succeeds", {req[u].report})
            /\ Goes(u, "commit")
            /\ UNCHANGED <<reports, document, parts, asked>>

-----------------------------------------------------------------------------
(* The commit of each request.                                             *)
UnbornParts == {p \in Parts : parts[p] = Unborn}

(* Rows inserted under ids nothing had: new[p] is the section of part p.   *)
Inserted(r, new) ==
    parts' = [p \in Parts |-> IF p \in DOMAIN new
                              THEN [of |-> r, section |-> new[p], version |-> 1]
                              ELSE parts[p]]

CommitPart(u) ==
    LET q == req[u]
    IN  /\ q.op \in {"edit", "remove", "add"}
        /\ \/ /\ q.op = "edit"
              /\ parts' = [parts EXCEPT ![q.part] =
                    [of |-> q.to, section |-> q.section, version |-> q.version + 1]]
           \/ q.op = "remove" /\ parts' = [parts EXCEPT ![q.part] = Gone]
           \/ /\ q.op = "add"
              /\ \E p \in UnbornParts : Inserted(q.to, [x \in {p} |-> q.section])
        /\ UNCHANGED <<reports, document>>

CommitReport(u) ==
    LET q == req[u]
        written(row) == [reports EXCEPT ![q.report] = IF IsReport(q.report) THEN row ELSE @]
        row == reports[q.report]
    IN  \/ /\ q.op = "label"
           /\ reports' = written([row EXCEPT !.version = @ + 1, !.template = q.to])
           /\ UNCHANGED <<document, parts>>
        \/ /\ q.op = "send"
           /\ reports' = written([row EXCEPT !.version = @ + 1, !.sent = TRUE])
           /\ document' = [document EXCEPT ![q.report] = q.read]
           /\ UNCHANGED parts

CommitDelete(u) ==
    LET r == req[u].report
    IN  /\ req[u].op = "delete"
        /\ reports' = [s \in Reports |->
                          IF s = r THEN Gone
                          ELSE IF s \in Successors(r)
                          THEN [reports[s] EXCEPT !.supersedes = None]
                          ELSE reports[s]]
        /\ parts' = [p \in Parts |-> IF p \in PartsOf(r) THEN Gone ELSE parts[p]]
        /\ UNCHANGED document

(* The successor and a copy of each part, under new ids.                   *)
CommitSuccessor(u) ==
    LET q == req[u]
    IN  /\ q.op = "supersede"
        /\ \E s \in {s \in Reports : reports[s] = Unborn}, S \in SUBSET UnbornParts :
              \E source \in [S -> DOMAIN q.read] :
                /\ \A p \in DOMAIN q.read : \E c \in S : source[c] = p
                /\ \A c, d \in S : source[c] = source[d] => c = d
                /\ reports' = [reports EXCEPT ![s] =
                      [version |-> 1, template |-> reports[q.report].template,
                       sent |-> FALSE, supersedes |-> q.report]]
                /\ Inserted(s, [c \in S |-> q.read[source[c]].section])
        /\ UNCHANGED document

(* What the layout requires and the parts read do not hold.                *)
Missing(q) == RequiredBy[q.seen] \ {q.read[p].section : p \in DOMAIN q.read}

CommitRestore(u) ==
    LET q == req[u]
    IN  /\ q.op = "restore"
        /\ \E S \in SUBSET UnbornParts :
              \E new \in [S -> Missing(q)] :
                /\ \A x \in Missing(q) : \E p \in S : new[p] = x
                /\ \A p, o \in S : new[p] = new[o] => p = o
                /\ Inserted(q.report, new)
        /\ UNCHANGED <<reports, document>>

Commit(u) ==
    /\ At(u, "commit")
    /\ \/ CommitPart(u) \/ CommitReport(u) \/ CommitDelete(u)
       \/ CommitSuccessor(u) \/ CommitRestore(u)
    /\ Ends(u)

-----------------------------------------------------------------------------
(* Transactions that wait for one another in a ring: PostgreSQL aborts one.*)
Ring(S) ==
    \E next \in [S -> S] :
        /\ \A v \in S : next[v] \in WaitsFor(v)
        /\ \A v, w \in S : next[v] = next[w] => v = w

InRing(u) == \E S \in SUBSET Analysts : u \in S /\ Ring(S)

Aborted(u) == InRing(u) /\ Refused(u)

(* Bound: an insert that finds no id left in this instance is rolled back. *)
NeedsParts(q) ==
    CASE q.op = "add" -> 1
      [] q.op = "supersede" -> Cardinality(DOMAIN q.read)
      [] q.op = "restore" -> Cardinality(Missing(q))
      [] OTHER -> 0

OutOfIds(u) ==
    /\ At(u, "commit")
    /\ \/ NeedsParts(req[u]) > Cardinality(UnbornParts)
       \/ req[u].op = "supersede" /\ \A s \in Reports : reports[s] # Unborn
    /\ Refused(u)

Step(u) ==
    \/ TakeRow(u) \/ LeaveReport(u) \/ JoinReport(u)
    \/ CheckUnsent(u) \/ DrawReport(u) \/ DrawParts(u) \/ CannotDraw(u)
    \/ ReadLayout(u) \/ HoldReport(u) \/ Compare(u) \/ Cascade(u)
    \/ ShareReport(u) \/ InsertSuccessor(u)
    \/ Commit(u) \/ OutOfIds(u) \/ Aborted(u)

Next == \E u \in Analysts : Ask(u) \/ Step(u)

Spec == Init /\ [][Next]_vars

-----------------------------------------------------------------------------
(* PROPERTIES *)

(* Every variable has its type, and what a transaction has taken fits the  *)
(* step its request is at.                                                 *)
TypeOK ==
    /\ reports \in [Reports -> ReportRows \cup {Unborn, Gone}]
    /\ parts \in [Parts -> PartRows \cup {Unborn, Gone}]
    /\ \A r \in Reports : document[r] = None \/ IsContent(document[r])
    /\ asked \in 0..MaxRequests
    /\ \A u \in Analysts :
          /\ locks[u] \in [share : SUBSET Reports, hold : SUBSET Reports,
                           rows : SUBSET Parts, succeeds : SUBSET Reports]
          /\ IsContent(req[u].read)
          /\ req[u].at \in {"idle", "row", "check", "report", "parts", "layout"}
                => locks[u] = Nothing

(* No section outlives its report or names one that never was: the parts   *)
(* of a removed report go with it, also those on their way into it.        *)
PartsHaveTheirReport ==
    \A p \in Parts : IsPart(p) => IsReport(parts[p].of)

(* What is stored is well formed, a request that answered holds no lock,   *)
(* and no section is an orphan.                                            *)
PartsKept == TypeOK /\ PartsHaveTheirReport

Stage(r) ==
    CASE reports[r] = Unborn -> "unborn"
      [] reports[r] = Gone -> "gone"
      [] OTHER -> IF reports[r].sent THEN "sent" ELSE "draft"

Filed == INSTANCE FiledReports WITH
    held <- [r \in Reports |-> Held(r)],
    stage <- [r \in Reports |-> Stage(r)],
    corrects <- [r \in Reports |-> IF IsReport(r) THEN reports[r].supersedes ELSE None]

(* What was sent is the report as it stood when it was stamped and nothing *)
(* changes a sent report, its parts or what it corrects, whatever the      *)
(* requests and their interleaving: the implementation of FiledReports.    *)
SentIsFiled == Filed!Spec

(* A restore leaves every section its layout requires in the report and    *)
(* puts none of them there twice, however many restores and other writes   *)
(* run at once.                                                            *)
RestoresOnce ==
    [][\A u \in Analysts :
        (req[u].op = "restore" /\ req'[u] # req[u] /\ parts' # parts
            /\ IsReport(req[u].report)) =>
            LET r == req[u].report
                has(x) == {p \in Parts : parts'[p] \notin {Unborn, Gone}
                                /\ parts'[p].of = r /\ parts'[p].section = x}
            IN  \A x \in RequiredBy[reports[r].template] :
                  /\ has(x) # {}
                  /\ \A p, o \in has(x) : parts[p] = Unborn => p = o]_vars

(* Sends, restores, corrections and edits of a report queue behind one     *)
(* another and never wait in a ring, though an edit locks its section      *)
(* before the report and they the report before they read its sections:    *)
(* only a delete, which takes the report and then every section of it, is  *)
(* ever in one (store-guards.ts, lifecycle.service.ts).                    *)
DeadlocksNeedADelete ==
    \A S \in SUBSET Analysts :
        S # {} /\ Ring(S) => \E u \in S : req[u].op = "delete"
=============================================================================
