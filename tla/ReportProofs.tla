---------------------------- MODULE ReportProofs ----------------------------
(***************************************************************************)
(* A sent report stays as it was filed, whatever the analysts, the reports *)
(* and the requests: ReportLifecycle implements FiledReports.              *)
(*                                                                         *)
(* The argument: a request that has taken a report alone is the only one   *)
(* to have taken it (Apart), so what it read under that lock is what there *)
(* is when it commits (HasRead), and a commit writes only what its request *)
(* has taken and found unsent (WritesWhatItTook).                          *)
(*                                                                         *)
(* The words of a report's prose, which HeldProse keeps in memory, are the *)
(* second half: everybody who has the record open is counted by the one    *)
(* document of it (DocInv).                                                *)
(***************************************************************************)
EXTENDS ReportLifecycle, HeldProse, TLAPS, FiniteSetTheorems

Contents == UNION {[S -> PartRows] : S \in SUBSET Parts}

(* What a request may have seen of a report: its version or its layout.    *)
Sights == Layouts \cup {None} \cup Nat

Requests ==
    [op : {"idle", "edit", "remove", "add", "label", "delete", "send", "supersede",
           "restore"},
     at : {"idle", "row", "leave", "join", "check", "report", "parts", "layout", "hold",
           "compare", "cascade", "share", "insert", "commit"},
     report : Reports \cup {None}, part : Parts \cup {None}, version : Nat,
     to : Reports \cup Layouts \cup {None}, section : Sections \cup {None},
     seen : Sights, read : Contents]

Locks == [share : SUBSET Reports, hold : SUBSET Reports,
          rows : SUBSET Parts, succeeds : SUBSET Reports]

(* The steps each operation runs through.                                  *)
InOrder(q) ==
    \/ q.op = "idle" /\ q.at = "idle"
    \/ q.op = "edit" /\ q.at \in {"row", "leave", "join", "commit"}
    \/ q.op = "remove" /\ q.at \in {"row", "leave", "commit"}
    \/ q.op = "add" /\ q.at \in {"join", "commit"}
    \/ q.op = "label" /\ q.at \in {"hold", "commit"}
    \/ q.op = "delete" /\ q.at \in {"hold", "cascade", "commit"}
    \/ q.op = "send" /\ q.at \in {"check", "report", "parts", "hold", "compare", "commit"}
    \/ q.op = "supersede" /\ q.at \in {"share", "insert", "commit"}
    \/ q.op = "restore" /\ q.at \in {"layout", "hold", "compare", "commit"}

(* What each operation names.                                              *)
Names(q) ==
    /\ q.op \in {"edit", "remove"} => q.part \in Parts
    /\ q.op \in {"edit", "add"} => q.to \in Reports /\ q.section \in Sections
    /\ q.op = "label" => q.to \in Layouts
    /\ q.op \in {"label", "delete", "send", "supersede", "restore"} => q.report \in Reports
    /\ q.op = "restore" /\ q.at # "layout" => q.seen \in Layouts

DataOK ==
    /\ reports \in [Reports -> ReportRows \cup {Unborn, Gone}]
    /\ parts \in [Parts -> PartRows \cup {Unborn, Gone}]
    /\ \A r \in Reports : document[r] = None \/ IsContent(document[r])
    /\ document \in [Reports -> Contents \cup {None}]

ReqTypes ==
    /\ req \in [Analysts -> Requests]
    /\ locks \in [Analysts -> Locks]
    /\ asked \in 0..MaxRequests

(* At most one report corrects another.                                    *)
OneSuccessor ==
    \A r, s \in Reports :
       IsReport(r) /\ IsReport(s) /\ reports[r].supersedes = reports[s].supersedes
          /\ reports[r].supersedes # None => r = s

(* What two requests have taken.                                           *)
Apart ==
    \A u, v \in Analysts : u # v =>
       /\ \A r \in locks[u].hold : r \notin locks[v].hold /\ r \notin locks[v].share
       /\ \A p \in locks[u].rows : p \notin locks[v].rows
       /\ \A r \in locks[u].succeeds : r \notin locks[v].succeeds

(* A report that was taken is there, and unsent but for its correction.    *)
TookReports(u) ==
    /\ \A r \in locks[u].hold : IsReport(r) /\ ~ reports[r].sent
    /\ \A r \in locks[u].share :
          IsReport(r) /\ (req[u].op # "supersede" => ~ reports[r].sent)

(* What a request has taken at each of its steps.                          *)
HasTaken(u) ==
    /\ req[u].at \in {"idle", "row", "check", "report", "parts", "layout"}
          => locks[u] = Nothing
    /\ req[u].op \in {"edit", "remove"} /\ req[u].at # "row" =>
          /\ req[u].part \in locks[u].rows
          /\ IsPart(req[u].part)
          /\ parts[req[u].part].version = req[u].version
          /\ req[u].at # "leave" => parts[req[u].part].of \in locks[u].share
    /\ req[u].op \in {"edit", "add"} /\ req[u].at = "commit" => req[u].to \in locks[u].share
    /\ req[u].op \in {"label", "delete", "send", "restore"}
          /\ req[u].at \in {"compare", "cascade", "commit"} => req[u].report \in locks[u].hold
    /\ req[u].op = "delete" /\ req[u].at = "commit" =>
          /\ \A s \in Successors(req[u].report) : s \in locks[u].hold
          /\ \A p \in PartsOf(req[u].report) : p \in locks[u].rows
    /\ req[u].op = "supersede" /\ req[u].at # "share" => req[u].report \in locks[u].share
    /\ req[u].op = "supersede" /\ req[u].at = "commit" =>
          /\ req[u].report \in locks[u].succeeds
          /\ \A s \in Reports : ~ (IsReport(s) /\ reports[s].supersedes = req[u].report)

(* A part has changed if and only if its version has.                      *)
SinceRead(p, kept) ==
    \/ parts[p] = Gone
    \/ /\ IsPart(p)
       /\ parts[p].version >= kept.version
       /\ parts[p].version = kept.version => parts[p] = kept

(* What a request has read is what is stored, once it holds the report.    *)
HasRead(u) ==
    /\ req[u].op = "send" /\ req[u].at \in {"check", "report", "parts"} => req[u].read = <<>>
    /\ req[u].op = "send" /\ req[u].at \in {"hold", "compare"} =>
          \A p \in DOMAIN req[u].read : SinceRead(p, req[u].read[p])
    /\ req[u].op \in {"send", "restore"} /\ req[u].at = "commit" =>
          req[u].read = Held(req[u].report)
    /\ req[u].op = "restore" /\ req[u].at \in {"compare", "commit"} =>
          req[u].seen = reports[req[u].report].template

RequestOK(u) ==
    InOrder(req[u]) /\ Names(req[u]) /\ TookReports(u) /\ HasTaken(u) /\ HasRead(u)

IInv ==
    /\ DataOK
    /\ ReqTypes
    /\ PartsHaveTheirReport
    /\ OneSuccessor
    /\ Apart
    /\ \A u \in Analysts : RequestOK(u)

-----------------------------------------------------------------------------
(* What EXCEPT leaves of a request and of what it has taken.               *)
SameBut(q, new, f) ==
    /\ f # "at" => new.at = q.at
    /\ new.op = q.op /\ new.report = q.report /\ new.part = q.part
    /\ new.version = q.version /\ new.to = q.to /\ new.section = q.section

Ats == {"idle", "row", "leave", "join", "check", "report", "parts", "layout", "hold",
        "compare", "cascade", "share", "insert", "commit"}

LEMMA GoesOne ==
  ASSUME NEW q \in Requests, NEW a \in Ats
  PROVE  \E new \in Requests :
            /\ new = [q EXCEPT !.at = a]
            /\ SameBut(q, new, "at") /\ new.at = a
            /\ new.seen = q.seen /\ new.read = q.read
<1>1. [q EXCEPT !.at = a] \in Requests BY DEF Requests, Ats
<1>2. WITNESS [q EXCEPT !.at = a] \in Requests
<1> QED BY DEF Requests, Ats, SameBut

(* The request of u has become new, and no other has moved.                *)
Moves(u, new) ==
    /\ req' \in [Analysts -> Requests]
    /\ req'[u] = new
    /\ \A v \in Analysts : v # u => req'[v] = req[v]

(* u has taken what it had and some more, and nobody else anything.        *)
Took(u, share, hold, rows, succeeds) ==
    /\ locks' \in [Analysts -> Locks]
    /\ locks'[u].share = locks[u].share \cup share
    /\ locks'[u].hold = locks[u].hold \cup hold
    /\ locks'[u].rows = locks[u].rows \cup rows
    /\ locks'[u].succeeds = locks[u].succeeds \cup succeeds
    /\ \A v \in Analysts : v # u => locks'[v] = locks[v]

LEMMA GoesMoves ==
  ASSUME req \in [Analysts -> Requests], NEW u \in Analysts, NEW a \in Ats, Goes(u, a)
  PROVE  \E new \in Requests :
            /\ Moves(u, new) /\ SameBut(req[u], new, "at") /\ new.at = a
            /\ new.seen = req[u].seen /\ new.read = req[u].read
<1>1. PICK old \in Requests : old = req[u] OBVIOUS
<1>2. PICK new \in Requests :
            /\ new = [old EXCEPT !.at = a]
            /\ SameBut(old, new, "at") /\ new.at = a
            /\ new.seen = old.seen /\ new.read = old.read BY <1>1, GoesOne, Zenon
<1>3. req' = [req EXCEPT ![u] = new] BY <1>1, <1>2, Zenon DEF Goes
<1>4. Moves(u, new) BY <1>3 DEF Moves
<1> QED BY <1>1, <1>2, <1>4, Zenon

LEMMA SeenIs ==
  ASSUME NEW q \in Requests, NEW a \in Ats, NEW s \in Sights
  PROVE  [q EXCEPT !.seen = s, !.at = a] \in Requests
<1> DEFINE mid == [q EXCEPT !.seen = s]
<1>1. mid \in Requests BY DEF Requests
<1>2. [q EXCEPT !.seen = s, !.at = a] = [mid EXCEPT !.at = a] BY DEF Requests
<1> HIDE DEF mid
<1>3. [mid EXCEPT !.at = a] \in Requests BY <1>1 DEF Requests, Ats
<1> QED BY <1>2, <1>3

LEMMA ReadIs ==
  ASSUME NEW q \in Requests, NEW a \in Ats, NEW c \in Contents
  PROVE  [q EXCEPT !.read = c, !.at = a] \in Requests
<1> DEFINE mid == [q EXCEPT !.read = c]
<1>1. mid \in Requests BY DEF Requests
<1>2. [q EXCEPT !.read = c, !.at = a] = [mid EXCEPT !.at = a] BY DEF Requests
<1> HIDE DEF mid
<1>3. [mid EXCEPT !.at = a] \in Requests BY <1>1 DEF Requests, Ats
<1> QED BY <1>2, <1>3

(* A request goes on with what it has seen, or with what it has read.      *)
Sees(u, s, a) == req' = [req EXCEPT ![u].seen = s, ![u].at = a]

Reads(u, c, a) ==
    \/ req' = [req EXCEPT ![u].read = c, ![u].at = a]
    \/ req' = [req EXCEPT ![u].at = a, ![u].read = c]

LEMMA SeesMoves ==
  ASSUME req \in [Analysts -> Requests], NEW u \in Analysts, NEW a \in Ats,
         NEW s \in Sights, Sees(u, s, a)
  PROVE  \E new \in Requests :
            /\ Moves(u, new) /\ SameBut(req[u], new, "at") /\ new.at = a
            /\ new.seen = s /\ new.read = req[u].read
<1>1. PICK old \in Requests : old = req[u] OBVIOUS
<1> DEFINE new == [old EXCEPT !.seen = s, !.at = a]
<1>2. new \in Requests BY <1>1, SeenIs
<1>3. SameBut(old, new, "at") /\ new.at = a /\ new.seen = s /\ new.read = old.read
  BY <1>1 DEF Requests, Ats, SameBut
<1>4. req' = [req EXCEPT ![u] = new] BY <1>1 DEF Sees
<1> HIDE DEF new
<1>5. Moves(u, new) BY <1>2, <1>4 DEF Moves
<1>6. WITNESS new \in Requests
<1> QED BY <1>1, <1>3, <1>5, Zenon

LEMMA ReadsMoves ==
  ASSUME req \in [Analysts -> Requests], NEW u \in Analysts, NEW a \in Ats,
         NEW c \in Contents, Reads(u, c, a)
  PROVE  \E new \in Requests :
            /\ Moves(u, new) /\ SameBut(req[u], new, "at") /\ new.at = a
            /\ new.seen = req[u].seen /\ new.read = c
<1>1. PICK old \in Requests : old = req[u] OBVIOUS
<1> DEFINE new == [old EXCEPT !.read = c, !.at = a]
<1>2. new \in Requests BY <1>1, ReadIs
<1>3. SameBut(old, new, "at") /\ new.at = a /\ new.seen = old.seen /\ new.read = c
  BY <1>1 DEF Requests, Ats, SameBut
<1>4. req' = [req EXCEPT ![u] = new]
  <2>1. CASE req' = [req EXCEPT ![u].read = c, ![u].at = a] BY <1>1, <2>1
  <2>2. CASE req' = [req EXCEPT ![u].at = a, ![u].read = c]
    <3>1. new = [old EXCEPT !.at = a, !.read = c] BY <1>1 DEF Requests
    <3> QED BY <1>1, <2>2, <3>1
  <2> QED BY <2>1, <2>2 DEF Reads
<1> HIDE DEF new
<1>5. Moves(u, new) BY <1>2, <1>4 DEF Moves
<1>6. WITNESS new \in Requests
<1> QED BY <1>1, <1>3, <1>5, Zenon

LEMMA TakesMore ==
  ASSUME locks \in [Analysts -> Locks], NEW u \in Analysts
  PROVE  /\ \A r \in SUBSET Reports : Takes(u, "share", r) => Took(u, r, {}, {}, {})
         /\ \A r \in SUBSET Reports : Takes(u, "hold", r) => Took(u, {}, r, {}, {})
         /\ \A p \in SUBSET Parts : Takes(u, "rows", p) => Took(u, {}, {}, p, {})
         /\ \A r \in SUBSET Reports : Takes(u, "succeeds", r) => Took(u, {}, {}, {}, r)
         /\ UNCHANGED locks => Took(u, {}, {}, {}, {})
<1>1. PICK old \in Locks : old = locks[u] OBVIOUS
<1>2. /\ old.share \subseteq Reports /\ old.hold \subseteq Reports
      /\ old.rows \subseteq Parts /\ old.succeeds \subseteq Reports BY <1>1 DEF Locks
<1>3. ASSUME NEW new \in Locks, locks' = [locks EXCEPT ![u] = new]
      PROVE  /\ locks' \in [Analysts -> Locks] /\ locks'[u] = new
             /\ \A v \in Analysts : v # u => locks'[v] = locks[v] BY <1>3
<1>4. ASSUME NEW r \in SUBSET Reports, Takes(u, "share", r) PROVE Took(u, r, {}, {}, {})
  <2> DEFINE new == [old EXCEPT !.share = old.share \cup r]
  <2>1. new \in Locks BY <1>1, <1>2 DEF Locks
  <2>2. /\ new.share = old.share \cup r
      /\ new.hold = old.hold
      /\ new.rows = old.rows
      /\ new.succeeds = old.succeeds BY <1>1 DEF Locks
  <2>3. locks' = [locks EXCEPT ![u] = new] BY <1>1, <1>4 DEF Takes
  <2> HIDE DEF new
  <2> QED BY <1>1, <1>2, <1>3, <2>1, <2>2, <2>3 DEF Took
<1>5. ASSUME NEW r \in SUBSET Reports, Takes(u, "hold", r) PROVE Took(u, {}, r, {}, {})
  <2> DEFINE new == [old EXCEPT !.hold = old.hold \cup r]
  <2>1. new \in Locks BY <1>1, <1>2 DEF Locks
  <2>2. /\ new.share = old.share
      /\ new.hold = old.hold \cup r
      /\ new.rows = old.rows
      /\ new.succeeds = old.succeeds BY <1>1 DEF Locks
  <2>3. locks' = [locks EXCEPT ![u] = new] BY <1>1, <1>5 DEF Takes
  <2> HIDE DEF new
  <2> QED BY <1>1, <1>2, <1>3, <2>1, <2>2, <2>3 DEF Took
<1>6. ASSUME NEW r \in SUBSET Parts, Takes(u, "rows", r) PROVE Took(u, {}, {}, r, {})
  <2> DEFINE new == [old EXCEPT !.rows = old.rows \cup r]
  <2>1. new \in Locks BY <1>1, <1>2 DEF Locks
  <2>2. /\ new.share = old.share
      /\ new.hold = old.hold
      /\ new.rows = old.rows \cup r
      /\ new.succeeds = old.succeeds BY <1>1 DEF Locks
  <2>3. locks' = [locks EXCEPT ![u] = new] BY <1>1, <1>6 DEF Takes
  <2> HIDE DEF new
  <2> QED BY <1>1, <1>2, <1>3, <2>1, <2>2, <2>3 DEF Took
<1>7. ASSUME NEW r \in SUBSET Reports, Takes(u, "succeeds", r) PROVE Took(u, {}, {}, {}, r)
  <2> DEFINE new == [old EXCEPT !.succeeds = old.succeeds \cup r]
  <2>1. new \in Locks BY <1>1, <1>2 DEF Locks
  <2>2. /\ new.share = old.share
      /\ new.hold = old.hold
      /\ new.rows = old.rows
      /\ new.succeeds = old.succeeds \cup r BY <1>1 DEF Locks
  <2>3. locks' = [locks EXCEPT ![u] = new] BY <1>1, <1>7 DEF Takes
  <2> HIDE DEF new
  <2> QED BY <1>1, <1>2, <1>3, <2>1, <2>2, <2>3 DEF Took
<1>8. UNCHANGED locks => Took(u, {}, {}, {}, {}) BY <1>1, <1>2 DEF Took
<1> QED BY <1>4, <1>5, <1>6, <1>7, <1>8

-----------------------------------------------------------------------------
(* Nothing u takes has been taken by another.                              *)
Free(u, share, hold, rows, succeeds) ==
    \A v \in Analysts : v # u =>
       /\ \A r \in share : r \notin locks[v].hold
       /\ \A r \in hold : r \notin locks[v].hold /\ r \notin locks[v].share
       /\ \A p \in rows : p \notin locks[v].rows
       /\ \A r \in succeeds : r \notin locks[v].succeeds

LEMMA TookApart ==
  ASSUME Apart, NEW u \in Analysts, NEW S, NEW H, NEW R, NEW C,
         Took(u, S, H, R, C), Free(u, S, H, R, C)
  PROVE  Apart'
<1> SUFFICES ASSUME NEW v \in Analysts, NEW w \in Analysts, v # w
             PROVE  /\ \A r \in locks'[v].hold : r \notin locks'[w].hold /\ r \notin locks'[w].share
                    /\ \A p \in locks'[v].rows : p \notin locks'[w].rows
                    /\ \A r \in locks'[v].succeeds : r \notin locks'[w].succeeds
  BY DEF Apart
<1>1. CASE v = u
  <2>1. locks'[w] = locks[w] BY <1>1 DEF Took
  <2>2. /\ \A r \in locks'[v].hold : r \in locks[v].hold \/ r \in H
        /\ \A r \in locks'[v].rows : r \in locks[v].rows \/ r \in R
        /\ \A r \in locks'[v].succeeds : r \in locks[v].succeeds \/ r \in C
    BY <1>1 DEF Took
  <2> QED BY <1>1, <2>1, <2>2 DEF Apart, Free
<1>2. CASE w = u
  <2>1. locks'[v] = locks[v] BY <1>2 DEF Took
  <2>2. /\ \A r \in locks'[w].share : r \in locks[w].share \/ r \in S
        /\ \A r \in locks'[w].hold : r \in locks[w].hold \/ r \in H
        /\ \A r \in locks'[w].rows : r \in locks[w].rows \/ r \in R
        /\ \A r \in locks'[w].succeeds : r \in locks[w].succeeds \/ r \in C
    BY <1>2 DEF Took
  <2> QED BY <1>2, <2>1, <2>2 DEF Apart, Free
<1>3. CASE v # u /\ w # u
  <2>1. locks'[v] = locks[v] /\ locks'[w] = locks[w] BY <1>3 DEF Took
  <2> QED BY <2>1 DEF Apart
<1> QED BY <1>1, <1>2, <1>3

(* Whoever does not move, where nothing stored changes, stays as it was.   *)
LEMMA OthersStay ==
  ASSUME NEW v \in Analysts, RequestOK(v), req'[v] = req[v], locks'[v] = locks[v],
         UNCHANGED <<reports, parts>>
  PROVE  RequestOK(v)'
<1>1. InOrder(req[v])' /\ Names(req[v])' BY DEF RequestOK, InOrder, Names
<1>2. TookReports(v)' BY DEF RequestOK, TookReports, IsReport
<1>3. HasTaken(v)' BY DEF RequestOK, HasTaken, IsReport, IsPart, Successors, PartsOf
<1>4. HasRead(v)'
  BY DEF RequestOK, HasRead, SinceRead, Held, IsPart, PartsOf
<1> QED BY <1>1, <1>2, <1>3, <1>4 DEF RequestOK

LEMMA DataStays ==
  ASSUME DataOK, PartsHaveTheirReport, OneSuccessor, UNCHANGED <<reports, document, parts>>
  PROVE  DataOK' /\ PartsHaveTheirReport' /\ OneSuccessor'
BY DEF DataOK, PartsHaveTheirReport, OneSuccessor, IsReport, IsPart

(* A step within a transaction.                                            *)
LEMMA StepKeeps ==
  ASSUME IInv, NEW u \in Analysts, NEW new \in Requests, Moves(u, new),
         NEW S, NEW H, NEW R, NEW C, Took(u, S, H, R, C), Free(u, S, H, R, C),
         UNCHANGED <<reports, document, parts, asked>>, RequestOK(u)'
  PROVE  IInv'
<1>1. DataOK' /\ PartsHaveTheirReport' /\ OneSuccessor' BY DataStays DEF IInv
<1>2. ReqTypes' BY DEF IInv, ReqTypes, Moves, Took
<1>3. Apart' BY TookApart DEF IInv
<1>4. ASSUME NEW v \in Analysts, v # u PROVE RequestOK(v)'
  <2>1. req'[v] = req[v] /\ locks'[v] = locks[v] BY <1>4 DEF Moves, Took
  <2> QED BY <2>1, OthersStay DEF IInv
<1> QED BY <1>1, <1>2, <1>3, <1>4 DEF IInv

(* A request that ends leaves nothing of itself.                           *)
LEMMA EmptyContent == <<>> \in Contents
<1>1. <<>> = [x \in {} |-> x] BY SMT
<1>2. <<>> \in [{} -> PartRows] BY <1>1
<1> QED BY <1>2 DEF Contents

LEMMA IdleFacts ==
  /\ Idle \in Requests /\ Idle.op = "idle" /\ Idle.at = "idle"
  /\ Nothing \in Locks
  /\ Nothing.share = {} /\ Nothing.hold = {} /\ Nothing.rows = {} /\ Nothing.succeeds = {}
BY EmptyContent DEF Idle, Request, Requests, Sights, Nothing, Locks

LEMMA EndsRest ==
  ASSUME ReqTypes, Apart, NEW u \in Analysts, Ends(u)
  PROVE  /\ ReqTypes' /\ Apart' /\ RequestOK(u)'
         /\ \A v \in Analysts : v # u => req'[v] = req[v] /\ locks'[v] = locks[v]
<1>1. /\ req' \in [Analysts -> Requests] /\ locks' \in [Analysts -> Locks]
      /\ req'[u] = Idle /\ locks'[u] = Nothing
      /\ \A v \in Analysts : v # u => req'[v] = req[v] /\ locks'[v] = locks[v]
  BY IdleFacts, Zenon DEF ReqTypes, Ends
<1>2. ReqTypes' BY <1>1 DEF ReqTypes, Ends
<1>3. Apart' BY <1>1, IdleFacts DEF Apart
<1>4. RequestOK(u)'
  BY <1>1, IdleFacts DEF RequestOK, InOrder, Names, TookReports, HasTaken, HasRead
<1> QED BY <1>1, <1>2, <1>3, <1>4

LEMMA RefusedKeeps ==
  ASSUME IInv, NEW u \in Analysts, Refused(u)
  PROVE  IInv'
<1>1. /\ ReqTypes' /\ Apart' /\ RequestOK(u)'
      /\ \A v \in Analysts : v # u => req'[v] = req[v] /\ locks'[v] = locks[v]
  BY EndsRest DEF IInv, Refused
<1>2. DataOK' /\ PartsHaveTheirReport' /\ OneSuccessor' BY DataStays DEF IInv, Refused
<1>3. ASSUME NEW v \in Analysts, v # u PROVE RequestOK(v)'
  BY <1>1, <1>3, OthersStay DEF IInv, Refused
<1> QED BY <1>1, <1>2, <1>3 DEF IInv

-----------------------------------------------------------------------------
(* What a statement that runs found free.                                  *)
LEMMA Found ==
  ASSUME NEW u \in Analysts, NEW a, At(u, a), NEW v \in Analysts, v # u
  PROVE  /\ req[u].at = a
         /\ a = "row" => req[u].part \notin locks[v].rows
         /\ a = "leave" => parts[req[u].part].of \notin locks[v].hold
         /\ a = "join" => req[u].to \notin locks[v].hold
         /\ a = "share" => req[u].report \notin locks[v].hold
         /\ a = "hold" => req[u].report \notin locks[v].hold \cup locks[v].share
         /\ a = "cascade" => /\ PartsOf(req[u].report) \cap locks[v].rows = {}
                             /\ Successors(req[u].report)
                                   \cap (locks[v].hold \cup locks[v].share) = {}
         /\ a = "insert" => req[u].report \notin locks[v].succeeds
BY DEF At, WaitsFor

LEMMA TakeRowKeeps ==
  ASSUME IInv, NEW u \in Analysts, TakeRow(u)
  PROVE  IInv'
<1>1. /\ req[u].at = "row" /\ req[u].op \in {"edit", "remove"} /\ req[u].part \in Parts
      /\ locks[u] = Nothing
  BY DEF TakeRow, At, IInv, RequestOK, InOrder, Names, HasTaken
<1>2. CASE Refused(u) BY <1>2, RefusedKeeps
<1>3. CASE /\ IsPart(req[u].part) /\ parts[req[u].part].version = req[u].version
           /\ Takes(u, "rows", {req[u].part}) /\ Goes(u, "leave")
           /\ UNCHANGED <<reports, document, parts, asked>>
  <2>1. PICK new \in Requests :
            /\ Moves(u, new) /\ SameBut(req[u], new, "at") /\ new.at = "leave"
            /\ new.seen = req[u].seen /\ new.read = req[u].read
    BY <1>3, GoesMoves DEF IInv, ReqTypes, Ats
  <2>2. Took(u, {}, {}, {req[u].part}, {}) BY <1>1, <1>3, TakesMore DEF IInv, ReqTypes
  <2>3. Free(u, {}, {}, {req[u].part}, {}) BY Found DEF Free, TakeRow
  <2>4. /\ req'[u] = new /\ new.op = req[u].op /\ new.part = req[u].part
        /\ new.version = req[u].version /\ new.to = req[u].to /\ new.section = req[u].section
    BY <2>1 DEF Moves, SameBut
  <2>5. RequestOK(u)'
    BY <1>1, <1>3, <2>1, <2>2, <2>4, IdleFacts
    DEF IInv, RequestOK, InOrder, Names, TookReports, HasTaken, HasRead, IsPart, Took
  <2> QED BY <1>3, <2>1, <2>2, <2>3, <2>5, StepKeeps
<1> QED BY <1>2, <1>3 DEF TakeRow

LEMMA LeaveReportKeeps ==
  ASSUME IInv, NEW u \in Analysts, LeaveReport(u)
  PROVE  IInv'
<1> DEFINE from == parts[req[u].part].of
           next == IF req[u].op = "edit" /\ req[u].to # from THEN "join" ELSE "commit"
<1>1. /\ req[u].at = "leave" /\ req[u].op \in {"edit", "remove"} /\ req[u].part \in Parts
      /\ IsPart(req[u].part) /\ req[u].part \in locks[u].rows
      /\ parts[req[u].part].version = req[u].version
  BY DEF LeaveReport, At, IInv, RequestOK, InOrder, Names, HasTaken
<1>2. from \in Reports /\ IsReport(from)
  BY <1>1 DEF IInv, PartsHaveTheirReport, DataOK, IsPart, PartRows
<1>3. CASE Refused(u) BY <1>3, RefusedKeeps
<1>4. CASE /\ ~ IsSent(from) /\ Takes(u, "share", {from}) /\ Goes(u, next)
           /\ UNCHANGED <<reports, document, parts, asked>>
  <2>1. PICK new \in Requests :
            /\ Moves(u, new) /\ SameBut(req[u], new, "at") /\ new.at = next
            /\ new.seen = req[u].seen /\ new.read = req[u].read
    BY <1>4, GoesMoves DEF IInv, ReqTypes, Ats
  <2>2. Took(u, {from}, {}, {}, {}) BY <1>2, <1>4, TakesMore DEF IInv, ReqTypes
  <2>3. Free(u, {from}, {}, {}, {}) BY Found DEF Free, LeaveReport
  <2>4. /\ req'[u] = new /\ new.op = req[u].op /\ new.part = req[u].part
        /\ new.version = req[u].version /\ new.to = req[u].to /\ new.section = req[u].section
    BY <2>1 DEF Moves, SameBut
  <2>5. TookReports(u)'
    BY <1>1, <1>2, <1>4, <2>2, <2>4
    DEF IInv, RequestOK, TookReports, IsReport, IsSent, Took
  <2>6. InOrder(req[u])' /\ Names(req[u])'
    BY <1>1, <2>1, <2>4 DEF IInv, RequestOK, InOrder, Names
  <2>7. HasTaken(u)' /\ HasRead(u)'
    BY <1>1, <1>4, <2>1, <2>2, <2>4 DEF HasTaken, HasRead, IsPart, Took
  <2> QED BY <1>4, <2>1, <2>2, <2>3, <2>5, <2>6, <2>7, StepKeeps DEF RequestOK
<1> QED BY <1>3, <1>4 DEF LeaveReport

LEMMA JoinReportKeeps ==
  ASSUME IInv, NEW u \in Analysts, JoinReport(u)
  PROVE  IInv'
<1>1. /\ req[u].at = "join" /\ req[u].op \in {"edit", "add"} /\ req[u].to \in Reports
  BY DEF JoinReport, At, IInv, RequestOK, InOrder, Names
<1>2. CASE Refused(u) BY <1>2, RefusedKeeps
<1>3. CASE /\ IsReport(req[u].to) /\ ~ IsSent(req[u].to)
           /\ Takes(u, "share", {req[u].to}) /\ Goes(u, "commit")
           /\ UNCHANGED <<reports, document, parts, asked>>
  <2>1. PICK new \in Requests :
            /\ Moves(u, new) /\ SameBut(req[u], new, "at") /\ new.at = "commit"
            /\ new.seen = req[u].seen /\ new.read = req[u].read
    BY <1>3, GoesMoves DEF IInv, ReqTypes, Ats
  <2>2. Took(u, {req[u].to}, {}, {}, {}) BY <1>1, <1>3, TakesMore DEF IInv, ReqTypes
  <2>3. Free(u, {req[u].to}, {}, {}, {}) BY Found DEF Free, JoinReport
  <2>4. /\ req'[u] = new /\ new.op = req[u].op /\ new.part = req[u].part
        /\ new.version = req[u].version /\ new.to = req[u].to /\ new.section = req[u].section
    BY <2>1 DEF Moves, SameBut
  <2>5. TookReports(u)'
    BY <1>1, <1>3, <2>2, <2>4
    DEF IInv, RequestOK, TookReports, IsReport, IsSent, Took
  <2>6. InOrder(req[u])' /\ Names(req[u])'
    BY <1>1, <2>1, <2>4 DEF IInv, RequestOK, InOrder, Names
  <2>7. HasTaken(u)' /\ HasRead(u)'
    BY <1>1, <1>3, <2>1, <2>2, <2>4
    DEF IInv, RequestOK, HasTaken, HasRead, IsPart, Took
  <2> QED BY <1>3, <2>1, <2>2, <2>3, <2>5, <2>6, <2>7, StepKeeps DEF RequestOK
<1> QED BY <1>2, <1>3 DEF JoinReport

LEMMA HeldFacts ==
  ASSUME DataOK, NEW r
  PROVE  /\ Held(r) \in Contents /\ DOMAIN Held(r) = PartsOf(r)
         /\ \A p \in PartsOf(r) : /\ Held(r)[p] = parts[p] /\ parts[p] \in PartRows
                                /\ p \in Parts /\ IsPart(p) /\ parts[p].of = r
<1>1. \A p \in PartsOf(r) : p \in Parts /\ IsPart(p) /\ parts[p] \in PartRows /\ parts[p].of = r
  BY DEF PartsOf, IsPart, DataOK
<1>2. Held(r) \in [PartsOf(r) -> PartRows] BY <1>1 DEF Held
<1>3. PartsOf(r) \in SUBSET Parts BY DEF PartsOf
<1> QED BY <1>1, <1>2, <1>3 DEF Contents, Held

LEMMA CheckUnsentKeeps ==
  ASSUME IInv, NEW u \in Analysts, CheckUnsent(u)
  PROVE  IInv'
<1>1. req[u].at = "check" /\ req[u].op = "send" /\ locks[u] = Nothing
  BY DEF CheckUnsent, At, IInv, RequestOK, InOrder, HasTaken
<1>2. CASE Refused(u) BY <1>2, RefusedKeeps
<1>3. CASE Goes(u, "report") /\ UNCHANGED <<reports, document, parts, locks, asked>>
  <2>1. PICK new \in Requests :
            /\ Moves(u, new) /\ SameBut(req[u], new, "at") /\ new.at = "report"
            /\ new.seen = req[u].seen /\ new.read = req[u].read
    BY <1>3, GoesMoves DEF IInv, ReqTypes, Ats
  <2>2. Took(u, {}, {}, {}, {}) BY <1>3, TakesMore DEF IInv, ReqTypes
  <2>3. Free(u, {}, {}, {}, {}) BY DEF Free
  <2>4. req'[u] = new /\ new.op = "send" /\ new.report = req[u].report
    BY <1>1, <2>1 DEF Moves, SameBut
  <2>5. RequestOK(u)'
    BY <1>1, <1>3, <2>1, <2>4, IdleFacts, SMT
    DEF IInv, RequestOK, InOrder, Names, TookReports, HasTaken, HasRead
  <2> QED BY <1>3, <2>1, <2>2, <2>3, <2>5, StepKeeps
<1> QED BY <1>2, <1>3 DEF CheckUnsent

LEMMA DrawReportKeeps ==
  ASSUME IInv, NEW u \in Analysts, DrawReport(u)
  PROVE  IInv'
<1> DEFINE seen == IF IsSent(req[u].report) THEN None ELSE reports[req[u].report].version
           next == IF IsSent(req[u].report) THEN "hold" ELSE "parts"
<1>1. /\ req[u].at = "report" /\ req[u].op = "send" /\ req[u].report \in Reports
      /\ locks[u] = Nothing
  BY DEF DrawReport, At, IInv, RequestOK, InOrder, Names, HasTaken
<1>2. CASE Refused(u) BY <1>2, RefusedKeeps
<1>3. CASE /\ IsReport(req[u].report)
           /\ req' = [req EXCEPT ![u].seen = seen, ![u].at = next]
           /\ UNCHANGED <<reports, document, parts, locks, asked>>
  <2>0. seen \in Sights
    BY <1>1, <1>3 DEF IInv, DataOK, IsReport, ReportRows, Sights
  <2>1. PICK new \in Requests :
            /\ Moves(u, new) /\ SameBut(req[u], new, "at") /\ new.at = next
            /\ new.seen = seen /\ new.read = req[u].read
    <3>1. Sees(u, seen, next) BY <1>3 DEF Sees
    <3> HIDE DEF seen
    <3> QED BY <2>0, <3>1, SeesMoves DEF IInv, ReqTypes, Ats
  <2>2. Took(u, {}, {}, {}, {}) BY <1>3, TakesMore DEF IInv, ReqTypes
  <2>3. Free(u, {}, {}, {}, {}) BY DEF Free
  <2>4. /\ req'[u] = new /\ new.op = "send" /\ new.report = req[u].report
        /\ new.at \in {"hold", "parts"} /\ locks'[u] = Nothing
    BY <1>1, <1>3, <2>1 DEF Moves, SameBut
  <2>5. InOrder(req[u])' /\ Names(req[u])' /\ TookReports(u)' /\ HasTaken(u)'
    BY <1>1, <2>4, IdleFacts DEF InOrder, Names, TookReports, HasTaken
  <2>6. req[u].read = <<>> /\ DOMAIN req[u].read = {}
    BY <1>1 DEF IInv, RequestOK, HasRead
  <2>7. HasRead(u)' BY <2>1, <2>4, <2>6 DEF HasRead
  <2> QED BY <1>3, <2>1, <2>2, <2>3, <2>5, <2>7, StepKeeps DEF RequestOK
<1> QED BY <1>2, <1>3 DEF DrawReport

LEMMA DrawPartsKeeps ==
  ASSUME IInv, NEW u \in Analysts, DrawParts(u)
  PROVE  IInv'
<1> DEFINE drawn == Held(req[u].report)
<1>1. /\ req[u].at = "parts" /\ req[u].op = "send" /\ req[u].report \in Reports
      /\ locks[u] = Nothing
  BY DEF DrawParts, At, IInv, RequestOK, InOrder, Names, HasTaken
<1>2. drawn \in Contents BY HeldFacts DEF IInv
<1>3. PICK new \in Requests :
            /\ Moves(u, new) /\ SameBut(req[u], new, "at") /\ new.at = "hold"
            /\ new.seen = req[u].seen /\ new.read = drawn
  <2>1. Reads(u, drawn, "hold") BY DEF Reads, DrawParts
  <2> HIDE DEF drawn
  <2> QED BY <1>2, <2>1, ReadsMoves DEF IInv, ReqTypes, Ats
<1>4. Took(u, {}, {}, {}, {}) BY TakesMore DEF IInv, ReqTypes, DrawParts
<1>5. Free(u, {}, {}, {}, {}) BY DEF Free
<1>6. req'[u] = new /\ new.op = "send" /\ new.report = req[u].report
  BY <1>1, <1>3 DEF Moves, SameBut
<1>7. InOrder(req[u])' /\ Names(req[u])' /\ TookReports(u)' /\ HasTaken(u)'
  BY <1>1, <1>3, <1>6, IdleFacts DEF InOrder, Names, TookReports, HasTaken, DrawParts
<1>8. \A p \in DOMAIN drawn : SinceRead(p, drawn[p])
  BY HeldFacts DEF IInv, SinceRead, PartRows
<1>9. HasRead(u)' BY <1>3, <1>6, <1>8 DEF HasRead, SinceRead, IsPart, DrawParts
<1> QED BY <1>3, <1>4, <1>5, <1>7, <1>9, StepKeeps DEF RequestOK, DrawParts

LEMMA ReadLayoutKeeps ==
  ASSUME IInv, NEW u \in Analysts, ReadLayout(u)
  PROVE  IInv'
<1> DEFINE seen == reports[req[u].report].template
<1>1. /\ req[u].at = "layout" /\ req[u].op = "restore" /\ req[u].report \in Reports
      /\ locks[u] = Nothing
  BY DEF ReadLayout, At, IInv, RequestOK, InOrder, Names, HasTaken
<1>2. CASE Refused(u) BY <1>2, RefusedKeeps
<1>3. CASE /\ IsReport(req[u].report)
           /\ req' = [req EXCEPT ![u].seen = seen, ![u].at = "hold"]
           /\ UNCHANGED <<reports, document, parts, locks, asked>>
  <2>0. seen \in Sights /\ seen \in Layouts
    BY <1>1, <1>3 DEF IInv, DataOK, IsReport, ReportRows, Sights
  <2>1. PICK new \in Requests :
            /\ Moves(u, new) /\ SameBut(req[u], new, "at") /\ new.at = "hold"
            /\ new.seen = seen /\ new.read = req[u].read
    <3>1. Sees(u, seen, "hold") BY <1>3 DEF Sees
    <3> HIDE DEF seen
    <3> QED BY <2>0, <3>1, SeesMoves DEF IInv, ReqTypes, Ats
  <2>2. Took(u, {}, {}, {}, {}) BY <1>3, TakesMore DEF IInv, ReqTypes
  <2>3. Free(u, {}, {}, {}, {}) BY DEF Free
  <2>4. req'[u] = new /\ new.op = "restore" /\ new.report = req[u].report
    BY <1>1, <2>1 DEF Moves, SameBut
  <2>5. RequestOK(u)'
    BY <1>1, <1>3, <2>0, <2>1, <2>4, IdleFacts
    DEF RequestOK, InOrder, Names, TookReports, HasTaken, HasRead
  <2> QED BY <1>3, <2>1, <2>2, <2>3, <2>5, StepKeeps
<1> QED BY <1>2, <1>3 DEF ReadLayout

LEMMA HoldReportKeeps ==
  ASSUME IInv, NEW u \in Analysts, HoldReport(u)
  PROVE  IInv'
<1> DEFINE r == req[u].report
           next == AfterHold(req[u].op)
<1>1. /\ req[u].at = "hold" /\ req[u].op \in {"label", "delete", "send", "restore"}
      /\ r \in Reports
  BY DEF HoldReport, At, IInv, RequestOK, InOrder, Names
<1>2. CASE Refused(u) BY <1>2, RefusedKeeps
<1>3. CASE /\ IsReport(r) /\ ~ IsSent(r) /\ Unmoved(u)
           /\ Takes(u, "hold", {r}) /\ Goes(u, next)
           /\ UNCHANGED <<reports, document, parts, asked>>
  <2>0. next \in Ats BY <1>1 DEF AfterHold, Ats
  <2>1. PICK new \in Requests :
            /\ Moves(u, new) /\ SameBut(req[u], new, "at") /\ new.at = next
            /\ new.seen = req[u].seen /\ new.read = req[u].read
    BY <1>3, <2>0, GoesMoves DEF IInv, ReqTypes
  <2>2. Took(u, {}, {r}, {}, {}) BY <1>1, <1>3, TakesMore DEF IInv, ReqTypes
  <2>3. Free(u, {}, {r}, {}, {}) BY Found DEF Free, HoldReport
  <2>4. /\ req'[u] = new /\ new.op = req[u].op /\ new.report = r /\ new.to = req[u].to
    BY <2>1 DEF Moves, SameBut
  <2>5. TookReports(u)'
    BY <1>1, <1>3, <2>2, <2>4
    DEF IInv, RequestOK, TookReports, IsReport, IsSent, Took
  <2>6. InOrder(req[u])' /\ Names(req[u])'
    BY <1>1, <2>1, <2>4 DEF IInv, RequestOK, InOrder, Names, AfterHold
  <2>7. HasTaken(u)'
    BY <1>1, <1>3, <2>1, <2>2, <2>4 DEF HasTaken, AfterHold, Took
  <2>8. HasRead(u)'
    BY <1>1, <1>3, <2>1, <2>2, <2>4
    DEF IInv, RequestOK, HasRead, AfterHold, SinceRead, IsPart, Unmoved
  <2> QED BY <1>3, <2>1, <2>2, <2>3, <2>5, <2>6, <2>7, <2>8, StepKeeps DEF RequestOK
<1> QED BY <1>2, <1>3 DEF HoldReport

(* A send that finds nothing moved has read what it holds.                 *)
LEMMA UnmovedIsHeld ==
  ASSUME IInv, NEW u \in Analysts, req[u].op = "send", req[u].at = "compare",
         ~ Moved(req[u])
  PROVE  req[u].read = Held(req[u].report)
<1> DEFINE r == req[u].report
           read == req[u].read
<1>1. PartsOf(r) = DOMAIN read /\ \A p \in PartsOf(r) : parts[p].version = read[p].version
  BY DEF Moved
<1>2. \A p \in PartsOf(r) : IsPart(p) BY DEF PartsOf
<1>3. ASSUME NEW p \in PartsOf(r) PROVE parts[p] = read[p]
  <2>1. SinceRead(p, read[p]) BY <1>1, <1>3 DEF IInv, RequestOK, HasRead
  <2> QED BY <1>1, <1>2, <1>3, <2>1 DEF SinceRead, IsPart
<1>4. PICK S \in SUBSET Parts : read \in [S -> PartRows]
  BY DEF IInv, ReqTypes, Requests, Contents
<1>5. S = DOMAIN read BY <1>4
<1>6. read = [p \in PartsOf(r) |-> read[p]] BY <1>1, <1>4, <1>5
<1>7. [p \in PartsOf(r) |-> read[p]] = [p \in PartsOf(r) |-> parts[p]] BY <1>3
<1> QED BY <1>6, <1>7 DEF Held

LEMMA CompareKeeps ==
  ASSUME IInv, NEW u \in Analysts, Compare(u)
  PROVE  IInv'
<1> DEFINE r == req[u].report
           read == IF req[u].op = "send" THEN req[u].read ELSE Held(r)
<1>1. /\ req[u].at = "compare" /\ req[u].op \in {"send", "restore"} /\ r \in Reports
      /\ r \in locks[u].hold
  BY DEF Compare, At, IInv, RequestOK, InOrder, Names, HasTaken
<1>2. CASE Refused(u) BY <1>2, RefusedKeeps
<1>3. CASE /\ ~ (req[u].op = "send" /\ Moved(req[u]))
           /\ req' = [req EXCEPT ![u].at = "commit",
                 ![u].read = IF req[u].op = "send" THEN @ ELSE Held(req[u].report)]
           /\ UNCHANGED <<reports, document, parts, locks, asked>>
  <2>1. read \in Contents
    BY HeldFacts DEF IInv, ReqTypes, Requests
  <2>2. Reads(u, read, "commit")
    <3>1. CASE req[u].op = "send" BY <1>3, <3>1 DEF Reads
    <3>2. CASE req[u].op # "send" BY <1>3, <3>2 DEF Reads
    <3> QED BY <3>1, <3>2
  <2>3. read = Held(r) BY <1>1, <1>3, UnmovedIsHeld
  <2> HIDE DEF read
  <2>4. PICK new \in Requests :
            /\ Moves(u, new) /\ SameBut(req[u], new, "at") /\ new.at = "commit"
            /\ new.seen = req[u].seen /\ new.read = read
    BY <2>1, <2>2, ReadsMoves DEF IInv, ReqTypes, Ats
  <2>5. Took(u, {}, {}, {}, {}) BY <1>3, TakesMore DEF IInv, ReqTypes
  <2>6. Free(u, {}, {}, {}, {}) BY DEF Free
  <2>7. /\ req'[u] = new /\ new.op = req[u].op /\ new.report = r
    BY <2>4 DEF Moves, SameBut
  <2>8. InOrder(req[u])' /\ Names(req[u])' /\ HasTaken(u)'
    BY <1>1, <1>3, <2>4, <2>7 DEF IInv, RequestOK, InOrder, Names, HasTaken
  <2>9. TookReports(u)'
    BY <1>1, <1>3, <2>7 DEF IInv, RequestOK, TookReports, IsReport
  <2>10. req[u].op = "restore" => req[u].seen = reports[r].template
    BY <1>1 DEF IInv, RequestOK, HasRead
  <2>11. HasRead(u)'
    <3>1. /\ req'[u].read = Held(r) /\ req'[u].report = r /\ req'[u].op = req[u].op
          /\ req'[u].seen = req[u].seen /\ req'[u].at = "commit"
          /\ parts' = parts /\ reports' = reports
      BY <1>3, <2>3, <2>4, <2>7
    <3>2. req'[u].read = Held(req[u].report)' BY <3>1 DEF Held, PartsOf, IsPart
    <3> QED BY <2>10, <3>1, <3>2 DEF HasRead
  <2> QED BY <1>3, <2>4, <2>5, <2>6, <2>8, <2>9, <2>11, StepKeeps DEF RequestOK
<1> QED BY <1>2, <1>3 DEF Compare

LEMMA CascadeKeeps ==
  ASSUME IInv, NEW u \in Analysts, Cascade(u)
  PROVE  IInv'
<1> DEFINE r == req[u].report
<1>1. /\ req[u].at = "cascade" /\ req[u].op = "delete" /\ r \in Reports
      /\ r \in locks[u].hold
  BY DEF Cascade, At, IInv, RequestOK, InOrder, Names, HasTaken
<1>2. CASE Refused(u) BY <1>2, RefusedKeeps
<1>3. CASE /\ ~ \E s \in Successors(r) : IsSent(s)
           /\ locks' = [locks EXCEPT ![u].hold = @ \cup Successors(r),
                                     ![u].rows = @ \cup PartsOf(r)]
           /\ Goes(u, "commit")
           /\ UNCHANGED <<reports, document, parts, asked>>
  <2>1. PICK new \in Requests :
            /\ Moves(u, new) /\ SameBut(req[u], new, "at") /\ new.at = "commit"
            /\ new.seen = req[u].seen /\ new.read = req[u].read
    BY <1>3, GoesMoves DEF IInv, ReqTypes, Ats
  <2>2. Took(u, {}, Successors(r), PartsOf(r), {})
    <3>1. PICK old \in Locks : old = locks[u] BY DEF IInv, ReqTypes
    <3> DEFINE mid == [old EXCEPT !.hold = old.hold \cup Successors(r)]
               took == [mid EXCEPT !.rows = old.rows \cup PartsOf(r)]
    <3>2. Successors(r) \subseteq Reports /\ PartsOf(r) \subseteq Parts
      BY DEF Successors, PartsOf
    <3>3. mid \in Locks BY <3>1, <3>2 DEF Locks
    <3>4. /\ mid.share = old.share /\ mid.hold = old.hold \cup Successors(r)
          /\ mid.rows = old.rows /\ mid.succeeds = old.succeeds BY <3>1 DEF Locks
    <3>5. locks' = [locks EXCEPT ![u] = took] BY <1>3, <3>1
    <3> HIDE DEF mid
    <3>6. took \in Locks BY <3>1, <3>2, <3>3 DEF Locks
    <3>7. /\ took.share = mid.share /\ took.hold = mid.hold
          /\ took.rows = old.rows \cup PartsOf(r) /\ took.succeeds = mid.succeeds
      BY <3>3 DEF Locks
    <3> HIDE DEF took
    <3>8. /\ locks' \in [Analysts -> Locks] /\ locks'[u] = took
          /\ \A v \in Analysts : v # u => locks'[v] = locks[v]
      BY <3>5, <3>6 DEF IInv, ReqTypes
    <3> QED BY <3>1, <3>4, <3>7, <3>8 DEF Took
  <2>3. Free(u, {}, Successors(r), PartsOf(r), {})
    <3> SUFFICES ASSUME NEW v \in Analysts, v # u
                 PROVE  /\ \A s \in Successors(r) : s \notin locks[v].hold /\ s \notin locks[v].share
                        /\ \A p \in PartsOf(r) : p \notin locks[v].rows
      BY DEF Free
    <3> QED BY Found DEF Cascade
  <2>4. /\ req'[u] = new /\ new.op = "delete" /\ new.report = r
    BY <1>1, <2>1 DEF Moves, SameBut
  <2>5. TookReports(u)'
    BY <1>1, <1>3, <2>2, <2>4
    DEF IInv, RequestOK, TookReports, IsReport, IsSent, Took, Successors
  <2>6. InOrder(req[u])' /\ Names(req[u])' /\ HasRead(u)'
    BY <1>1, <2>1, <2>4 DEF InOrder, Names, HasRead
  <2>7. HasTaken(u)'
    BY <1>1, <1>3, <2>1, <2>2, <2>4
    DEF HasTaken, Took, Successors, PartsOf, IsReport, IsPart
  <2> QED BY <1>3, <2>1, <2>2, <2>3, <2>5, <2>6, <2>7, StepKeeps DEF RequestOK
<1> QED BY <1>2, <1>3 DEF Cascade

LEMMA ShareReportKeeps ==
  ASSUME IInv, NEW u \in Analysts, ShareReport(u)
  PROVE  IInv'
<1> DEFINE r == req[u].report
<1>1. req[u].at = "share" /\ req[u].op = "supersede" /\ r \in Reports
  BY DEF ShareReport, At, IInv, RequestOK, InOrder, Names
<1>2. CASE Refused(u) BY <1>2, RefusedKeeps
<1>3. CASE /\ IsReport(r) /\ Takes(u, "share", {r})
           /\ req' = [req EXCEPT ![u].at = "insert", ![u].read = Held(r)]
           /\ UNCHANGED <<reports, document, parts, asked>>
  <2>0. Held(r) \in Contents /\ Reads(u, Held(r), "insert")
    BY <1>3, HeldFacts DEF IInv, Reads
  <2>1. PICK new \in Requests :
            /\ Moves(u, new) /\ SameBut(req[u], new, "at") /\ new.at = "insert"
            /\ new.seen = req[u].seen /\ new.read = Held(r)
    BY <2>0, ReadsMoves DEF IInv, ReqTypes, Ats
  <2>2. Took(u, {r}, {}, {}, {}) BY <1>1, <1>3, TakesMore DEF IInv, ReqTypes
  <2>3. Free(u, {r}, {}, {}, {}) BY Found DEF Free, ShareReport
  <2>4. /\ req'[u] = new /\ new.op = "supersede" /\ new.report = r
    BY <1>1, <2>1 DEF Moves, SameBut
  <2>5. TookReports(u)'
    BY <1>1, <1>3, <2>2, <2>4 DEF IInv, RequestOK, TookReports, IsReport, Took
  <2>6. InOrder(req[u])' /\ Names(req[u])' /\ HasRead(u)' /\ HasTaken(u)'
    BY <1>1, <2>1, <2>2, <2>4 DEF InOrder, Names, HasRead, HasTaken, Took
  <2> QED BY <1>3, <2>1, <2>2, <2>3, <2>5, <2>6, StepKeeps DEF RequestOK
<1> QED BY <1>2, <1>3 DEF ShareReport

LEMMA InsertSuccessorKeeps ==
  ASSUME IInv, NEW u \in Analysts, InsertSuccessor(u)
  PROVE  IInv'
<1> DEFINE r == req[u].report
<1>1. /\ req[u].at = "insert" /\ req[u].op = "supersede" /\ r \in Reports
      /\ r \in locks[u].share
  BY DEF InsertSuccessor, At, IInv, RequestOK, InOrder, Names, HasTaken
<1>2. CASE Refused(u) BY <1>2, RefusedKeeps
<1>3. CASE /\ Successors(r) = {} /\ Takes(u, "succeeds", {r}) /\ Goes(u, "commit")
           /\ UNCHANGED <<reports, document, parts, asked>>
  <2>1. PICK new \in Requests :
            /\ Moves(u, new) /\ SameBut(req[u], new, "at") /\ new.at = "commit"
            /\ new.seen = req[u].seen /\ new.read = req[u].read
    BY <1>3, GoesMoves DEF IInv, ReqTypes, Ats
  <2>2. Took(u, {}, {}, {}, {r}) BY <1>1, <1>3, TakesMore DEF IInv, ReqTypes
  <2>3. Free(u, {}, {}, {}, {r}) BY Found DEF Free, InsertSuccessor
  <2>4. /\ req'[u] = new /\ new.op = "supersede" /\ new.report = r
    BY <1>1, <2>1 DEF Moves, SameBut
  <2>5. TookReports(u)'
    BY <1>1, <1>3, <2>2, <2>4 DEF IInv, RequestOK, TookReports, IsReport, Took
  <2>6. InOrder(req[u])' /\ Names(req[u])' /\ HasRead(u)'
    BY <1>1, <2>1, <2>4 DEF InOrder, Names, HasRead
  <2>7. HasTaken(u)'
    BY <1>1, <1>3, <2>1, <2>2, <2>4 DEF HasTaken, Took, Successors, IsReport
  <2> QED BY <1>3, <2>1, <2>2, <2>3, <2>5, <2>6, <2>7, StepKeeps DEF RequestOK
<1> QED BY <1>2, <1>3 DEF InsertSuccessor

(* A request that is asked for has taken and read nothing.                 *)
Begins(q) ==
    /\ \/ q.op \in {"edit", "remove"} /\ q.at = "row"
       \/ q.op = "add" /\ q.at = "join"
       \/ q.op \in {"label", "delete"} /\ q.at = "hold"
       \/ q.op = "send" /\ q.at = "check"
       \/ q.op = "supersede" /\ q.at = "share"
       \/ q.op = "restore" /\ q.at = "layout"
    /\ Names(q)
    /\ q.read = <<>>

LEMMA AsksKeeps ==
  ASSUME IInv, NEW u \in Analysts, NEW q \in Requests, Asks(u, q), Begins(q)
  PROVE  IInv'
<1>1. Moves(u, q) BY DEF IInv, ReqTypes, Asks, Moves
<1>2. req[u] = Idle /\ locks[u] = Nothing
  BY IdleFacts DEF Asks, IInv, RequestOK, HasTaken
<1>3. req'[u] = q /\ locks'[u] = Nothing BY <1>1, <1>2 DEF Moves, Asks
<1>4. InOrder(req[u])' /\ Names(req[u])' BY <1>3 DEF Begins, InOrder, Names
<1>5. TookReports(u)' /\ HasTaken(u)' /\ HasRead(u)'
  BY <1>3, IdleFacts DEF Begins, TookReports, HasTaken, HasRead
<1>6. Took(u, {}, {}, {}, {}) BY TakesMore DEF IInv, ReqTypes, Asks
<1>7. ReqTypes' BY <1>1, <1>6, BoundsAssumption DEF IInv, ReqTypes, Moves, Took, Asks
<1>8. Apart' BY DEF IInv, Apart, Asks
<1>9. DataOK' /\ PartsHaveTheirReport' /\ OneSuccessor' BY DataStays DEF IInv, Asks
<1>10. ASSUME NEW v \in Analysts, v # u PROVE RequestOK(v)'
  <2>1. req'[v] = req[v] /\ locks'[v] = locks[v] BY <1>1, <1>6, <1>10 DEF Moves, Took
  <2> QED BY <2>1, OthersStay DEF IInv, Asks
<1> QED BY <1>4, <1>5, <1>7, <1>8, <1>9, <1>10 DEF IInv, RequestOK

LEMMA AskKeeps ==
  ASSUME IInv, NEW u \in Analysts, Ask(u)
  PROVE  IInv'
<1>1. \A p \in Parts : IsPart(p) => parts[p].version \in Nat
  BY DEF IInv, DataOK, IsPart, PartRows
<1>2. \A r \in Reports : IsReport(r) => reports[r].version \in Nat
  BY DEF IInv, DataOK, IsReport, ReportRows
<1>3. CASE AskEdit(u)
  <2>1. PICK p \in Parts, t \in Reports, s \in Sections :
           IsPart(p) /\ Asks(u, Request("edit", "row", None, p, parts[p].version, t, s))
    BY <1>3 DEF AskEdit
  <2> DEFINE q == Request("edit", "row", None, p, parts[p].version, t, s)
  <2>8. q \in Requests
    BY <1>1, <2>1, EmptyContent DEF Request, Requests, Sights
  <2>9. Begins(q) BY <1>1, <2>1 DEF Request, Begins, Names
  <2> HIDE DEF q
  <2> QED BY <1>1, <2>1, <2>8, <2>9, AsksKeeps DEF q
<1>4. CASE AskRemove(u)
  <2>1. PICK p \in Parts :
           IsPart(p) /\ Asks(u, Request("remove", "row", None, p, parts[p].version, None, None))
    BY <1>4 DEF AskRemove
  <2> DEFINE q == Request("remove", "row", None, p, parts[p].version, None, None)
  <2>8. q \in Requests
    BY <1>1, <2>1, EmptyContent DEF Request, Requests, Sights
  <2>9. Begins(q) BY <1>1, <2>1 DEF Request, Begins, Names
  <2> HIDE DEF q
  <2> QED BY <1>1, <2>1, <2>8, <2>9, AsksKeeps DEF q
<1>5. CASE AskAdd(u)
  <2>1. PICK t \in Reports, s \in Sections :
           Asks(u, Request("add", "join", None, None, 0, t, s))
    BY <1>5 DEF AskAdd
  <2> DEFINE q == Request("add", "join", None, None, 0, t, s)
  <2>8. q \in Requests
    BY <1>1, <2>1, EmptyContent DEF Request, Requests, Sights
  <2>9. Begins(q) BY <1>1, <2>1 DEF Request, Begins, Names
  <2> HIDE DEF q
  <2> QED BY <1>1, <2>1, <2>8, <2>9, AsksKeeps DEF q
<1>6. CASE AskOfReport(u)
  <2>1. PICK r \in Reports :
         /\ IsReport(r)
         /\ \/ \E t \in Layouts :
                  Asks(u, Request("label", "hold", r, None, reports[r].version, t, None))
            \/ Asks(u, Request("delete", "hold", r, None, reports[r].version, None, None))
            \/ Asks(u, Request("send", "check", r, None, 0, None, None))
            \/ Asks(u, Request("supersede", "share", r, None, 0, None, None))
            \/ Asks(u, Request("restore", "layout", r, None, 0, None, None))
    BY <1>6 DEF AskOfReport
  <2>2. ASSUME NEW t \in Layouts,
               Asks(u, Request("label", "hold", r, None, reports[r].version, t, None))
        PROVE  IInv'
    <3> DEFINE q == Request("label", "hold", r, None, reports[r].version, t, None)
    <3>8. q \in Requests
      BY <1>2, <2>1, <2>2, EmptyContent DEF Request, Requests, Sights
    <3>9. Begins(q) BY <1>2, <2>1, <2>2 DEF Request, Begins, Names
    <3> HIDE DEF q
    <3> QED BY <1>2, <2>1, <2>2, <3>8, <3>9, AsksKeeps DEF q
  <2>3. CASE Asks(u, Request("delete", "hold", r, None, reports[r].version, None, None))
    <3> DEFINE q == Request("delete", "hold", r, None, reports[r].version, None, None)
    <3>8. q \in Requests
      BY <1>2, <2>1, <2>3, EmptyContent DEF Request, Requests, Sights
    <3>9. Begins(q) BY <1>2, <2>1, <2>3 DEF Request, Begins, Names
    <3> HIDE DEF q
    <3> QED BY <1>2, <2>1, <2>3, <3>8, <3>9, AsksKeeps DEF q
  <2>4. CASE Asks(u, Request("send", "check", r, None, 0, None, None))
    <3> DEFINE q == Request("send", "check", r, None, 0, None, None)
    <3>8. q \in Requests
      BY <1>2, <2>1, <2>4, EmptyContent DEF Request, Requests, Sights
    <3>9. Begins(q) BY <1>2, <2>1, <2>4 DEF Request, Begins, Names
    <3> HIDE DEF q
    <3> QED BY <1>2, <2>1, <2>4, <3>8, <3>9, AsksKeeps DEF q
  <2>5. CASE Asks(u, Request("supersede", "share", r, None, 0, None, None))
    <3> DEFINE q == Request("supersede", "share", r, None, 0, None, None)
    <3>8. q \in Requests
      BY <1>2, <2>1, <2>5, EmptyContent DEF Request, Requests, Sights
    <3>9. Begins(q) BY <1>2, <2>1, <2>5 DEF Request, Begins, Names
    <3> HIDE DEF q
    <3> QED BY <1>2, <2>1, <2>5, <3>8, <3>9, AsksKeeps DEF q
  <2>6. CASE Asks(u, Request("restore", "layout", r, None, 0, None, None))
    <3> DEFINE q == Request("restore", "layout", r, None, 0, None, None)
    <3>8. q \in Requests
      BY <1>2, <2>1, <2>6, EmptyContent DEF Request, Requests, Sights
    <3>9. Begins(q) BY <1>2, <2>1, <2>6 DEF Request, Begins, Names
    <3> HIDE DEF q
    <3> QED BY <1>2, <2>1, <2>6, <3>8, <3>9, AsksKeeps DEF q
  <2> QED BY <2>1, <2>2, <2>3, <2>4, <2>5, <2>6
<1> QED BY <1>3, <1>4, <1>5, <1>6 DEF Ask

-----------------------------------------------------------------------------
(* The reports u may change, and those whose parts it may.                 *)
Mine(u, r) ==
    \/ r \in locks[u].hold
    \/ r \in locks[u].share /\ IsReport(r) /\ ~ reports[r].sent

(* A commit changes what its request has taken, inserts under ids nothing  *)
(* had, and leaves no part without its report.                             *)
WritesWhatItTook(u) ==
    /\ reports' \in [Reports -> ReportRows \cup {Unborn, Gone}]
    /\ parts' \in [Parts -> PartRows \cup {Unborn, Gone}]
    /\ \A r \in Reports : reports'[r] # reports[r] =>
          \/ /\ r \in locks[u].hold
             /\ \/ /\ reports'[r] = Gone
                   /\ \A p \in Parts : ~ (IsPart(p)' /\ parts'[p].of = r)
                \/ /\ reports'[r] \in ReportRows
                   /\ reports'[r].supersedes \in {None, reports[r].supersedes}
          \/ /\ reports[r] = Unborn
             /\ reports'[r] \in ReportRows /\ ~ reports'[r].sent
             /\ reports'[r].supersedes \in locks[u].succeeds
             /\ reports'[r].supersedes \in locks[u].share
    /\ \A p \in Parts : parts'[p] # parts[p] =>
          /\ \/ /\ p \in locks[u].rows /\ IsPart(p) /\ Mine(u, parts[p].of)
                /\ \/ parts'[p] = Gone
                   \/ parts'[p] \in PartRows /\ parts'[p].version = parts[p].version + 1
             \/ parts[p] = Unborn /\ parts'[p] \in PartRows
          /\ parts'[p] \in PartRows =>
                /\ IsReport(parts[p].of)'
                /\ Mine(u, parts'[p].of) \/ reports[parts'[p].of] = Unborn

(* What another has taken, and the parts of a report that is not u's, stay.*)
LEMMA TakenStays ==
  ASSUME IInv, NEW u \in Analysts, NEW v \in Analysts, u # v, WritesWhatItTook(u)
  PROVE  /\ \A r \in locks[v].hold \cup locks[v].share :
               /\ r \in Reports /\ IsReport(r) /\ r \notin locks[u].hold
               /\ reports'[r] = reports[r]
         /\ \A p \in locks[v].rows :
               p \in Parts /\ p \notin locks[u].rows /\ (IsPart(p) => parts'[p] = parts[p])
<1>1. /\ locks[v].hold \subseteq Reports /\ locks[v].share \subseteq Reports
      /\ locks[v].rows \subseteq Parts
  BY DEF IInv, ReqTypes, Locks
<1>2. \A r \in locks[v].hold \cup locks[v].share : IsReport(r) /\ r \notin locks[u].hold
  BY DEF IInv, RequestOK, TookReports, Apart
<1>3. \A p \in locks[v].rows : p \notin locks[u].rows BY DEF IInv, Apart
<1>4. ASSUME NEW r \in locks[v].hold \cup locks[v].share PROVE reports'[r] = reports[r]
  BY <1>1, <1>2 DEF WritesWhatItTook, IsReport
<1>5. ASSUME NEW p \in locks[v].rows, IsPart(p) PROVE parts'[p] = parts[p]
  BY <1>1, <1>3, <1>5 DEF WritesWhatItTook, IsPart
<1> QED BY <1>1, <1>2, <1>3, <1>4, <1>5

LEMMA HeldStays ==
  ASSUME IInv, NEW u \in Analysts, WritesWhatItTook(u), NEW r \in Reports, IsReport(r),
         ~ Mine(u, r)
  PROVE  /\ Held(r)' = Held(r)
         /\ \A p \in Parts : (IsPart(p)' /\ parts'[p].of = r) <=> p \in PartsOf(r)
         /\ \A p \in PartsOf(r) : parts'[p] = parts[p]
<1>1. ASSUME NEW p \in PartsOf(r) PROVE p \in Parts /\ parts'[p] = parts[p]
  BY <1>1 DEF WritesWhatItTook, PartsOf, IsPart
<1>2. ASSUME NEW p \in Parts, IsPart(p)', parts'[p].of = r PROVE p \in PartsOf(r)
  <2>1. CASE parts'[p] = parts[p] BY <1>2, <2>1 DEF PartsOf, IsPart
  <2>2. CASE parts'[p] # parts[p]
    <3>1. parts'[p] \in PartRows BY <1>2 DEF WritesWhatItTook, IsPart
    <3> QED BY <1>2, <2>2, <3>1 DEF WritesWhatItTook, IsReport
  <2> QED BY <2>1, <2>2
<1>3. \A p \in Parts : (IsPart(p)' /\ parts'[p].of = r) <=> p \in PartsOf(r)
  BY <1>1, <1>2 DEF PartsOf, IsPart
<1>4. PartsOf(r)' = PartsOf(r) BY <1>3 DEF PartsOf
<1>5. Held(r)' = [p \in PartsOf(r) |-> parts'[p]] BY <1>4 DEF Held
<1>6. [p \in PartsOf(r) |-> parts'[p]] = [p \in PartsOf(r) |-> parts[p]] BY <1>1
<1> QED BY <1>1, <1>3, <1>5, <1>6 DEF Held

LEMMA SinceReadStays ==
  ASSUME IInv, NEW u \in Analysts, WritesWhatItTook(u), NEW p \in Parts, NEW kept \in PartRows,
         SinceRead(p, kept)
  PROVE  SinceRead(p, kept)'
<1>1. CASE parts[p] = Gone
  BY <1>1, AbsentAssumption DEF WritesWhatItTook, SinceRead, IsPart
<1>2. CASE IsPart(p) /\ parts'[p] = parts[p] BY <1>2 DEF SinceRead, IsPart
<1>3. CASE IsPart(p) /\ parts'[p] # parts[p]
  <2>1. parts[p] \in PartRows BY <1>3 DEF IInv, DataOK, IsPart
  <2>2. CASE parts'[p] = Gone BY <2>2 DEF SinceRead
  <2>3. CASE parts'[p] \in PartRows /\ parts'[p].version = parts[p].version + 1
    <3>1. IsPart(p)' BY <2>3, AbsentAssumption DEF IsPart
    <3>2. parts[p].version >= kept.version /\ parts[p].version \in Nat /\ kept.version \in Nat
      BY <1>3, <2>1 DEF SinceRead, IsPart, PartRows
    <3>3. parts'[p].version >= kept.version /\ parts'[p].version # kept.version BY <2>3, <3>2
    <3> QED BY <3>1, <3>3 DEF SinceRead
  <2> QED BY <1>3, <2>2, <2>3 DEF WritesWhatItTook, IsPart
<1> QED BY <1>1, <1>2, <1>3 DEF SinceRead

LEMMA OthersThrough ==
  ASSUME IInv, NEW u \in Analysts, NEW v \in Analysts, u # v, WritesWhatItTook(u),
         req'[v] = req[v], locks'[v] = locks[v]
  PROVE  RequestOK(v)'
<1> DEFINE r == req[v].report
<1>1. RequestOK(v) BY DEF IInv
<1>2. /\ \A x \in locks[v].hold \cup locks[v].share :
               /\ x \in Reports /\ IsReport(x) /\ x \notin locks[u].hold
               /\ reports'[x] = reports[x]
      /\ \A p \in locks[v].rows :
               p \in Parts /\ p \notin locks[u].rows /\ (IsPart(p) => parts'[p] = parts[p])
  BY TakenStays
<1>3. \A x \in locks[v].hold : x \notin locks[u].hold /\ x \notin locks[u].share
  BY DEF IInv, Apart
<1>4. InOrder(req[v])' /\ Names(req[v])' BY <1>1 DEF RequestOK, InOrder, Names
<1>5. TookReports(v)' BY <1>1, <1>2 DEF RequestOK, TookReports, IsReport
<1>6. ASSUME req[v].op = "delete", req[v].at = "commit"
      PROVE  /\ \A s \in Reports : (IsReport(s)' /\ reports'[s].supersedes = r) => s \in locks[v].hold
             /\ \A p \in Parts : (IsPart(p)' /\ parts'[p].of = r) => p \in locks[v].rows
  <2>1. /\ r \in Reports /\ r \in locks[v].hold
        /\ \A s \in Successors(r) : s \in locks[v].hold
        /\ \A p \in PartsOf(r) : p \in locks[v].rows
    BY <1>1, <1>6 DEF RequestOK, HasTaken, Names
  <2>2. r # None BY <2>1, AbsentAssumption
  <2>3. ASSUME NEW s \in Reports, IsReport(s)', reports'[s].supersedes = r
        PROVE  s \in locks[v].hold
    <3>1. CASE reports'[s] = reports[s] BY <2>1, <2>3, <3>1 DEF Successors, IsReport
    <3>2. CASE reports'[s] # reports[s] /\ s \in locks[u].hold
      <4>1. IsReport(s) BY <3>2 DEF IInv, RequestOK, TookReports
      <4>2. reports[s].supersedes = r
        BY <2>2, <2>3, <3>2, <4>1 DEF WritesWhatItTook, IsReport
      <4> QED BY <2>1, <4>1, <4>2 DEF Successors
    <3>3. CASE reports'[s] # reports[s] /\ s \notin locks[u].hold
      BY <1>3, <2>1, <2>3, <3>3 DEF WritesWhatItTook
    <3> QED BY <3>1, <3>2, <3>3
  <2>4. ~ Mine(u, r) BY <1>3, <2>1 DEF Mine
  <2>5. \A p \in Parts : (IsPart(p)' /\ parts'[p].of = r) => p \in locks[v].rows
    BY <1>2, <2>1, <2>4, HeldStays
  <2> QED BY <2>3, <2>5
<1>7. ASSUME req[v].op = "supersede", req[v].at = "commit"
      PROVE  \A s \in Reports : ~ (IsReport(s)' /\ reports'[s].supersedes = r)
  <2>1. /\ r \in Reports /\ r \in locks[v].succeeds
        /\ \A s \in Reports : ~ (IsReport(s) /\ reports[s].supersedes = r)
    BY <1>1, <1>7 DEF RequestOK, HasTaken, Names
  <2>2. r # None /\ r \notin locks[u].succeeds BY <2>1, AbsentAssumption DEF IInv, Apart
  <2>3. ASSUME NEW s \in Reports, IsReport(s)', reports'[s].supersedes = r PROVE FALSE
    <3>1. CASE reports'[s] = reports[s] BY <2>1, <2>3, <3>1 DEF IsReport
    <3>2. CASE reports'[s] # reports[s] /\ s \in locks[u].hold
      <4>1. IsReport(s) BY <3>2 DEF IInv, RequestOK, TookReports
      <4> QED BY <2>1, <2>2, <2>3, <3>2, <4>1 DEF WritesWhatItTook, IsReport
    <3>3. CASE reports'[s] # reports[s] /\ s \notin locks[u].hold
      BY <2>2, <2>3, <3>3 DEF WritesWhatItTook
    <3> QED BY <3>1, <3>2, <3>3
  <2> QED BY <2>3
<1>8. HasTaken(v)'
  <2>1. req[v].op \in {"edit", "remove"} /\ req[v].at # "row" => parts'[req[v].part] = parts[req[v].part]
    BY <1>1, <1>2 DEF RequestOK, HasTaken
  <2> QED BY <1>1, <1>6, <1>7, <2>1
      DEF RequestOK, HasTaken, Successors, PartsOf, IsReport, IsPart
<1>9. ASSUME req[v].op = "send", req[v].at \in {"hold", "compare"}
      PROVE  \A p \in DOMAIN req[v].read : SinceRead(p, req[v].read[p])'
  <2>0. req[v].read \in Contents BY DEF IInv, ReqTypes, Requests
  <2>1. PICK S \in SUBSET Parts : req[v].read \in [S -> PartRows] BY <2>0 DEF Contents
  <2>2. ASSUME NEW p \in DOMAIN req[v].read PROVE SinceRead(p, req[v].read[p])'
    <3>1. PICK kept \in PartRows : kept = req[v].read[p] BY <2>1
    <3>2. p \in Parts /\ SinceRead(p, kept) BY <1>1, <1>9, <2>1, <3>1 DEF RequestOK, HasRead
    <3>3. SinceRead(p, kept)' BY <3>2, SinceReadStays
    <3> QED BY <3>1, <3>3 DEF SinceRead, IsPart
  <2> QED BY <2>2
<1>10. ASSUME req[v].op \in {"send", "restore"}, req[v].at = "commit"
       PROVE  req'[v].read = Held(req[v].report)'
  <2>1. PICK x \in Reports : x = r /\ x \in locks[v].hold
    BY <1>1, <1>10 DEF RequestOK, HasTaken, Names
  <2>2. IsReport(x) /\ ~ Mine(u, x) BY <1>2, <1>3, <2>1 DEF Mine
  <2>3. Held(x)' = Held(x) BY <2>2, HeldStays
  <2>4. req'[v].read = Held(x) BY <1>1, <1>10, <2>1 DEF RequestOK, HasRead
  <2>5. req'[v].report = x BY <2>1
  <2> QED BY <2>3, <2>4, <2>5 DEF Held, PartsOf, IsPart
<1>11. ASSUME req[v].op = "restore", req[v].at \in {"compare", "commit"}
       PROVE  reports'[r] = reports[r]
  BY <1>1, <1>2, <1>11 DEF RequestOK, HasTaken
<1>12. HasRead(v)'
  BY <1>1, <1>9, <1>10, <1>11 DEF RequestOK, HasRead
<1> QED BY <1>4, <1>5, <1>8, <1>12 DEF RequestOK

LEMMA CommitKeepsAll ==
  ASSUME IInv, NEW u \in Analysts, WritesWhatItTook(u), Ends(u), OneSuccessor',
         \A r \in Reports : document'[r] = None \/ IsContent(document'[r]),
         document' \in [Reports -> Contents \cup {None}]
  PROVE  IInv'
<1>1. /\ ReqTypes' /\ Apart' /\ RequestOK(u)'
      /\ \A v \in Analysts : v # u => req'[v] = req[v] /\ locks'[v] = locks[v]
  BY EndsRest DEF IInv
<1>2. \A v \in Analysts : v # u => RequestOK(v)' BY <1>1, OthersThrough
<1>3. DataOK' BY DEF DataOK, WritesWhatItTook
<1>4. PartsHaveTheirReport'
  <2> SUFFICES ASSUME NEW p \in Parts, IsPart(p)' PROVE IsReport(parts[p].of)'
    BY DEF PartsHaveTheirReport
  <2>1. CASE parts'[p] # parts[p] BY <2>1 DEF WritesWhatItTook, IsPart
  <2>2. CASE parts'[p] = parts[p]
    <3>1. PICK r \in Reports : r = parts[p].of /\ IsReport(r)
      BY <2>2 DEF IInv, DataOK, PartsHaveTheirReport, IsPart, PartRows
    <3>2. CASE reports'[r] = reports[r] BY <2>2, <3>1, <3>2 DEF IsReport
    <3>3. CASE reports'[r] # reports[r]
      <4>1. parts'[p].of = r BY <2>2, <3>1
      <4>2. reports'[r] \in ReportRows BY <3>1, <3>3, <4>1 DEF WritesWhatItTook, IsReport
        <4> QED BY <4>1, <4>2, AbsentAssumption DEF IsReport
    <3> QED BY <3>2, <3>3
  <2> QED BY <2>1, <2>2
<1> QED BY <1>1, <1>2, <1>3, <1>4 DEF IInv

-----------------------------------------------------------------------------
(* What each commit writes.                                                *)
LEMMA InsertedFacts ==
  ASSUME DataOK, NEW r \in Reports, NEW S \in SUBSET UnbornParts, NEW new \in [S -> Sections],
         Inserted(r, new)
  PROVE  /\ parts' \in [Parts -> PartRows \cup {Unborn, Gone}]
         /\ \A p \in Parts : p \notin S => parts'[p] = parts[p]
         /\ \A p \in S : /\ p \in Parts /\ parts[p] = Unborn /\ parts'[p] \in PartRows
                        /\ parts'[p].of = r /\ parts'[p].section = new[p]
<1>1. DOMAIN new = S OBVIOUS
<1>2. ASSUME NEW p \in S
      PROVE  /\ p \in Parts /\ parts[p] = Unborn /\ parts'[p] \in PartRows
             /\ parts'[p].of = r /\ parts'[p].section = new[p]
  <2>1. p \in Parts /\ parts[p] = Unborn BY DEF UnbornParts
  <2>2. parts'[p] = [of |-> r, section |-> new[p], version |-> 1]
    BY <1>1, <2>1 DEF Inserted
  <2>3. [of |-> r, section |-> new[p], version |-> 1] \in PartRows
    BY DEF PartRows
  <2> QED BY <2>1, <2>2, <2>3
<1>3. ASSUME NEW p \in Parts, p \notin S PROVE parts'[p] = parts[p]
  BY <1>1, <1>3 DEF Inserted
<1>4. parts' = [p \in Parts |-> parts'[p]] BY DEF Inserted
<1>5. \A p \in Parts : parts'[p] \in PartRows \cup {Unborn, Gone}
  BY <1>2, <1>3 DEF DataOK
<1> HIDE DEF Inserted
<1>6. parts' \in [Parts -> PartRows \cup {Unborn, Gone}] BY <1>4, <1>5
<1> QED BY <1>2, <1>3, <1>6

(* Writes of parts alone.                                                  *)
LEMMA PartsOnly ==
  ASSUME IInv, NEW u \in Analysts, UNCHANGED <<reports, document>>,
         parts' \in [Parts -> PartRows \cup {Unborn, Gone}],
         \A p \in Parts : parts'[p] # parts[p] =>
          /\ \/ /\ p \in locks[u].rows /\ IsPart(p) /\ Mine(u, parts[p].of)
                /\ \/ parts'[p] = Gone
                   \/ parts'[p] \in PartRows /\ parts'[p].version = parts[p].version + 1
             \/ parts[p] = Unborn /\ parts'[p] \in PartRows
          /\ parts'[p] \in PartRows =>
                IsReport(parts'[p].of) /\ Mine(u, parts'[p].of)
  PROVE  WritesWhatItTook(u) /\ OneSuccessor'
<1>1. reports \in [Reports -> ReportRows \cup {Unborn, Gone}] BY DEF IInv, DataOK
<1>2. WritesWhatItTook(u) BY <1>1 DEF WritesWhatItTook, IsReport
<1>3. OneSuccessor' BY DEF IInv, OneSuccessor, IsReport
<1> QED BY <1>2, <1>3

LEMMA CommitPartWrites ==
  ASSUME IInv, NEW u \in Analysts, req[u].at = "commit", CommitPart(u)
  PROVE  WritesWhatItTook(u) /\ OneSuccessor'
<1> DEFINE q == req[u]
<1>0. RequestOK(u) BY DEF IInv
<1>1. CASE q.op = "edit" /\ parts' = [parts EXCEPT ![q.part] =
                    [of |-> q.to, section |-> q.section, version |-> q.version + 1]]
  <2> DEFINE kept == [of |-> q.to, section |-> q.section, version |-> q.version + 1]
  <2>1. /\ q.part \in Parts /\ q.to \in Reports /\ q.section \in Sections
        /\ q.part \in locks[u].rows /\ IsPart(q.part) /\ parts[q.part].version = q.version
        /\ parts[q.part].of \in locks[u].share /\ q.to \in locks[u].share
    BY <1>0, <1>1 DEF RequestOK, Names, HasTaken
  <2>2. /\ Mine(u, parts[q.part].of) /\ Mine(u, q.to) /\ IsReport(q.to)
    BY <1>0, <1>1, <2>1 DEF RequestOK, TookReports, Mine
  <2>3. parts[q.part].version \in Nat BY <2>1 DEF IInv, DataOK, IsPart, PartRows
  <2>4. kept \in PartRows /\ kept.of = q.to /\ kept.version = parts[q.part].version + 1
    BY <2>1, <2>3 DEF PartRows
  <2>5. parts' \in [Parts -> PartRows \cup {Unborn, Gone}]
    BY <1>1, <2>1, <2>4 DEF IInv, DataOK
  <2>6. /\ parts'[q.part] = kept
        /\ \A p \in Parts : p # q.part => parts'[p] = parts[p]
    BY <1>1, <2>1 DEF IInv, DataOK
  <2> HIDE DEF kept
  <2> QED BY <2>1, <2>2, <2>4, <2>5, <2>6, PartsOnly DEF CommitPart
<1>2. CASE q.op = "remove" /\ parts' = [parts EXCEPT ![q.part] = Gone]
  <2>1. /\ q.part \in Parts /\ q.part \in locks[u].rows /\ IsPart(q.part)
        /\ parts[q.part].of \in locks[u].share
    BY <1>0, <1>2 DEF RequestOK, Names, HasTaken
  <2>2. Mine(u, parts[q.part].of)
    BY <1>0, <1>2, <2>1 DEF RequestOK, TookReports, Mine
  <2>3. /\ parts' \in [Parts -> PartRows \cup {Unborn, Gone}]
        /\ parts'[q.part] = Gone /\ Gone \notin PartRows
        /\ \A p \in Parts : p # q.part => parts'[p] = parts[p]
    BY <1>2, <2>1, AbsentAssumption DEF IInv, DataOK
  <2> QED BY <2>1, <2>2, <2>3, PartsOnly DEF CommitPart
<1>3. CASE q.op = "add" /\ \E p \in UnbornParts : Inserted(q.to, [x \in {p} |-> q.section])
  <2>1. q.to \in Reports /\ q.section \in Sections /\ q.to \in locks[u].share
    BY <1>0, <1>3 DEF RequestOK, Names, HasTaken
  <2>2. Mine(u, q.to) /\ IsReport(q.to)
    BY <1>0, <1>3, <2>1 DEF RequestOK, TookReports, Mine
  <2>3. PICK p \in UnbornParts : Inserted(q.to, [x \in {p} |-> q.section]) BY <1>3
  <2> DEFINE new == [x \in {p} |-> q.section]
  <2>4. new \in [{p} -> Sections] BY <2>1
  <2> HIDE DEF new
  <2>5. /\ parts' \in [Parts -> PartRows \cup {Unborn, Gone}]
        /\ \A x \in Parts : x # p => parts'[x] = parts[x]
        /\ parts[p] = Unborn /\ parts'[p] \in PartRows /\ parts'[p].of = q.to
    BY <2>1, <2>3, <2>4, InsertedFacts DEF IInv, new
  <2> QED BY <2>2, <2>5, PartsOnly DEF CommitPart
<1> QED BY <1>1, <1>2, <1>3 DEF CommitPart

(* A restore adds exactly what was missing from the report it holds.       *)
LEMMA CommitRestoreWrites ==
  ASSUME IInv, NEW u \in Analysts, req[u].at = "commit", CommitRestore(u)
  PROVE  /\ WritesWhatItTook(u) /\ OneSuccessor'
         /\ \E S \in SUBSET UnbornParts : \E new \in [S -> Missing(req[u])] :
              /\ \A x \in Missing(req[u]) : \E p \in S : new[p] = x
              /\ \A p, o \in S : new[p] = new[o] => p = o
              /\ \A p \in Parts : p \notin S => parts'[p] = parts[p]
              /\ \A p \in S : /\ p \in Parts /\ parts[p] = Unborn /\ parts'[p] \in PartRows
                             /\ parts'[p].of = req[u].report /\ parts'[p].section = new[p]
<1> DEFINE q == req[u]
<1>1. /\ q.report \in Reports /\ q.report \in locks[u].hold /\ q.seen \in Layouts
      /\ IsReport(q.report)
  BY DEF IInv, RequestOK, HasTaken, Names, CommitRestore, TookReports
<1>2. Mine(u, q.report) BY <1>1 DEF Mine
<1>3. Missing(q) \subseteq Sections BY <1>1, RequiredAssumption DEF Missing
<1>0. PICK S \in SUBSET UnbornParts : \E new \in [S -> Missing(q)] :
              /\ \A x \in Missing(q) : \E p \in S : new[p] = x
              /\ \A p, o \in S : new[p] = new[o] => p = o
              /\ Inserted(q.report, new)
  BY DEF CommitRestore
<1>4. PICK new \in [S -> Missing(q)] :
              /\ \A x \in Missing(q) : \E p \in S : new[p] = x
              /\ \A p, o \in S : new[p] = new[o] => p = o
              /\ Inserted(q.report, new)
  BY <1>0
<1>5. new \in [S -> Sections] BY <1>3
<1>6. /\ parts' \in [Parts -> PartRows \cup {Unborn, Gone}]
      /\ \A p \in Parts : p \notin S => parts'[p] = parts[p]
      /\ \A p \in S : /\ p \in Parts /\ parts[p] = Unborn /\ parts'[p] \in PartRows
                     /\ parts'[p].of = q.report /\ parts'[p].section = new[p]
  BY <1>1, <1>4, <1>5, InsertedFacts DEF IInv
<1>7. WritesWhatItTook(u) /\ OneSuccessor'
  BY <1>1, <1>2, <1>6, PartsOnly DEF CommitRestore
<1> QED BY <1>4, <1>6, <1>7

LEMMA CommitReportWrites ==
  ASSUME IInv, NEW u \in Analysts, req[u].at = "commit", CommitReport(u)
  PROVE  /\ WritesWhatItTook(u) /\ OneSuccessor'
         /\ req[u].report \in Reports /\ req[u].report \in locks[u].hold
         /\ reports'[req[u].report] \in ReportRows
         /\ reports'[req[u].report].supersedes = reports[req[u].report].supersedes
         /\ reports'[req[u].report].sent = (req[u].op = "send")
         /\ \A r \in Reports : r # req[u].report => reports'[r] = reports[r]
<1> DEFINE q == req[u]
           r == q.report
           kept == reports[r]
<1>1. /\ r \in Reports /\ r \in locks[u].hold /\ IsReport(r) /\ ~ kept.sent
      /\ q.op = "label" => q.to \in Layouts
      /\ q.op \in {"label", "send"}
  BY DEF IInv, RequestOK, HasTaken, Names, CommitReport, TookReports
<1>2. kept \in ReportRows BY <1>1 DEF IInv, DataOK, IsReport
<1>3. \E new \in ReportRows :
         /\ reports' = [reports EXCEPT ![r] = new]
         /\ new.supersedes = kept.supersedes /\ new.sent = (q.op = "send")
  <2>1. CASE /\ q.op = "label"
             /\ reports' = [reports EXCEPT ![r] =
                   IF IsReport(r) THEN [kept EXCEPT !.version = @ + 1, !.template = q.to] ELSE @]
    <3> DEFINE mid == [kept EXCEPT !.version = kept.version + 1]
               new == [mid EXCEPT !.template = q.to]
    <3>1. /\ mid \in ReportRows /\ mid.supersedes = kept.supersedes /\ mid.sent = kept.sent
      BY <1>2 DEF ReportRows
    <3>2. reports' = [reports EXCEPT ![r] = new] BY <1>1, <1>2, <2>1 DEF ReportRows
    <3> HIDE DEF mid
    <3>3. /\ new \in ReportRows /\ new.supersedes = mid.supersedes /\ new.sent = mid.sent
      BY <1>1, <2>1, <3>1 DEF ReportRows
    <3> HIDE DEF new
    <3>4. new.sent = FALSE BY <1>1, <1>2, <3>1, <3>3 DEF ReportRows
    <3> QED BY <2>1, <3>1, <3>2, <3>3, <3>4
  <2>2. CASE /\ q.op = "send"
             /\ reports' = [reports EXCEPT ![r] =
                   IF IsReport(r) THEN [kept EXCEPT !.version = @ + 1, !.sent = TRUE] ELSE @]
    <3> DEFINE mid == [kept EXCEPT !.version = kept.version + 1]
               new == [mid EXCEPT !.sent = TRUE]
    <3>1. mid \in ReportRows /\ mid.supersedes = kept.supersedes BY <1>2 DEF ReportRows
    <3>2. reports' = [reports EXCEPT ![r] = new] BY <1>1, <1>2, <2>2 DEF ReportRows
    <3> HIDE DEF mid
    <3>3. /\ new \in ReportRows /\ new.supersedes = mid.supersedes /\ new.sent = TRUE
      BY <3>1 DEF ReportRows
    <3> HIDE DEF new
    <3> QED BY <2>2, <3>1, <3>2, <3>3
  <2> QED BY <2>1, <2>2 DEF CommitReport
<1>4. PICK new \in ReportRows :
         /\ reports' = [reports EXCEPT ![r] = new]
         /\ new.supersedes = kept.supersedes /\ new.sent = (q.op = "send")
  BY <1>3
<1>5. /\ reports' \in [Reports -> ReportRows \cup {Unborn, Gone}] /\ reports'[r] = new
      /\ \A x \in Reports : x # r => reports'[x] = reports[x]
  BY <1>1, <1>4 DEF IInv, DataOK
<1>6. parts' = parts BY DEF CommitReport
<1>7. WritesWhatItTook(u)
  <2>1. parts \in [Parts -> PartRows \cup {Unborn, Gone}] BY DEF IInv, DataOK
  <2> QED BY <1>1, <1>4, <1>5, <1>6, <2>1 DEF WritesWhatItTook
<1>8. OneSuccessor'
  <2>1. \A x \in Reports : IsReport(x)' => IsReport(x) /\ reports'[x].supersedes = reports[x].supersedes
    BY <1>1, <1>4, <1>5 DEF IsReport
  <2> QED BY <2>1 DEF IInv, OneSuccessor
<1> QED BY <1>1, <1>4, <1>5, <1>7, <1>8

LEMMA CommitDeleteWrites ==
  ASSUME IInv, NEW u \in Analysts, req[u].at = "commit", CommitDelete(u)
  PROVE  /\ WritesWhatItTook(u) /\ OneSuccessor'
         /\ \A s \in Reports : IsReport(s)' => IsReport(s) /\ reports'[s].sent = reports[s].sent
<1> DEFINE r == req[u].report
<1>1. /\ r \in Reports /\ r \in locks[u].hold /\ IsReport(r)
      /\ \A s \in Successors(r) : s \in locks[u].hold
      /\ \A p \in PartsOf(r) : p \in locks[u].rows
  BY DEF IInv, RequestOK, HasTaken, Names, CommitDelete, TookReports
<1>2. ASSUME NEW s \in Reports, s # r, s \in Successors(r)
      PROVE  /\ IsReport(s) /\ reports'[s] \in ReportRows /\ reports'[s].supersedes = None
             /\ reports'[s].sent = reports[s].sent
  <2>1. reports'[s] = [reports[s] EXCEPT !.supersedes = None] BY <1>2 DEF CommitDelete
  <2>2. IsReport(s) /\ reports[s] \in ReportRows
    BY <1>2 DEF Successors, IsReport, IInv, DataOK
  <2> QED BY <2>1, <2>2 DEF ReportRows
<1>3. reports'[r] = Gone BY <1>1 DEF CommitDelete
<1>4. ASSUME NEW s \in Reports, s # r, s \notin Successors(r) PROVE reports'[s] = reports[s]
  BY <1>4 DEF CommitDelete
<1>5. reports' = [s \in Reports |-> reports'[s]] BY DEF CommitDelete
<1>6. /\ \A p \in Parts : p \in PartsOf(r) => parts'[p] = Gone
      /\ \A p \in Parts : p \notin PartsOf(r) => parts'[p] = parts[p]
      /\ parts' = [p \in Parts |-> parts'[p]]
  BY DEF CommitDelete
<1>7. /\ \A s \in Reports : reports[s] \in ReportRows \cup {Unborn, Gone}
      /\ \A p \in Parts : parts[p] \in PartRows \cup {Unborn, Gone}
  BY DEF IInv, DataOK
<1>8. \A s \in Reports : reports'[s] \in ReportRows \cup {Unborn, Gone}
  BY <1>2, <1>3, <1>4, <1>7
<1>9. reports' \in [Reports -> ReportRows \cup {Unborn, Gone}] BY <1>5, <1>8
<1>10. parts' \in [Parts -> PartRows \cup {Unborn, Gone}] BY <1>6, <1>7
<1>11. \A p \in Parts : ~ (IsPart(p)' /\ parts'[p].of = r)
  BY <1>6 DEF PartsOf, IsPart
<1>12. \A p \in PartsOf(r) : p \in Parts /\ IsPart(p) /\ parts[p].of = r BY DEF PartsOf
<1>13. WritesWhatItTook(u)
  <2>1. \A x \in Reports : reports'[x] # reports[x] =>
          \/ /\ x \in locks[u].hold
             /\ \/ /\ reports'[x] = Gone
                   /\ \A p \in Parts : ~ (IsPart(p)' /\ parts'[p].of = x)
                \/ /\ reports'[x] \in ReportRows
                   /\ reports'[x].supersedes \in {None, reports[x].supersedes}
          \/ /\ reports[x] = Unborn
             /\ reports'[x] \in ReportRows /\ ~ reports'[x].sent
             /\ reports'[x].supersedes \in locks[u].succeeds
             /\ reports'[x].supersedes \in locks[u].share
    BY <1>1, <1>2, <1>3, <1>4, <1>11
  <2>2. \A p \in Parts : parts'[p] # parts[p] =>
          /\ p \in locks[u].rows /\ IsPart(p) /\ Mine(u, parts[p].of) /\ parts'[p] = Gone
          /\ parts'[p] \notin PartRows
    BY <1>1, <1>6, <1>12, AbsentAssumption DEF Mine
  <2> QED BY <1>9, <1>10, <2>1, <2>2 DEF WritesWhatItTook
<1>14. \A s \in Reports : IsReport(s)' => IsReport(s) /\ reports'[s].sent = reports[s].sent
  BY <1>2, <1>3, <1>4 DEF IsReport
<1>15. \A s \in Reports : IsReport(s)' =>
          reports'[s].supersedes = None \/ reports'[s].supersedes = reports[s].supersedes
  BY <1>2, <1>3, <1>4 DEF IsReport
<1>16. OneSuccessor' BY <1>14, <1>15 DEF IInv, OneSuccessor
<1> QED BY <1>13, <1>14, <1>16

LEMMA CommitSuccessorWrites ==
  ASSUME IInv, NEW u \in Analysts, req[u].at = "commit", CommitSuccessor(u)
  PROVE  /\ WritesWhatItTook(u) /\ OneSuccessor'
         /\ \A s \in Reports : IsReport(s)' /\ reports'[s].sent
               => IsReport(s) /\ reports[s].sent
<1> DEFINE q == req[u]
           r == q.report
<1>1. /\ r \in Reports /\ r \in locks[u].share /\ r \in locks[u].succeeds /\ IsReport(r)
      /\ \A s \in Reports : ~ (IsReport(s) /\ reports[s].supersedes = r)
  BY DEF IInv, RequestOK, HasTaken, Names, CommitSuccessor, TookReports
<1>0. PICK s \in {s \in Reports : reports[s] = Unborn}, S \in SUBSET UnbornParts :
         \E source \in [S -> DOMAIN q.read] :
         /\ \A p \in DOMAIN q.read : \E c \in S : source[c] = p
         /\ \A c, d \in S : source[c] = source[d] => c = d
         /\ reports' = [reports EXCEPT ![s] =
               [version |-> 1, template |-> reports[q.report].template,
                sent |-> FALSE, supersedes |-> q.report]]
         /\ Inserted(s, [c \in S |-> q.read[source[c]].section])
  BY Zenon DEF CommitSuccessor
<1>2. PICK source \in [S -> DOMAIN q.read] :
         /\ reports' = [reports EXCEPT ![s] =
               [version |-> 1, template |-> reports[q.report].template,
                sent |-> FALSE, supersedes |-> q.report]]
         /\ Inserted(s, [c \in S |-> q.read[source[c]].section])
  BY <1>0, Zenon
<1>02. s \in Reports /\ reports[s] = Unborn OBVIOUS
<1> DEFINE new == [c \in S |-> q.read[source[c]].section]
           kept == [version |-> 1, template |-> reports[q.report].template,
                   sent |-> FALSE, supersedes |-> q.report]
<1>3. q.read \in Contents BY DEF IInv, ReqTypes, Requests
<1>4. PICK T \in SUBSET Parts : q.read \in [T -> PartRows] BY <1>3 DEF Contents
<1>5. \A p \in DOMAIN q.read : q.read[p].section \in Sections BY <1>4 DEF PartRows
<1>6. new \in [S -> Sections] BY <1>5
<1>7. reports[r].template \in Layouts BY <1>1 DEF IInv, DataOK, IsReport, ReportRows
<1>8. kept \in ReportRows /\ kept.sent = FALSE /\ kept.supersedes = r BY <1>1, <1>7 DEF ReportRows
<1>9. reports' = [reports EXCEPT ![s] = kept] BY <1>2
<1>10. Inserted(s, new) BY <1>2
<1> HIDE DEF new, kept
<1>11. /\ reports' \in [Reports -> ReportRows \cup {Unborn, Gone}] /\ reports'[s] = kept
       /\ \A x \in Reports : x # s => reports'[x] = reports[x]
  BY <1>8, <1>9 DEF IInv, DataOK
<1>12. /\ parts' \in [Parts -> PartRows \cup {Unborn, Gone}]
       /\ \A p \in Parts : p \notin S => parts'[p] = parts[p]
       /\ \A p \in S : /\ p \in Parts /\ parts[p] = Unborn /\ parts'[p] \in PartRows
                      /\ parts'[p].of = s
  BY <1>6, <1>10, InsertedFacts DEF IInv
<1>13. IsReport(s)' BY <1>8, <1>11, AbsentAssumption DEF IsReport
<1>14. WritesWhatItTook(u)
  <2>1. \A p \in Parts : parts'[p] # parts[p] =>
          /\ parts[p] = Unborn /\ parts'[p] \in PartRows /\ parts'[p].of = s
          /\ IsReport(parts[p].of)'
    BY <1>12, <1>13 DEF IsReport
  <2>2. \A x \in Reports : reports'[x] # reports[x] =>
             /\ reports[x] = Unborn
             /\ reports'[x] \in ReportRows /\ ~ reports'[x].sent
             /\ reports'[x].supersedes \in locks[u].succeeds
             /\ reports'[x].supersedes \in locks[u].share
    BY <1>1, <1>02, <1>8, <1>11
  <2> QED BY <1>02, <1>11, <1>12, <2>1, <2>2 DEF WritesWhatItTook
<1>15. \A x \in Reports : x # s /\ IsReport(x)' =>
          IsReport(x) /\ reports'[x] = reports[x] /\ reports'[x].supersedes # r
  BY <1>1, <1>11 DEF IsReport
<1>16. OneSuccessor' BY <1>8, <1>11, <1>15 DEF IInv, OneSuccessor
<1> QED BY <1>8, <1>11, <1>14, <1>15, <1>16

LEMMA ContentIs == \A c : IsContent(c) <=> c \in Contents
BY DEF IsContent, Contents

LEMMA CommitKeeps ==
  ASSUME IInv, NEW u \in Analysts, Commit(u)
  PROVE  IInv' /\ WritesWhatItTook(u)
<1>1. req[u].at = "commit" /\ Ends(u) BY DEF Commit, At
<1>2. WritesWhatItTook(u) /\ OneSuccessor'
  BY <1>1, CommitPartWrites, CommitReportWrites, CommitDeleteWrites, CommitSuccessorWrites,
     CommitRestoreWrites DEF Commit
<1>3. document' = document \/ \E r \in Reports : document' = [document EXCEPT ![r] = req[u].read]
  BY <1>1, CommitReportWrites
     DEF Commit, CommitPart, CommitReport, CommitDelete, CommitSuccessor, CommitRestore
<1>4. req[u].read \in Contents BY DEF IInv, ReqTypes, Requests
<1>5. document' \in [Reports -> Contents \cup {None}] BY <1>3, <1>4 DEF IInv, DataOK
<1>6. \A r \in Reports : document'[r] = None \/ IsContent(document'[r]) BY <1>5, ContentIs
<1> QED BY <1>1, <1>2, <1>5, <1>6, CommitKeepsAll

LEMMA StepKeepsIInv ==
  ASSUME IInv, NEW u \in Analysts, Step(u)
  PROVE  IInv'
<1>1. CASE TakeRow(u) \/ LeaveReport(u) \/ JoinReport(u)
  BY <1>1, TakeRowKeeps, LeaveReportKeeps, JoinReportKeeps
<1>2. CASE CheckUnsent(u) \/ DrawReport(u) \/ DrawParts(u)
  BY <1>2, CheckUnsentKeeps, DrawReportKeeps, DrawPartsKeeps
<1>3. CASE CannotDraw(u) \/ OutOfIds(u) \/ Aborted(u)
  BY <1>3, RefusedKeeps DEF CannotDraw, OutOfIds, Aborted
<1>4. CASE ReadLayout(u) \/ HoldReport(u) \/ Compare(u) \/ Cascade(u)
  BY <1>4, ReadLayoutKeeps, HoldReportKeeps, CompareKeeps, CascadeKeeps
<1>5. CASE ShareReport(u) \/ InsertSuccessor(u)
  BY <1>5, ShareReportKeeps, InsertSuccessorKeeps
<1>6. CASE Commit(u) BY <1>6, CommitKeeps
<1> QED BY <1>1, <1>2, <1>3, <1>4, <1>5, <1>6 DEF Step

LEMMA InitKeeps == Init => IInv
<1> SUFFICES ASSUME Init PROVE IInv OBVIOUS
<1>1. ASSUME NEW r \in Reports
      PROVE  /\ reports[r] \in ReportRows \cup {Unborn, Gone}
             /\ IsReport(r) <=> r \in DOMAIN FirstReports
             /\ IsReport(r) => reports[r].supersedes = None
  <2>1. CASE r \in DOMAIN FirstReports
    <3>1. reports[r] = [version |-> 1, template |-> FirstReports[r], sent |-> FALSE,
                        supersedes |-> None] BY <2>1 DEF Init
    <3>2. reports[r] \in ReportRows BY <2>1, <3>1, FirstAssumption DEF ReportRows
    <3>3. reports[r].supersedes = None BY <3>1
    <3>4. IsReport(r) BY <3>2, AbsentAssumption DEF IsReport
    <3> QED BY <2>1, <3>2, <3>3, <3>4
  <2>2. CASE r \notin DOMAIN FirstReports BY <2>2 DEF Init, IsReport
  <2> QED BY <2>1, <2>2
<1>2. ASSUME NEW p \in Parts
      PROVE  /\ parts[p] \in PartRows \cup {Unborn, Gone}
             /\ IsPart(p) => parts[p].of \in DOMAIN FirstReports
  <2>1. CASE p \in DOMAIN FirstParts
    <3>1. FirstParts[p] \in [of : DOMAIN FirstReports, section : Sections]
      BY <2>1, FirstAssumption
    <3>2. parts[p] = [of |-> FirstParts[p].of, version |-> 1, section |-> FirstParts[p].section]
      BY <2>1 DEF Init
    <3>3. parts[p] \in PartRows BY <3>1, <3>2, FirstAssumption DEF PartRows
    <3> QED BY <3>1, <3>2, <3>3
  <2>2. CASE p \notin DOMAIN FirstParts BY <2>2 DEF Init, IsPart
  <2> QED BY <2>1, <2>2
<1>3. reports \in [Reports -> ReportRows \cup {Unborn, Gone}]
  <2>1. reports = [r \in Reports |-> reports[r]] BY DEF Init
  <2> QED BY <1>1, <2>1
<1>4. parts \in [Parts -> PartRows \cup {Unborn, Gone}]
  <2>1. parts = [p \in Parts |-> parts[p]] BY DEF Init
  <2> QED BY <1>2, <2>1
<1>5. DataOK BY <1>3, <1>4 DEF DataOK, Init
<1>6. PartsHaveTheirReport BY <1>1, <1>2, FirstAssumption DEF PartsHaveTheirReport
<1>7. OneSuccessor BY <1>1 DEF OneSuccessor
<1>8. ReqTypes BY IdleFacts, BoundsAssumption DEF ReqTypes, Init
<1>9. \A u \in Analysts : req[u] = Idle /\ locks[u] = Nothing BY DEF Init
<1>10. Apart BY <1>9, IdleFacts DEF Apart
<1>11. \A u \in Analysts : RequestOK(u)
  BY <1>9, IdleFacts DEF RequestOK, InOrder, Names, TookReports, HasTaken, HasRead
<1> QED BY <1>5, <1>6, <1>7, <1>8, <1>10, <1>11 DEF IInv

LEMMA StutterKeeps == IInv /\ UNCHANGED vars => IInv'
<1> SUFFICES ASSUME IInv, UNCHANGED vars PROVE IInv' OBVIOUS
<1>1. DataOK' /\ PartsHaveTheirReport' /\ OneSuccessor' BY DataStays DEF IInv, vars
<1>2. ReqTypes' /\ Apart' BY DEF IInv, ReqTypes, Apart, vars
<1>3. ASSUME NEW v \in Analysts PROVE RequestOK(v)'
  <2>1. req'[v] = req[v] /\ locks'[v] = locks[v] BY DEF vars
  <2> QED BY <2>1, OthersStay DEF IInv, vars
<1> QED BY <1>1, <1>2, <1>3 DEF IInv

LEMMA TheInvariant == Spec => []IInv
<1>1. IInv /\ [Next]_vars => IInv'
  BY AskKeeps, StepKeepsIInv, StutterKeeps DEF Next
<1> QED BY <1>1, InitKeeps, PTL DEF Spec

(* What is stored is well formed, and no section is an orphan, however     *)
(* many write, remove, send and supersede at once (store-guards.ts,        *)
(* report.ts).                                                             *)
THEOREM PartsAreKept == Spec => []PartsKept
<1>1. IInv => PartsKept
  <2> SUFFICES ASSUME IInv PROVE TypeOK BY DEF IInv, PartsKept
  <2>1. \A u \in Analysts : locks[u] \in Locks /\ IsContent(req[u].read)
    BY ContentIs DEF IInv, ReqTypes, Requests
  <2> QED BY <2>1 DEF IInv, DataOK, ReqTypes, RequestOK, HasTaken, TypeOK, Locks
<1> QED BY <1>1, TheInvariant, PTL

-----------------------------------------------------------------------------
(* The steps at which a request holds anything of each kind.               *)
HoldsOnly(u) ==
    /\ locks[u].hold # {} => req[u].at \in {"compare", "cascade", "commit"}
    /\ locks[u].share # {} => req[u].at \in {"join", "insert", "commit"}
    /\ locks[u].rows # {} => req[u].at \in {"leave", "join", "commit"}
    /\ locks[u].succeeds # {} => req[u].at = "commit"

OnlyThere == \A u \in Analysts : HoldsOnly(u)

(* Nobody but u has moved.                                                 *)
OthersAreThere(u) ==
    \A v \in Analysts : v # u => req'[v] = req[v] /\ locks'[v] = locks[v]

LEMMA MineIsThere ==
  ASSUME OnlyThere, NEW u \in Analysts, OthersAreThere(u), HoldsOnly(u)'
  PROVE  OnlyThere'
BY DEF OnlyThere, OthersAreThere, HoldsOnly

LEMMA RefusedIsThere ==
  ASSUME IInv, OnlyThere, NEW u \in Analysts, Ends(u)
  PROVE  OnlyThere'
<1>1. locks'[u] = Nothing /\ OthersAreThere(u)
  BY EndsRest, Zenon DEF Ends, IInv, ReqTypes, OthersAreThere
<1>2. HoldsOnly(u)' BY <1>1, IdleFacts DEF HoldsOnly
<1> QED BY <1>1, <1>2, MineIsThere

(* Before its first lock a request has taken nothing.                      *)
LEMMA FirstIsThere ==
  ASSUME IInv, OnlyThere, NEW u \in Analysts, UNCHANGED locks, locks[u] = Nothing,
         \A v \in Analysts : v # u => req'[v] = req[v]
  PROVE  OnlyThere'
<1>1. HoldsOnly(u)' BY IdleFacts DEF HoldsOnly
<1> QED BY <1>1, MineIsThere DEF OthersAreThere

LEMMA AskIsThere ==
  ASSUME IInv, OnlyThere, NEW u \in Analysts, Ask(u)
  PROVE  OnlyThere'
<1>1. ASSUME NEW q, Asks(u, q) PROVE OnlyThere'
  <2>1. locks[u] = Nothing BY <1>1, IdleFacts DEF Asks, IInv, RequestOK, HasTaken
  <2>2. \A v \in Analysts : v # u => req'[v] = req[v]
    BY <1>1 DEF Asks, IInv, ReqTypes
  <2> QED BY <1>1, <2>1, <2>2, FirstIsThere DEF Asks
<1> QED BY <1>1, Zenon DEF Ask, AskEdit, AskRemove, AskAdd, AskOfReport

LEMMA GoesIsThere ==
  ASSUME IInv, OnlyThere, NEW u \in Analysts, NEW a \in Ats, Goes(u, a),
         NEW S, NEW H, NEW R, NEW C, Took(u, S, H, R, C),
         locks[u].hold \cup H # {} => a \in {"compare", "cascade", "commit"},
         locks[u].share \cup S # {} => a \in {"join", "insert", "commit"},
         locks[u].rows \cup R # {} => a \in {"leave", "join", "commit"},
         locks[u].succeeds \cup C # {} => a = "commit"
  PROVE  OnlyThere'
<1>1. PICK new \in Requests : Moves(u, new) /\ new.at = a
  BY GoesMoves DEF IInv, ReqTypes
<1>2. HoldsOnly(u)' BY <1>1 DEF HoldsOnly, Moves, Took
<1>3. OthersAreThere(u) BY <1>1 DEF OthersAreThere, Moves, Took
<1> QED BY <1>2, <1>3, MineIsThere

LEMMA StepIsThere ==
  ASSUME IInv, OnlyThere, NEW u \in Analysts, Step(u)
  PROVE  OnlyThere'
<1> USE DEF Ats
<1>0. /\ req \in [Analysts -> Requests] /\ locks \in [Analysts -> Locks] /\ HoldsOnly(u)
      /\ InOrder(req[u]) /\ Names(req[u])
      /\ req[u].at \in {"idle", "row", "check", "report", "parts", "layout"}
            => locks[u] = Nothing
  BY DEF IInv, ReqTypes, OnlyThere, RequestOK, HasTaken
<1>1. CASE Ends(u) BY <1>1, RefusedIsThere
<1>2. CASE TakeRow(u) /\ ~Ends(u)
  <2>1. /\ req[u].at = "row" /\ Takes(u, "rows", {req[u].part}) /\ Goes(u, "leave")
        /\ locks[u] = Nothing /\ req[u].part \in Parts
    BY <1>0, <1>2 DEF TakeRow, Refused, At, InOrder, Names
  <2>2. Took(u, {}, {}, {req[u].part}, {}) BY <1>0, <2>1, TakesMore
  <2> QED BY <2>1, <2>2, IdleFacts, GoesIsThere
<1>3. CASE LeaveReport(u) /\ ~Ends(u)
  <2> DEFINE from == parts[req[u].part].of
  <2>1. /\ req[u].at = "leave" /\ Takes(u, "share", {from})
        /\ Goes(u, "join") \/ Goes(u, "commit")
    BY <1>3 DEF LeaveReport, Refused, At
  <2>2. from \in Reports
    BY <1>0, <2>1 DEF IInv, RequestOK, HasTaken, InOrder, DataOK, PartRows, IsPart, Names
  <2>3. Took(u, {from}, {}, {}, {}) BY <1>0, <2>1, <2>2, TakesMore
  <2>4. locks[u].hold = {} /\ locks[u].succeeds = {} BY <1>0, <2>1 DEF HoldsOnly
  <2> HIDE DEF from
  <2> QED BY <2>1, <2>3, <2>4, GoesIsThere
<1>4. CASE JoinReport(u) /\ ~Ends(u)
  <2>1. /\ req[u].at = "join" /\ Takes(u, "share", {req[u].to}) /\ Goes(u, "commit")
        /\ req[u].to \in Reports
    BY <1>0, <1>4 DEF JoinReport, Refused, At, InOrder, Names
  <2>2. Took(u, {req[u].to}, {}, {}, {}) BY <1>0, <2>1, TakesMore
  <2> QED BY <2>1, <2>2, GoesIsThere
<1>5. CASE /\ CheckUnsent(u) \/ DrawReport(u) \/ DrawParts(u) \/ ReadLayout(u)
           /\ ~Ends(u)
  <2>1. req[u].at \in {"check", "report", "parts", "layout"} /\ UNCHANGED locks
    BY <1>5 DEF CheckUnsent, DrawReport, DrawParts, ReadLayout, Refused, At
  <2>2. \A v \in Analysts : v # u => req'[v] = req[v]
    BY <1>0, <1>5 DEF CheckUnsent, DrawReport, DrawParts, ReadLayout, Refused, Goes
  <2> QED BY <1>0, <2>1, <2>2, FirstIsThere
<1>6. CASE HoldReport(u) /\ ~Ends(u)
  <2>1. /\ req[u].at = "hold" /\ Takes(u, "hold", {req[u].report})
        /\ Goes(u, AfterHold(req[u].op)) /\ req[u].report \in Reports
    BY <1>0, <1>6 DEF HoldReport, Refused, At, InOrder, Names
  <2>2. Took(u, {}, {req[u].report}, {}, {}) BY <1>0, <2>1, TakesMore
  <2>3. AfterHold(req[u].op) \in {"compare", "cascade", "commit"} BY DEF AfterHold
  <2>4. locks[u].share = {} /\ locks[u].rows = {} /\ locks[u].succeeds = {}
    BY <1>0, <2>1 DEF HoldsOnly
  <2> QED BY <2>1, <2>2, <2>3, <2>4, GoesIsThere
<1>7. CASE (Compare(u) \/ Cascade(u)) /\ ~Ends(u)
  <2>1. req'[u].at = "commit" /\ \A v \in Analysts : v # u => req'[v] = req[v]
    BY <1>0, <1>7 DEF Compare, Cascade, Refused, Goes, Requests
  <2>2. \A v \in Analysts : v # u => locks'[v] = locks[v]
    BY <1>0, <1>7 DEF Compare, Cascade, Refused
  <2> QED BY <2>1, <2>2, MineIsThere DEF HoldsOnly, OthersAreThere
<1>8. CASE ShareReport(u) /\ ~Ends(u)
  <2>1. /\ req[u].at = "share" /\ Takes(u, "share", {req[u].report})
        /\ req' = [req EXCEPT ![u].at = "insert", ![u].read = Held(req[u].report)]
        /\ req[u].report \in Reports
    BY <1>0, <1>8 DEF ShareReport, Refused, At, InOrder, Names
  <2>2. Took(u, {req[u].report}, {}, {}, {}) BY <1>0, <2>1, TakesMore
  <2>3. req'[u].at = "insert" /\ \A v \in Analysts : v # u => req'[v] = req[v]
    BY <1>0, <2>1 DEF Requests
  <2>4. locks[u].hold = {} /\ locks[u].rows = {} /\ locks[u].succeeds = {}
    BY <1>0, <2>1 DEF HoldsOnly
  <2>5. HoldsOnly(u)' BY <2>2, <2>3, <2>4 DEF HoldsOnly, Took
  <2> QED BY <2>2, <2>3, <2>5, MineIsThere DEF OthersAreThere, Took
<1>9. CASE InsertSuccessor(u) /\ ~Ends(u)
  <2>1. /\ Takes(u, "succeeds", {req[u].report}) /\ Goes(u, "commit")
        /\ req[u].report \in Reports
    BY <1>0, <1>9 DEF InsertSuccessor, Refused, At, InOrder, Names
  <2>2. Took(u, {}, {}, {}, {req[u].report}) BY <1>0, <2>1, TakesMore
  <2> QED BY <2>1, <2>2, GoesIsThere
<1>10. CASE CannotDraw(u) \/ Commit(u) \/ OutOfIds(u) \/ Aborted(u)
  BY <1>1, <1>10 DEF CannotDraw, Commit, OutOfIds, Aborted, Refused
<1> QED BY <1>1, <1>2, <1>3, <1>4, <1>5, <1>6, <1>7, <1>8, <1>9, <1>10 DEF Step

LEMMA AlwaysOnlyThere == Spec => []OnlyThere
<1>1. Init => OnlyThere BY IdleFacts DEF Init, OnlyThere, HoldsOnly
<1>2. IInv /\ OnlyThere /\ [Next]_vars => OnlyThere'
  <2> SUFFICES ASSUME IInv, OnlyThere, [Next]_vars PROVE OnlyThere' OBVIOUS
  <2>1. CASE UNCHANGED vars BY <2>1 DEF vars, OnlyThere, HoldsOnly
  <2> QED BY <2>1, AskIsThere, StepIsThere DEF Next
<1> QED BY <1>1, <1>2, TheInvariant, PTL DEF Spec

(* What whoever waits waits for: a request that has taken it.              *)
LEMMA WaitsForAHolder ==
  ASSUME IInv, OnlyThere, NEW v \in Analysts, NEW w \in WaitsFor(v), req[v].op # "delete"
  PROVE  /\ w \in Analysts
         /\ req[v].at \in {"leave", "join", "share"}
               => req[w].at \in {"compare", "cascade", "commit"}
         /\ req[v].at = "insert" => req[w].at = "commit"
         /\ req[v].at = "row" => req[w].at \in {"leave", "join", "commit"}
         /\ req[v].at = "hold"
               => req[w].at \in {"compare", "cascade", "commit", "join", "insert"}
         /\ req[v].at \in {"row", "leave", "join", "share", "hold", "insert"}
<1>1. req[v].at # "cascade" BY DEF IInv, RequestOK, InOrder
<1>2. w \in Analysts /\ HoldsOnly(w) BY DEF WaitsFor, OnlyThere
<1> QED BY <1>1, <1>2 DEF WaitsFor, HoldsOnly

(* Whatever the analysts and what they ask: transactions over reports wait *)
(* in a ring only if one of them removes a report (store-guards.ts,        *)
(* lifecycle.service.ts).                                                  *)
THEOREM OnlyDeletesDeadlock == Spec => []DeadlocksNeedADelete
<1>1. IInv /\ OnlyThere => DeadlocksNeedADelete
  <2> SUFFICES ASSUME IInv, OnlyThere, NEW S \in SUBSET Analysts, S # {}, Ring(S),
                      \A u \in S : req[u].op # "delete"
               PROVE  FALSE
    BY DEF DeadlocksNeedADelete
  <2>1. PICK next \in [S -> S] : \A v \in S : next[v] \in WaitsFor(v) BY DEF Ring
  <2>2. \A v \in S : /\ next[v] \in S
                     /\ req[v].at \in {"row", "leave", "join", "share", "hold", "insert"}
    BY <2>1, WaitsForAHolder
  <2>3. \A v \in S : req[v].at \notin {"leave", "join", "share", "insert"}
    BY <2>1, <2>2, WaitsForAHolder
  <2>4. \A v \in S : req[v].at \notin {"row", "hold"}
    BY <2>1, <2>2, <2>3, WaitsForAHolder
  <2> QED BY <2>2, <2>3, <2>4
<1> QED BY <1>1, TheInvariant, AlwaysOnlyThere, PTL

-----------------------------------------------------------------------------
(* FiledReports: its state, before and after a step.                       *)
StageIs(r) ==
    /\ Stage(r) = "unborn" <=> reports[r] = Unborn
    /\ Stage(r) = "gone" <=> reports[r] = Gone
    /\ Stage(r) = "sent" <=> IsReport(r) /\ reports[r].sent
    /\ Stage(r) = "draft" <=> IsReport(r) /\ ~ reports[r].sent
    /\ Stage(r) \in {"unborn", "gone", "sent", "draft"}

LEMMA StagesAre == \A r : StageIs(r)
BY AbsentAssumption DEF StageIs, Stage, IsReport

LEMMA StagesAreNext == \A r : StageIs(r)'
BY AbsentAssumption DEF StageIs, Stage, IsReport

Corrects(r) == IF IsReport(r) THEN reports[r].supersedes ELSE None

LEMMA FiledVars ==
  ASSUME UNCHANGED <<reports, document, parts>>
  PROVE  UNCHANGED Filed!vars
BY DEF Filed!vars, Held, PartsOf, IsPart, IsReport, Stage

(* Every commit but a send changes drafts.                                 *)
LEMMA DraftsChange ==
  ASSUME IInv, NEW u \in Analysts, WritesWhatItTook(u), OneSuccessor', document' = document,
         \A s \in Reports : IsReport(s)' /\ reports'[s].sent => IsReport(s) /\ reports[s].sent
  PROVE  Filed!Draft
<1>1. ASSUME NEW r \in Reports, IsReport(r), reports[r].sent
      PROVE  reports'[r] = reports[r] /\ Held(r)' = Held(r)
  <2>1. r \notin locks[u].hold /\ ~ Mine(u, r)
    BY <1>1 DEF IInv, RequestOK, TookReports, Mine
  <2>2. reports'[r] = reports[r] BY <1>1, <2>1 DEF WritesWhatItTook, IsReport
  <2> QED BY <1>1, <2>1, <2>2, HeldStays
<1>2. ASSUME NEW r \in Reports, IsReport(r), ~ reports[r].sent
      PROVE  /\ ~ (IsReport(r)' /\ reports'[r].sent) /\ reports'[r] # Unborn
             /\ Corrects(r)' \in {None, Corrects(r)}
  <2>1. CASE reports'[r] = reports[r] BY <1>2, <2>1 DEF IsReport, Corrects
  <2>2. CASE reports'[r] # reports[r]
    <3>1. \/ reports'[r] = Gone
          \/ /\ reports'[r] \in ReportRows
             /\ reports'[r].supersedes \in {None, reports[r].supersedes}
      BY <1>2, <2>2 DEF WritesWhatItTook, IsReport
    <3>2. reports'[r] # Unborn BY <3>1, AbsentAssumption
    <3> QED BY <1>2, <3>1, <3>2 DEF IsReport, Corrects
  <2> QED BY <2>1, <2>2
<1>3. ASSUME NEW r \in Reports, reports[r] = Gone PROVE reports'[r] = Gone
  <2>1. r \notin locks[u].hold BY <1>3 DEF IInv, RequestOK, TookReports, IsReport
  <2> QED BY <1>3, <2>1, AbsentAssumption DEF WritesWhatItTook
<1>4. ASSUME NEW r \in Reports, reports[r] = Unborn
      PROVE  reports'[r] # Gone /\ ~ (IsReport(r)' /\ reports'[r].sent)
  <2>1. r \notin locks[u].hold BY <1>4 DEF IInv, RequestOK, TookReports, IsReport
  <2> QED BY <1>4, <2>1, AbsentAssumption DEF WritesWhatItTook, IsReport
<1>5. \A r, s \in Reports : Corrects(r)' = Corrects(s)' /\ Corrects(r)' # None => r = s
  BY DEF OneSuccessor, Corrects, IsReport
<1> QED BY <1>1, <1>2, <1>3, <1>4, <1>5, StagesAre, StagesAreNext
    DEF Filed!Draft, Corrects, StageIs, IsReport

(* A send preserves what the report holds at that moment.                  *)
LEMMA SendFiles ==
  ASSUME IInv, NEW u \in Analysts, req[u].at = "commit", CommitReport(u), req[u].op = "send"
  PROVE  \E r \in Reports : Filed!Send(r)
<1>1. PICK r \in Reports : r = req[u].report
  BY CommitReportWrites
<1>2. /\ WritesWhatItTook(u) /\ r \in locks[u].hold
      /\ reports'[r] \in ReportRows /\ reports'[r].supersedes = reports[r].supersedes
      /\ reports'[r].sent = TRUE
      /\ \A x \in Reports : x # r => reports'[x] = reports[x]
  BY <1>1, CommitReportWrites
<1>3. IsReport(r) /\ ~ reports[r].sent /\ req[u].read = Held(r)
  BY <1>1, <1>2 DEF IInv, RequestOK, TookReports, HasRead
<1>4. document' = [document EXCEPT ![r] = Held(r)] BY <1>1, <1>3 DEF CommitReport
<1>5. IsReport(r)' BY <1>2, AbsentAssumption DEF IsReport
<1>6. parts' = parts BY DEF CommitReport
<1>7. \A x \in Reports : Held(x)' = Held(x) BY <1>6 DEF Held, PartsOf, IsPart
<1>8. \A x \in Reports : Corrects(x)' = Corrects(x) BY <1>2, <1>3, <1>5 DEF Corrects, IsReport
<1>9. /\ Stage(r) = "draft" /\ Stage(r)' = "sent"
      /\ \A x \in Reports : x # r => Stage(x)' = Stage(x)
  <2>1. Stage(r) = "draft" BY <1>3, StagesAre DEF StageIs
  <2>2. Stage(r)' = "sent" BY <1>2, <1>5, StagesAreNext DEF StageIs
  <2>3. ASSUME NEW x \in Reports, x # r PROVE Stage(x)' = Stage(x)
    <3>1. reports'[x] = reports[x] BY <1>2, <2>3
    <3> QED BY <3>1 DEF Stage
  <2> QED BY <2>1, <2>2, <2>3
<1> DEFINE stage == [x \in Reports |-> Stage(x)]
<1>10. stage' = [stage EXCEPT ![r] = "sent"] BY <1>9
<1>11. stage[r] = "draft" BY <1>9
<1>12. [x \in Reports |-> Held(x)]' = [x \in Reports |-> Held(x)] BY <1>7
<1>13. [x \in Reports |-> Corrects(x)]' = [x \in Reports |-> Corrects(x)] BY <1>8
<1>14. [x \in Reports |-> Held(x)][r] = Held(r) OBVIOUS
<1>15. Filed!Send(r)
  BY <1>4, <1>10, <1>11, <1>12, <1>13, <1>14 DEF Filed!Send, Corrects
<1> QED BY <1>15

LEMMA InitFiled == Init => Filed!Init
<1> SUFFICES ASSUME Init PROVE Filed!Init OBVIOUS
<1>1. ASSUME NEW r \in Reports
      PROVE  /\ Stage(r) \in {"unborn", "draft"} /\ Corrects(r) = None
  <2>1. CASE r \in DOMAIN FirstReports
    <3>1. reports[r] = [version |-> 1, template |-> FirstReports[r], sent |-> FALSE,
                        supersedes |-> None] BY <2>1 DEF Init
    <3>2. reports[r] \in ReportRows BY <2>1, <3>1, FirstAssumption DEF ReportRows
    <3>3. reports[r].supersedes = None /\ ~ reports[r].sent BY <3>1
    <3>4. IsReport(r) BY <3>2, AbsentAssumption DEF IsReport
    <3>5. Stage(r) = "draft" BY <3>3, <3>4, StagesAre DEF StageIs
    <3> QED BY <3>3, <3>4, <3>5 DEF Corrects
  <2>2. CASE r \notin DOMAIN FirstReports
    <3>1. reports[r] = Unborn BY <2>2 DEF Init
    <3>2. Stage(r) = "unborn" BY <3>1, StagesAre DEF StageIs
    <3> QED BY <3>1, <3>2 DEF Corrects, IsReport
  <2> QED BY <2>1, <2>2
<1>2. document = [r \in Reports |-> None] BY DEF Init
<1> QED BY <1>1, <1>2 DEF Filed!Init, Corrects

LEMMA StepFiles ==
  ASSUME IInv, NEW u \in Analysts, Ask(u) \/ Step(u)
  PROVE  Filed!Next \/ UNCHANGED Filed!vars
<1>1. CASE Commit(u)
  <2>1. req[u].at = "commit" BY <1>1 DEF Commit, At
  <2>2. CASE CommitReport(u) /\ req[u].op = "send"
    BY <2>1, <2>2, SendFiles DEF Filed!Next
  <2>3. CASE ~ (CommitReport(u) /\ req[u].op = "send")
    <3>1. WritesWhatItTook(u) /\ OneSuccessor' BY <1>1, CommitKeeps DEF IInv
    <3>2. document' = document
      BY <1>1, <2>3
         DEF Commit, CommitPart, CommitReport, CommitDelete, CommitSuccessor, CommitRestore
    <3>3. \A s \in Reports : IsReport(s)' /\ reports'[s].sent => IsReport(s) /\ reports[s].sent
      <4>1. CASE CommitPart(u) \/ CommitRestore(u)
        BY <4>1 DEF CommitPart, CommitRestore, IsReport
      <4>2. CASE CommitReport(u) BY <2>1, <2>3, <4>2, CommitReportWrites DEF IsReport
      <4>3. CASE CommitDelete(u) BY <2>1, <4>3, CommitDeleteWrites
      <4>4. CASE CommitSuccessor(u) BY <2>1, <4>4, CommitSuccessorWrites
      <4> QED BY <1>1, <4>1, <4>2, <4>3, <4>4 DEF Commit
    <3> QED BY <3>1, <3>2, <3>3, DraftsChange DEF Filed!Next
  <2> QED BY <2>2, <2>3
<1>2. CASE ~ Commit(u)
  <2>1. CASE Ask(u)
    <3>1. UNCHANGED <<reports, document, parts>>
      BY <2>1 DEF Ask, AskEdit, AskRemove, AskAdd, AskOfReport, Asks
    <3> QED BY <3>1, FiledVars
  <2>2. CASE Step(u)
    <3>1. UNCHANGED <<reports, document, parts>>
      BY <1>2, <2>2
         DEF Step, TakeRow, LeaveReport, JoinReport, CheckUnsent, DrawReport, DrawParts,
             CannotDraw, ReadLayout, HoldReport, Compare, Cascade, ShareReport,
             InsertSuccessor, OutOfIds, Aborted, Refused
    <3> QED BY <3>1, FiledVars
  <2> QED BY <2>1, <2>2
<1> QED BY <1>1, <1>2

(* What was sent is the report as it stood when it was stamped, and        *)
(* nothing changes it afterwards: the lifecycle implements FiledReports,   *)
(* whatever the case, the analysts and what they ask for                   *)
(* (lifecycle.service.ts, store-guards.ts).                                *)
THEOREM SentReportsAreFiled == Spec => SentIsFiled
<1>1. IInv /\ [Next]_vars => [Filed!Next]_Filed!vars
  <2>1. CASE UNCHANGED vars BY <2>1, FiledVars DEF vars
  <2>2. ASSUME IInv, NEW u \in Analysts, Ask(u) \/ Step(u)
        PROVE  Filed!Next \/ UNCHANGED Filed!vars BY <2>2, StepFiles
  <2> QED BY <2>1, <2>2 DEF Next
<1> QED BY <1>1, InitFiled, TheInvariant, PTL DEF Spec, SentIsFiled, Filed!Spec

(* A restore leaves each required section in the report, and none twice,   *)
(* whatever else is written at the same time (restoreSections).            *)
THEOREM RestoresAreOnce == Spec => RestoresOnce
<1> DEFINE Once(u) ==
        LET r == req[u].report
            has(x) == {p \in Parts : parts'[p] \notin {Unborn, Gone}
                            /\ parts'[p].of = r /\ parts'[p].section = x}
        IN  \A x \in RequiredBy[reports[r].template] :
              /\ has(x) # {}
              /\ \A p, o \in has(x) : parts[p] = Unborn => p = o
           Restores(u) ==
        req[u].op = "restore" /\ req'[u] # req[u] /\ parts' # parts /\ IsReport(req[u].report)
<1>1. ASSUME IInv, NEW u \in Analysts, Commit(u), req[u].op = "restore" PROVE Once(u)
  <2> DEFINE q == req[u]
             r == q.report
  <2>1. req[u].at = "commit" /\ CommitRestore(u)
    BY <1>1 DEF Commit, At, CommitPart, CommitReport, CommitDelete, CommitSuccessor
  <2>2. PICK S \in SUBSET UnbornParts : \E new \in [S -> Missing(q)] :
              /\ \A x \in Missing(q) : \E p \in S : new[p] = x
              /\ \A p, o \in S : new[p] = new[o] => p = o
              /\ \A p \in Parts : p \notin S => parts'[p] = parts[p]
              /\ \A p \in S : /\ p \in Parts /\ parts[p] = Unborn /\ parts'[p] \in PartRows
                             /\ parts'[p].of = r /\ parts'[p].section = new[p]
    BY <1>1, <2>1, CommitRestoreWrites
  <2>3. PICK new \in [S -> Missing(q)] :
              /\ \A x \in Missing(q) : \E p \in S : new[p] = x
              /\ \A p, o \in S : new[p] = new[o] => p = o
              /\ \A p \in Parts : p \notin S => parts'[p] = parts[p]
              /\ \A p \in S : /\ p \in Parts /\ parts[p] = Unborn /\ parts'[p] \in PartRows
                             /\ parts'[p].of = r /\ parts'[p].section = new[p]
    BY <2>2
  <2>4. q.seen = reports[r].template /\ q.read = Held(r)
    BY <1>1, <2>1 DEF IInv, RequestOK, HasRead
  <2>5. /\ DOMAIN q.read = PartsOf(r)
        /\ \A p \in PartsOf(r) : q.read[p] = parts[p] /\ p \in Parts /\ IsPart(p)
                              /\ parts[p].of = r
    BY <1>1, <2>4, HeldFacts DEF IInv
  <2>6. SUFFICES ASSUME NEW x \in RequiredBy[reports[r].template]
        PROVE  LET has == {p \in Parts : parts'[p] \notin {Unborn, Gone}
                              /\ parts'[p].of = r /\ parts'[p].section = x}
               IN  has # {} /\ \A p, o \in has : parts[p] = Unborn => p = o
    OBVIOUS
  <2> DEFINE has == {p \in Parts : parts'[p] \notin {Unborn, Gone}
                        /\ parts'[p].of = r /\ parts'[p].section = x}
  <2>7. CASE x \in Missing(q)
    <3>1. \A p \in has : p \in S
      <4> SUFFICES ASSUME NEW p \in has, p \notin S PROVE FALSE OBVIOUS
      <4>1. parts'[p] = parts[p] /\ p \in PartsOf(r) /\ parts[p].section = x
        BY <2>3 DEF PartsOf, IsPart
      <4> QED BY <2>5, <2>7, <4>1 DEF Missing
    <3>2. PICK p \in S : new[p] = x BY <2>3, <2>7
    <3>3. p \in has BY <2>3, <3>2, AbsentAssumption
    <3>4. \A p1, o \in has : p1 = o BY <2>3, <3>1
    <3> QED BY <3>3, <3>4
  <2>8. CASE x \notin Missing(q)
    <3>1. PICK p \in PartsOf(r) : parts[p].section = x BY <2>4, <2>5, <2>8 DEF Missing
    <3>2. p \in has BY <2>3, <2>5, <3>1 DEF IsPart, UnbornParts
    <3>3. \A p1 \in has : p1 \notin S BY <2>3, <2>8
    <3>4. \A p1 \in has : parts[p1] # Unborn BY <2>3, <3>3
    <3> QED BY <3>2, <3>4
  <2> QED BY <2>7, <2>8
<1>2. ASSUME IInv, NEW u \in Analysts, Restores(u), NEW v \in Analysts, Ask(v) \/ Step(v)
      PROVE  Once(u)
  <2>1. Commit(v)
    BY <1>2 DEF Ask, AskEdit, AskRemove, AskAdd, AskOfReport, Asks, Step, TakeRow,
             LeaveReport, JoinReport, CheckUnsent, DrawReport, DrawParts,
             CannotDraw, ReadLayout, HoldReport, Compare, Cascade, ShareReport,
             InsertSuccessor, OutOfIds, Aborted, Refused
  <2>2. v = u BY <1>2, <2>1 DEF Commit, Ends, IInv, ReqTypes
  <2> QED BY <1>1, <1>2, <2>1, <2>2
<1>3. IInv /\ [Next]_vars => [\A u \in Analysts : Restores(u) => Once(u)]_vars
  BY <1>2 DEF Next
<1> QED BY <1>3, TheInvariant, PTL DEF Spec, RestoresOnce

-----------------------------------------------------------------------------
Stores ==
    {NoStore} \cup [at : {"asked", "writing", "encoded"}, ids : SUBSET Words,
                    names : SUBSET Writers, local : SUBSET Writers, own : SUBSET Words,
                    words : SUBSET Words]

Acts == [who : Readers \cup {"timer"}, store : BOOLEAN]

DocFields ==
    [at : {"unbuilt", "building", "open", "gone"}, words : SUBSET Words, readers : Int,
     timer : BOOLEAN, dirty : BOOLEAN, sealed : BOOLEAN, deciding : BOOLEAN,
     writers : SUBSET Writers, accepted : SUBSET Writers, acceptances : SUBSET Words,
     saving : Seq(Acts), store : Stores, unsaved : {"no", "unsaved", "lost"},
     late : BOOLEAN]

(* What is being stored is at the head of the queue.                       *)
DocRows == {doc \in DocFields : doc.store.at # "none" => doc.saving # <<>>}

Everywhere == {"away", "building", "joining", "leaving", "flushed", "left"}

Typing == {"frame", "accepting", "accepted", "held"}

Sealing == {"sealing", "flushing", "deciding", "stamped", "refused"}

Places == Everywhere \cup {"in", "settled"} \cup Typing \cup Sealing

(* What TypeOK says of everything but the number of readers, and how the   *)
(* documents and the readers look.                                         *)
Shaped ==
    /\ row \in [words : SUBSET Words, sent : BOOLEAN]
    /\ accepts \subseteq [id : Words, writer : Writers]
    /\ live \in Docs \cup {Nil}
    /\ word \in [Readers -> Words \cup {Nil}]
    /\ mine \in [Readers -> Docs \cup {Nil}]
    /\ of \in [Readers -> Docs \cup {Nil}]
    /\ by \in [Words -> Writers \cup {Nil}]
    /\ fate \in [Words -> Fates]
    /\ bytes \in [Sends -> SUBSET Words]
    /\ named \subseteq Words
    /\ fails \in 0..MaxFails
    /\ docs \in [Docs -> DocRows]
    /\ at \in [Readers -> Places]
    /\ ousted \in BOOLEAN

(* Where a reader may be, and what it has there.                           *)
PlacesKept ==
    \A r \in Readers :
        /\ at[r] \in Everywhere \cup (IF r \in Conns THEN {"in"} \cup Typing
                                      ELSE Sealing \cup {"settled"})
        /\ at[r] \in Typing => word[r] \in Words
        /\ at[r] \in {"building", "joining", "accepting", "accepted", "held", "leaving",
                      "flushing", "flushed", "deciding", "stamped", "refused"}
              => of[r] \in Docs
        /\ r \in Sends /\ at[r] \in {"settled", "leaving"} => mine[r] = Nil
        /\ at[r] = "away" => of[r] = Nil

(* A reader the document in the map counts.                                *)
Counted(r) ==
    \/ at[r] \in {"in", "settled"} \cup Typing \cup Sealing
    \/ at[r] = "flushed" /\ r \in Sends /\ mine[r] # Nil

Crowd == {r \in Readers : Counted(r)}

OneLive ==
    /\ live # Nil => docs[live].at \in {"building", "open"}
    /\ \A d \in Docs : docs[d].at \in {"building", "open"} => d = live

CountedHold ==
    \A r \in Readers : Counted(r) =>
        /\ live # Nil /\ docs[live].at = "open"
        /\ of[r] \in {live, Nil}
        /\ at[r] # "settled" => mine[r] = live

WaitingWait ==
    \A r \in Readers : at[r] \in {"building", "joining"} =>
        live # Nil /\ of[r] = live /\ docs[live].at = "building"

ReadersCounted ==
    /\ \A d \in Docs : docs[d].readers \in 0..Cardinality(Readers)
    /\ \A d \in Docs : docs[d].at = "building" => docs[d].readers = 1
    /\ live # Nil /\ docs[live].at = "open" => docs[live].readers = Cardinality(Crowd)

QueueKept ==
    \A d \in Docs : \A i \in DOMAIN docs[d].saving :
        LET who == docs[d].saving[i].who
        IN  who \in Readers =>
              /\ at[who] \in {"leaving", "flushing"} /\ of[who] = d
              /\ \A j \in DOMAIN docs[d].saving : docs[d].saving[j].who = who => j = i

DocInv ==
    Shaped /\ PlacesKept /\ OneLive /\ CountedHold /\ WaitingWait /\ ReadersCounted /\ QueueKept

-----------------------------------------------------------------------------
LEMMA ReadersFinite ==
    /\ IsFiniteSet(Readers) /\ Cardinality(Readers) \in Nat
    /\ \A S \in SUBSET Readers :
          IsFiniteSet(S) /\ Cardinality(S) \in 0..Cardinality(Readers)
<1>1. IsFiniteSet(Readers)
  BY ProseAssumption, FS_Union DEF Readers
<1>2. Cardinality(Readers) \in Nat
  BY <1>1, FS_CardinalityType
<1>3. ASSUME NEW S \in SUBSET Readers
      PROVE  IsFiniteSet(S) /\ Cardinality(S) \in 0..Cardinality(Readers)
  BY <1>1, <1>2, FS_Subset, FS_CardinalityType
<1> QED BY <1>1, <1>2, <1>3

LEMMA DocsAreNumbers == Docs \subseteq Nat /\ Nil \notin Docs /\ 1 \in Docs
BY ProseAssumption DEF Docs

(* Whoever is counted, the documents stay as they were.                    *)
LEMMA SameReaders ==
    ASSUME OneLive, ReadersCounted, live' = live,
           \A d \in Docs : docs'[d].at = docs[d].at /\ docs'[d].readers = docs[d].readers,
           \A r \in Readers : Counted(r)' <=> Counted(r),
           live \in Docs \cup {Nil}
    PROVE  OneLive' /\ ReadersCounted'
<1>1. OneLive'
  BY DEF OneLive
<1>2. Crowd' = Crowd
  BY DEF Crowd
<1>3. ReadersCounted'
  BY <1>2 DEF ReadersCounted
<1> QED BY <1>1, <1>3

Kin == PlacesKept /\ OneLive /\ CountedHold /\ WaitingWait /\ ReadersCounted /\ QueueKept

(* A store at the head of the queue ends, and whoever waited for it goes   *)
(* on.                                                                     *)
LEMMA WakeKeeps ==
    ASSUME Shaped, Kin, NEW d \in Docs, NEW doc \in DocRows,
           docs[d].saving # <<>>, docs' = [docs EXCEPT ![d] = doc],
           doc.at = docs[d].at, doc.readers = docs[d].readers,
           doc.saving = Tail(docs[d].saving),
           Wakes(d), UNCHANGED <<live, mine, of, word>>
    PROVE  Kin' /\ at' \in [Readers -> Places] /\ docs' \in [Docs -> DocRows]
<1> DEFINE q == docs[d].saving
           who == Head(q).who
<1>0. docs[d] \in DocRows /\ q \in Seq(Acts) /\ q # <<>> /\ Len(q) \in Nat /\ Len(q) >= 1
  BY DEF Shaped, DocRows, DocFields
<1>1. Head(q) = q[1] /\ 1 \in DOMAIN q /\ DOMAIN q = 1..Len(q)
  BY <1>0
<1>2. /\ Tail(q) \in Seq(Acts) /\ DOMAIN Tail(q) = 1..(Len(q) - 1)
      /\ \A i \in 1..(Len(q) - 1) : Tail(q)[i] = q[i + 1]
  BY <1>0
<1>3. who \in Readers =>
         /\ at[who] \in {"leaving", "flushing"} /\ of[who] = d
         /\ \A j \in DOMAIN q : q[j].who = who => j = 1
  BY <1>1 DEF Kin, QueueKept
<1>4. at' = IF who \in Readers THEN [at EXCEPT ![who] = "flushed"] ELSE at
  BY DEF Wakes
<1>5. at' \in [Readers -> Places] /\ docs' \in [Docs -> DocRows]
  <2>1. at \in [Readers -> Places] /\ docs \in [Docs -> DocRows]
    BY DEF Shaped
  <2>2. at' \in [Readers -> Places]
    BY <2>1, <1>4 DEF Places, Everywhere
  <2>3. docs' \in [Docs -> DocRows]
    BY <2>1
  <2> QED BY <2>2, <2>3
<1>6. PlacesKept'
  <2> SUFFICES ASSUME NEW r \in Readers
      PROVE /\ at'[r] \in Everywhere \cup (IF r \in Conns THEN {"in"} \cup Typing
                                      ELSE Sealing \cup {"settled"})
            /\ at'[r] \in Typing => word[r] \in Words
            /\ at'[r] \in {"building", "joining", "accepting", "accepted", "held", "leaving",
                      "flushing", "flushed", "deciding", "stamped", "refused"}
                 => of[r] \in Docs
            /\ r \in Sends /\ at'[r] \in {"settled", "leaving"} => mine[r] = Nil
            /\ at'[r] = "away" => of[r] = Nil
    BY DEF PlacesKept
  <2>1. CASE r = who
    <3>1. at'[r] = "flushed" /\ of[r] = d
      BY <2>1, <1>3, <1>4 DEF Shaped
    <3> QED BY <3>1 DEF Everywhere, Typing
  <2>2. CASE r # who
    <3>1. at'[r] = at[r]
      BY <2>2, <1>4 DEF Shaped
    <3> QED BY <3>1 DEF Kin, PlacesKept
  <2> QED BY <2>1, <2>2
<1>7. ASSUME NEW r \in Readers PROVE Counted(r)' <=> Counted(r)
  <2>1. CASE r = who
    <3>1. at'[r] = "flushed" /\ at[r] \in {"leaving", "flushing"}
      BY <2>1, <1>3, <1>4 DEF Shaped
    <3>2. CASE at[r] = "leaving"
      BY <3>1, <3>2 DEF Kin, PlacesKept, Counted, Typing, Sealing
    <3>3. CASE at[r] = "flushing"
      <4>1. Counted(r)
        BY <3>3 DEF Counted, Sealing
      <4>2. mine[r] = live /\ live # Nil
        BY <4>1, <3>3 DEF Kin, CountedHold
      <4>3. r \in Sends
        BY <3>3 DEF Kin, PlacesKept, Everywhere, Typing, Readers
      <4> QED BY <3>1, <4>1, <4>2, <4>3 DEF Counted
    <3> QED BY <3>1, <3>2, <3>3
  <2>2. CASE r # who
    <3>1. at'[r] = at[r]
      BY <2>2, <1>4 DEF Shaped
    <3> QED BY <3>1 DEF Counted
  <2> QED BY <2>1, <2>2
<1>8. OneLive' /\ ReadersCounted'
  <2>1. \A x \in Docs : docs'[x].at = docs[x].at /\ docs'[x].readers = docs[x].readers
    BY DEF Shaped
  <2> QED BY <2>1, <1>7, SameReaders DEF Kin, Shaped
<1>9. CountedHold'
  <2> SUFFICES ASSUME NEW r \in Readers, Counted(r)'
      PROVE /\ live # Nil /\ docs'[live].at = "open"
            /\ of[r] \in {live, Nil}
            /\ at'[r] # "settled" => mine[r] = live
    BY DEF CountedHold
  <2>1. Counted(r)
    BY <1>7
  <2>2. live \in Docs /\ docs'[live].at = docs[live].at
    BY <2>1 DEF Shaped, Kin, CountedHold
  <2>3. at'[r] # "settled" => at[r] # "settled"
    BY <1>3, <1>4 DEF Shaped
  <2> QED BY <2>1, <2>2, <2>3 DEF Kin, CountedHold
<1>10. WaitingWait'
  <2> SUFFICES ASSUME NEW r \in Readers, at'[r] \in {"building", "joining"}
      PROVE live # Nil /\ of[r] = live /\ docs'[live].at = "building"
    BY DEF WaitingWait
  <2>1. at'[r] = at[r]
    BY <1>3, <1>4 DEF Shaped
  <2>2. live # Nil /\ of[r] = live /\ docs[live].at = "building"
    BY <2>1 DEF Kin, WaitingWait
  <2> QED BY <2>2 DEF Shaped
<1>11. QueueKept'
  <2> SUFFICES ASSUME NEW x \in Docs, NEW i \in DOMAIN docs'[x].saving,
                      docs'[x].saving[i].who \in Readers
      PROVE /\ at'[docs'[x].saving[i].who] \in {"leaving", "flushing"}
            /\ of[docs'[x].saving[i].who] = x
            /\ \A j \in DOMAIN docs'[x].saving :
                  docs'[x].saving[j].who = docs'[x].saving[i].who => j = i
    BY DEF QueueKept
  <2>1. CASE x = d
    <3>1. docs'[x].saving = Tail(q)
      BY <2>1 DEF Shaped
    <3>2. i \in 1..(Len(q) - 1) /\ docs'[x].saving[i] = q[i + 1] /\ i + 1 \in DOMAIN q
      <4>1. i \in 1..(Len(q) - 1)
        BY <3>1, <1>2
      <4>2. i + 1 \in DOMAIN q
        BY <4>1, <1>0, <1>1
      <4>3. docs'[x].saving[i] = q[i + 1]
        BY <4>1, <3>1, <1>2
      <4> QED BY <4>1, <4>2, <4>3
    <3>3. /\ at[q[i + 1].who] \in {"leaving", "flushing"} /\ of[q[i + 1].who] = d
          /\ \A j \in DOMAIN q : q[j].who = q[i + 1].who => j = i + 1
      BY <3>2 DEF Kin, QueueKept
    <3>4. q[i + 1].who # who
      BY <3>3, <3>2, <1>1, <1>0
    <3>5. at'[q[i + 1].who] = at[q[i + 1].who]
      BY <3>4, <3>2, <1>4 DEF Shaped
    <3>6. ASSUME NEW j \in DOMAIN Tail(q), Tail(q)[j].who = q[i + 1].who PROVE j = i
      <4>1. j \in 1..(Len(q) - 1) /\ q[j + 1].who = q[i + 1].who /\ j + 1 \in DOMAIN q
        BY <3>6, <1>2, <1>1, <1>0
      <4>2. j + 1 = i + 1
        BY <4>1, <3>3
      <4> QED BY <4>1, <4>2, <3>2
    <3> QED BY <2>1, <3>1, <3>2, <3>3, <3>5, <3>6
  <2>2. CASE x # d
    <3>1. docs'[x] = docs[x]
      BY <2>2 DEF Shaped
    <3>2. /\ at[docs[x].saving[i].who] \in {"leaving", "flushing"}
          /\ of[docs[x].saving[i].who] = x
          /\ \A j \in DOMAIN docs[x].saving :
                docs[x].saving[j].who = docs[x].saving[i].who => j = i
      BY <3>1 DEF Kin, QueueKept
    <3>3. docs[x].saving[i].who # who
      BY <3>1, <3>2, <1>3, <2>2
    <3> QED BY <3>1, <3>2, <3>3, <1>4 DEF Shaped
  <2> QED BY <2>1, <2>2
<1> QED BY <1>5, <1>6, <1>8, <1>9, <1>10, <1>11 DEF Kin

(* A document takes words, or what it has to store, and nobody moves.      *)
LEMMA StayKeeps ==
    ASSUME Shaped, Kin,
           \A d \in Docs : /\ docs'[d].at = docs[d].at /\ docs'[d].readers = docs[d].readers
                           /\ docs'[d].saving = docs[d].saving,
           UNCHANGED <<live, at, mine, of, word>>
    PROVE  Kin'
<1>1. PlacesKept'
  BY DEF Kin, PlacesKept
<1>2. ASSUME NEW r \in Readers PROVE Counted(r)' <=> Counted(r)
  BY DEF Counted
<1>3. OneLive' /\ ReadersCounted'
  BY <1>2, SameReaders DEF Kin, Shaped
<1>4. CountedHold'
  BY <1>2 DEF Kin, CountedHold, Shaped
<1>5. WaitingWait'
  BY DocsAreNumbers DEF Kin, WaitingWait, Shaped
<1>6. QueueKept'
  BY DEF Kin, QueueKept
<1> QED BY <1>1, <1>3, <1>4, <1>5, <1>6 DEF Kin

(* A reader that is counted goes on, and stays counted.                    *)
LEMMA MoveKeeps ==
    ASSUME Shaped, Kin,
           \A d \in Docs : /\ docs'[d].at = docs[d].at /\ docs'[d].readers = docs[d].readers
                           /\ docs'[d].saving = docs[d].saving,
           NEW r \in Readers, Counted(r), at[r] # "flushing",
           NEW p \in (IF r \in Conns THEN {"in"} \cup Typing
                      ELSE {"deciding", "stamped", "refused", "settled"}),
           live' = live, at' = [at EXCEPT ![r] = p],
           \A x \in Readers \ {r} : of'[x] = of[x] /\ mine'[x] = mine[x] /\ word'[x] = word[x],
           p \in Typing => word'[r] \in Words,
           of'[r] \in {live, Nil},
           p \in {"accepting", "accepted", "held", "deciding", "stamped", "refused"}
              => of'[r] = live,
           mine'[r] = IF p = "settled" THEN Nil ELSE live
    PROVE  Kin'
<1>0. /\ live \in Docs /\ live # Nil /\ docs[live].at = "open"
      /\ p \notin {"away", "building", "joining", "leaving", "flushing", "flushed", "left",
                   "sealing"}
      /\ at'[r] = p /\ \A x \in Readers \ {r} : at'[x] = at[x]
  BY DEF Shaped, Kin, CountedHold, Typing
<1>1. PlacesKept'
  <2> SUFFICES ASSUME NEW x \in Readers
      PROVE /\ at'[x] \in Everywhere \cup (IF x \in Conns THEN {"in"} \cup Typing
                                      ELSE Sealing \cup {"settled"})
            /\ at'[x] \in Typing => word'[x] \in Words
            /\ at'[x] \in {"building", "joining", "accepting", "accepted", "held", "leaving",
                      "flushing", "flushed", "deciding", "stamped", "refused"}
                 => of'[x] \in Docs
            /\ x \in Sends /\ at'[x] \in {"settled", "leaving"} => mine'[x] = Nil
            /\ at'[x] = "away" => of'[x] = Nil
    BY DEF PlacesKept
  <2>1. CASE x = r
    BY <1>0, <2>1 DEF Sealing
  <2>2. CASE x # r
    BY <1>0, <2>2 DEF Kin, PlacesKept
  <2> QED BY <2>1, <2>2
<1>2. ASSUME NEW x \in Readers PROVE Counted(x)' <=> Counted(x)
  <2>1. CASE x = r
    BY <1>0, <2>1 DEF Counted, Typing, Sealing
  <2>2. CASE x # r
    BY <1>0, <2>2 DEF Counted
  <2> QED BY <2>1, <2>2
<1>3. OneLive' /\ ReadersCounted'
  BY <1>2, SameReaders DEF Kin, Shaped
<1>4. CountedHold'
  <2> SUFFICES ASSUME NEW x \in Readers, Counted(x)'
      PROVE /\ live # Nil /\ docs'[live].at = "open"
            /\ of'[x] \in {live, Nil}
            /\ at'[x] # "settled" => mine'[x] = live
    BY DEF CountedHold
  <2>1. CASE x = r
    BY <1>0, <2>1
  <2>2. CASE x # r
    BY <1>0, <1>2, <2>2 DEF Kin, CountedHold
  <2> QED BY <2>1, <2>2
<1>5. WaitingWait'
  <2> SUFFICES ASSUME NEW x \in Readers, at'[x] \in {"building", "joining"}
      PROVE live # Nil /\ of'[x] = live /\ docs'[live].at = "building"
    BY DEF WaitingWait
  <2> QED BY <1>0 DEF Kin, WaitingWait
<1>6. QueueKept'
  <2> SUFFICES ASSUME NEW x \in Docs, NEW i \in DOMAIN docs'[x].saving,
                      docs'[x].saving[i].who \in Readers
      PROVE /\ at'[docs'[x].saving[i].who] \in {"leaving", "flushing"}
            /\ of'[docs'[x].saving[i].who] = x
            /\ \A j \in DOMAIN docs'[x].saving :
                  docs'[x].saving[j].who = docs'[x].saving[i].who => j = i
    BY DEF QueueKept
  <2>1. docs'[x].saving = docs[x].saving
    OBVIOUS
  <2>2. /\ at[docs[x].saving[i].who] \in {"leaving", "flushing"}
        /\ of[docs[x].saving[i].who] = x
        /\ \A j \in DOMAIN docs[x].saving :
              docs[x].saving[j].who = docs[x].saving[i].who => j = i
    BY <2>1 DEF Kin, QueueKept
  <2>3. docs[x].saving[i].who # r
    BY <2>2 DEF Counted, Typing, Sealing
  <2> QED BY <1>0, <2>1, <2>2, <2>3
<1> QED BY <1>1, <1>3, <1>4, <1>5, <1>6 DEF Kin

-----------------------------------------------------------------------------
LEMMA ConnsAreReaders ==
    /\ \A c \in Conns : c \in Readers /\ WriterOf[c] \in Writers /\ c \notin Sends
    /\ \A s \in Sends : s \in Readers /\ s \notin Conns
BY ProseAssumption DEF Readers, Writers

(* A document that takes a frame, or refuses it, or holds it.              *)
LEMMA TakenKeeps ==
    ASSUME DocInv, NEW c \in Conns, at[c] \in {"frame", "accepted"},
           NEW doc \in DocRows,
           doc.at = docs[live].at, doc.readers = docs[live].readers,
           doc.saving = docs[live].saving, Taken(c, live, doc)
    PROVE  DocInv'
<1> USE DEF DocInv
<1>1. Counted(c) /\ c \in Readers /\ live \in Docs /\ live # Nil /\ mine[c] = live
      /\ word[c] \in Words /\ WriterOf[c] \in Writers
  BY ConnsAreReaders DEF Counted, Typing, Shaped, Kin, CountedHold, PlacesKept
<1>2. UNCHANGED <<row, accepts, live, mine, by, bytes, named, fails, ousted>>
  BY DEF Taken
<1>3. Kin
  BY DEF Kin
<1>4. CASE doc.sealed /\ Answered(c, "refused") /\ Change(live, doc)
  <2>1. Shaped'
    BY <1>1, <1>2, <1>4 DEF Answered, Change, Goto, Shaped, Fates, Places
  <2>2. Kin'
    BY <1>1, <1>2, <1>3, <1>4, MoveKeeps, "in" \in {"in"} \cup Typing
       DEF Answered, Change, Goto, Shaped, Typing
  <2> QED BY <2>1, <2>2 DEF Kin
<1>5. CASE ~ doc.sealed /\ doc.deciding /\ Goto(c, "held", live) /\ Change(live, doc)
           /\ UNCHANGED <<word, fate>>
  <2>1. Shaped'
    BY <1>1, <1>2, <1>5 DEF Change, Goto, Shaped, Places, Typing
  <2>2. Kin'
    BY <1>1, <1>2, <1>3, <1>5, MoveKeeps, "held" \in {"in"} \cup Typing
       DEF Change, Goto, Shaped, Typing
  <2> QED BY <2>1, <2>2 DEF Kin
<1>6. CASE /\ ~doc.sealed /\ ~doc.deciding
           /\ Answered(c, Outcome(c, live, doc))
           /\ Change(live, [doc EXCEPT !.words = @ \cup {word[c]}, !.dirty = TRUE, !.timer = TRUE,
                                       !.writers = @ \cup {WriterOf[c]}, !.late = row.sent])
  <2> DEFINE new == [doc EXCEPT !.words = @ \cup {word[c]}, !.dirty = TRUE, !.timer = TRUE,
                                !.writers = @ \cup {WriterOf[c]}, !.late = row.sent]
  <2>0. new \in DocRows /\ new.at = doc.at /\ new.readers = doc.readers /\ new.saving = doc.saving
    <3>1. row.sent \in BOOLEAN
      BY DEF Shaped
    <3> QED BY <1>1, <3>1 DEF DocRows, DocFields
  <2>3. docs' = [docs EXCEPT ![live] = new]
    BY <1>6 DEF Change
  <2> HIDE DEF new
  <2>1. Shaped'
    <3>1. Outcome(c, live, doc) \in {"risked", "taken"}
      BY DEF Outcome
    <3> QED BY <1>1, <1>2, <1>6, <2>0, <2>3, <3>1 DEF Answered, Goto, Shaped, Fates, Places
  <2>2. Kin'
    BY <1>1, <1>2, <1>3, <1>6, <2>0, <2>3, MoveKeeps, "in" \in {"in"} \cup Typing
       DEF Answered, Goto, Shaped, Typing
  <2> QED BY <2>1, <2>2 DEF Kin
<1> QED BY <1>4, <1>5, <1>6 DEF Taken

LEMMA TypeKeeps == ASSUME DocInv, NEW c \in Conns, Type(c) PROVE DocInv'
<1> USE DEF DocInv
<1>1. Counted(c) /\ c \in Readers /\ live \in Docs /\ live # Nil /\ mine[c] = live
      /\ of[c] \in {live, Nil} /\ WriterOf[c] \in Writers /\ Kin
  BY ConnsAreReaders DEF Type, Counted, Shaped, Kin, CountedHold
<1>2. PICK w \in Words : /\ by' = [by EXCEPT ![w] = WriterOf[c]]
                         /\ fate' = [fate EXCEPT ![w] = "sent"]
                         /\ word' = [word EXCEPT ![c] = w]
  BY DEF Type
<1>3. /\ at' = [at EXCEPT ![c] = "frame"] /\ at[c] = "in"
      /\ UNCHANGED <<row, accepts, docs, live, mine, of, bytes, named, fails, ousted>>
  BY DEF Type
<1>4. Shaped'
  BY <1>1, <1>2, <1>3 DEF Shaped, Fates, Places, Typing
<1>5. Kin'
  BY <1>1, <1>2, <1>3, MoveKeeps, "frame" \in {"in"} \cup Typing DEF Shaped, Typing
<1> QED BY <1>4, <1>5 DEF Kin

LEMMA ApplyKeeps == ASSUME DocInv, NEW c \in Conns, Apply(c) PROVE DocInv'
<1>1. Counted(c) /\ c \in Readers /\ live \in Docs /\ live # Nil /\ mine[c] = live
      /\ WriterOf[c] \in Writers /\ Kin /\ at[c] = "frame" /\ word[c] \in Words
      /\ docs[live] \in DocRows
  BY ConnsAreReaders DEF DocInv, Apply, Counted, Shaped, Kin, CountedHold, Typing, PlacesKept
<1>2. CASE Taken(c, live, docs[live])
  BY <1>1, <1>2, TakenKeeps
<1>3. CASE /\ Change(live, [docs[live] EXCEPT !.accepted = @ \cup {WriterOf[c]}])
           /\ Goto(c, "accepting", live)
           /\ UNCHANGED <<row, accepts, live, mine, word, by, fate, bytes, named, fails, ousted>>
  <2> DEFINE new == [docs[live] EXCEPT !.accepted = @ \cup {WriterOf[c]}]
  <2>0. new \in DocRows /\ new.at = docs[live].at /\ new.readers = docs[live].readers
        /\ new.saving = docs[live].saving
    BY <1>1 DEF DocRows, DocFields
  <2>3. docs' = [docs EXCEPT ![live] = new]
    BY <1>3 DEF Change
  <2> HIDE DEF new
  <2>1. Shaped'
    BY <1>1, <1>3, <2>0, <2>3 DEF DocInv, Goto, Shaped, Places, Typing
  <2>2. Kin'
    BY <1>1, <1>3, <2>0, <2>3, MoveKeeps, "accepting" \in {"in"} \cup Typing
       DEF DocInv, Goto, Shaped, Typing
  <2> QED BY <2>1, <2>2 DEF Kin, DocInv
<1> QED BY <1>1, <1>2, <1>3 DEF Apply

LEMMA AcceptKeeps == ASSUME DocInv, NEW c \in Conns, Accept(c) PROVE DocInv'
<1>1. Counted(c) /\ c \in Readers /\ live \in Docs /\ live # Nil /\ mine[c] = live
      /\ of[c] \in {live, Nil} /\ of[c] \in Docs /\ WriterOf[c] \in Writers /\ Kin
      /\ at[c] = "accepting" /\ word[c] \in Words
  BY ConnsAreReaders DEF DocInv, Accept, Counted, Shaped, Kin, CountedHold, Typing, PlacesKept
<1>2. Shaped'
  BY <1>1 DEF DocInv, Accept, Shaped, Places, Typing
<1>3. Kin'
  BY <1>1, DocsAreNumbers, MoveKeeps, "accepted" \in {"in"} \cup Typing
     DEF DocInv, Accept, Shaped, Typing
<1> QED BY <1>2, <1>3 DEF Kin, DocInv

LEMMA AcceptFailsKeeps == ASSUME DocInv, NEW c \in Conns, AcceptFails(c) PROVE DocInv'
<1>1. Counted(c) /\ c \in Readers /\ live \in Docs /\ live # Nil /\ mine[c] = live
      /\ of[c] = live /\ WriterOf[c] \in Writers /\ Kin
      /\ at[c] = "accepting" /\ word[c] \in Words /\ docs[live] \in DocRows
  BY ConnsAreReaders, DocsAreNumbers
     DEF DocInv, AcceptFails, Counted, Shaped, Kin, CountedHold, Typing, PlacesKept
<1> DEFINE new == [docs[live] EXCEPT !.accepted = @ \ {WriterOf[c]}]
<1>2. new \in DocRows /\ new.at = docs[live].at /\ new.readers = docs[live].readers
      /\ new.saving = docs[live].saving
  BY <1>1 DEF DocRows, DocFields
<1>3. docs' = [docs EXCEPT ![live] = new] /\ Answered(c, "thrown")
      /\ fails < MaxFails /\ fails' = fails + 1
      /\ UNCHANGED <<row, accepts, live, mine, by, bytes, named, ousted>>
  BY <1>1 DEF AcceptFails, Change
<1> HIDE DEF new
<1>4. Shaped'
  <2>1. fails' \in 0..MaxFails
    BY <1>3, ProseAssumption DEF DocInv, Shaped
  <2> QED BY <1>1, <1>2, <1>3, <2>1 DEF DocInv, Answered, Goto, Shaped, Places, Fates
<1>5. Kin'
  BY <1>1, <1>2, <1>3, MoveKeeps, "in" \in {"in"} \cup Typing
     DEF DocInv, Answered, Goto, Shaped, Typing
<1> QED BY <1>4, <1>5 DEF Kin, DocInv

LEMMA AcceptedKeeps == ASSUME DocInv, NEW c \in Conns, Accepted(c) PROVE DocInv'
<1>1. c \in Readers /\ of[c] = live /\ live \in Docs /\ at[c] = "accepted" /\ word[c] \in Words
      /\ docs[live] \in DocRows
  BY ConnsAreReaders, DocsAreNumbers
     DEF DocInv, Accepted, Counted, Shaped, CountedHold, Typing, PlacesKept
<1> DEFINE new == [docs[live] EXCEPT !.acceptances = @ \cup {word[c]}]
<1>2. new \in DocRows /\ new.at = docs[live].at /\ new.readers = docs[live].readers
      /\ new.saving = docs[live].saving
  BY <1>1 DEF DocRows, DocFields
<1>3. Taken(c, live, new)
  BY <1>1 DEF Accepted
<1> HIDE DEF new
<1> QED BY <1>1, <1>2, <1>3, TakenKeeps

LEMMA ResumeKeeps == ASSUME DocInv, NEW c \in Conns, Resume(c) PROVE DocInv'
<1>1. Counted(c) /\ c \in Readers /\ live \in Docs /\ live # Nil /\ mine[c] = live
      /\ Kin /\ at[c] = "held" /\ word[c] \in Words
  BY ConnsAreReaders DEF DocInv, Resume, Counted, Shaped, Kin, CountedHold, Typing, PlacesKept
<1>2. Shaped'
  BY <1>1 DEF DocInv, Resume, Goto, Shaped, Places, Typing
<1>3. Kin'
  BY <1>1, MoveKeeps, "frame" \in {"in"} \cup Typing DEF DocInv, Resume, Goto, Shaped, Typing
<1> QED BY <1>2, <1>3 DEF Kin, DocInv

LEMMA SealedKeeps == ASSUME DocInv, NEW s \in Sends, Sealed(s) PROVE DocInv'
<1>1. Counted(s) /\ s \in Readers /\ live \in Docs /\ live # Nil /\ mine[s] = live /\ Kin
      /\ s \notin Conns /\ at[s] = "flushed" /\ of[s] = live /\ docs[live] \in DocRows
  BY ConnsAreReaders, DocsAreNumbers
     DEF DocInv, Sealed, Counted, Shaped, Kin, CountedHold, PlacesKept
<1>2. UNCHANGED <<row, accepts, live, of, word, by, fate, named, fails, ousted>>
  BY DEF Sealed
<1>3. CASE /\ docs[of[s]].dirty
           /\ Change(of[s], [docs[of[s]] EXCEPT !.deciding = FALSE])
           /\ at' = [at EXCEPT ![s] = "settled"] /\ mine' = [mine EXCEPT ![s] = Nil]
           /\ UNCHANGED bytes
  <2> DEFINE new == [docs[live] EXCEPT !.deciding = FALSE]
  <2>0. new \in DocRows /\ new.at = docs[live].at /\ new.readers = docs[live].readers
        /\ new.saving = docs[live].saving
    BY <1>1 DEF DocRows, DocFields
  <2>3. docs' = [docs EXCEPT ![live] = new]
    BY <1>1, <1>3 DEF Change
  <2> HIDE DEF new
  <2>1. Shaped'
    BY <1>1, <1>2, <1>3, <2>0, <2>3 DEF DocInv, Shaped, Places
  <2>2. Kin'
    BY <1>1, <1>2, <1>3, <2>0, <2>3, MoveKeeps DEF DocInv, Shaped, Typing
  <2> QED BY <2>1, <2>2 DEF Kin, DocInv
<1>4. CASE /\ ~docs[of[s]].dirty
           /\ bytes' = [bytes EXCEPT ![s] = docs[of[s]].words]
           /\ at' = [at EXCEPT ![s] = "deciding"]
           /\ UNCHANGED <<docs, mine>>
  <2>0. docs[live].words \in SUBSET Words
    BY <1>1 DEF DocRows, DocFields
  <2>1. Shaped'
    BY <1>1, <1>2, <1>4, <2>0 DEF DocInv, Shaped, Places, Sealing
  <2>2. Kin'
    BY <1>1, <1>2, <1>4, MoveKeeps DEF DocInv, Shaped, Typing
  <2> QED BY <2>1, <2>2 DEF Kin, DocInv
<1> QED BY <1>3, <1>4 DEF Sealed

LEMMA StampKeeps == ASSUME DocInv, NEW s \in Sends, Stamp(s) PROVE DocInv'
<1>1. Counted(s) /\ s \in Readers /\ live \in Docs /\ live # Nil /\ mine[s] = live /\ Kin
      /\ s \notin Conns /\ at[s] = "deciding" /\ of[s] = live
  BY ConnsAreReaders, DocsAreNumbers
     DEF DocInv, Stamp, Counted, Sealing, Shaped, Kin, CountedHold, PlacesKept
<1>2. UNCHANGED <<accepts, docs, live, mine, of, word, by, fate, bytes, named, fails, ousted>>
  BY DEF Stamp
<1>3. /\ row' \in [words : SUBSET Words, sent : BOOLEAN]
      /\ \E p \in {"stamped", "refused"} : at' = [at EXCEPT ![s] = p]
  <2>1. CASE row' = [words |-> bytes[s], sent |-> TRUE] /\ at' = [at EXCEPT ![s] = "stamped"]
    BY <2>1 DEF DocInv, Shaped
  <2>2. CASE at' = [at EXCEPT ![s] = "refused"] /\ UNCHANGED row
    BY <2>2 DEF DocInv, Shaped
  <2> QED BY <2>1, <2>2 DEF Stamp
<1>4. Shaped'
  BY <1>1, <1>2, <1>3 DEF DocInv, Shaped, Places, Sealing
<1>5. Kin'
  BY <1>1, <1>2, <1>3, MoveKeeps DEF DocInv, Shaped, Typing
<1> QED BY <1>4, <1>5 DEF Kin, DocInv

LEMMA SettleKeeps == ASSUME DocInv, NEW s \in Sends, Settle(s) PROVE DocInv'
<1>1. Counted(s) /\ s \in Readers /\ live \in Docs /\ live # Nil /\ mine[s] = live /\ Kin
      /\ s \notin Conns /\ at[s] \in {"stamped", "refused"} /\ of[s] = live
      /\ docs[live] \in DocRows
  BY ConnsAreReaders, DocsAreNumbers
     DEF DocInv, Settle, Counted, Sealing, Shaped, Kin, CountedHold, PlacesKept
<1>2. UNCHANGED <<row, accepts, live, of, word, by, fate, bytes, named, fails, ousted>>
  BY DEF Settle
<1> DEFINE new == IF at[s] = "stamped"
                  THEN [docs[live] EXCEPT !.sealed = TRUE, !.dirty = FALSE, !.timer = FALSE,
                                          !.deciding = FALSE]
                  ELSE [docs[live] EXCEPT !.deciding = FALSE]
<1>3. new \in DocRows /\ new.at = docs[live].at /\ new.readers = docs[live].readers
      /\ new.saving = docs[live].saving
  BY <1>1 DEF DocRows, DocFields
<1>4. docs' = [docs EXCEPT ![live] = new]
      /\ at' = [at EXCEPT ![s] = "settled"] /\ mine' = [mine EXCEPT ![s] = Nil]
  BY <1>1 DEF Settle, Change
<1> HIDE DEF new
<1>5. Shaped'
  BY <1>1, <1>2, <1>3, <1>4 DEF DocInv, Shaped, Places
<1>6. Kin'
  BY <1>1, <1>2, <1>3, <1>4, MoveKeeps DEF DocInv, Shaped, Typing
<1> QED BY <1>5, <1>6 DEF Kin, DocInv

-----------------------------------------------------------------------------
(* The head of a queue, and the document without it.                       *)
LEMMA FinishedDoc ==
    ASSUME NEW doc \in DocRows, doc.saving # <<>>
    PROVE  /\ Finished(doc) \in DocRows /\ Finished(doc).at = doc.at
           /\ Finished(doc).readers = doc.readers
           /\ Finished(doc).saving = Tail(doc.saving) /\ Finished(doc).store = NoStore
<1>1. Tail(doc.saving) \in Seq(Acts)
  BY DEF DocRows, DocFields
<1>2. NoStore \in Stores /\ NoStore.at = "none"
  BY DEF Stores, NoStore
<1> QED BY <1>1, <1>2 DEF Finished, DocRows, DocFields

LEMMA NothingToStoreKeeps == ASSUME DocInv, NEW d \in Docs, NothingToStore(d) PROVE DocInv'
<1> DEFINE new == Finished(docs[d])
<1>1. docs[d] \in DocRows /\ docs[d].saving # <<>> /\ docs' = [docs EXCEPT ![d] = new] /\ Wakes(d)
      /\ UNCHANGED <<row, accepts, live, mine, of, word, by, fate, bytes, named, fails, ousted>>
      /\ Kin
  BY DEF NothingToStore, Starts, Change, DocInv, Shaped, Kin
<1>2. new \in DocRows /\ new.at = docs[d].at /\ new.readers = docs[d].readers
      /\ new.saving = Tail(docs[d].saving)
  BY <1>1, FinishedDoc
<1> HIDE DEF new
<1>3. Kin' /\ at' \in [Readers -> Places] /\ docs' \in [Docs -> DocRows]
  BY <1>1, <1>2, WakeKeeps DEF DocInv
<1> QED BY <1>1, <1>3 DEF DocInv, Shaped, Kin

LEMMA AskFailsKeeps == ASSUME DocInv, NEW d \in Docs, AskFails(d) PROVE DocInv'
<1> DEFINE new == Finished(docs[d])
<1>1. docs[d] \in DocRows /\ docs[d].saving # <<>> /\ docs' = [docs EXCEPT ![d] = new] /\ Wakes(d)
      /\ fails < MaxFails /\ fails' = fails + 1
      /\ UNCHANGED <<row, accepts, live, mine, of, word, by, fate, bytes, named, ousted>>
      /\ Kin
  BY DEF AskFails, Starts, Change, DocInv, Shaped, Kin
<1>2. new \in DocRows /\ new.at = docs[d].at /\ new.readers = docs[d].readers
      /\ new.saving = Tail(docs[d].saving)
  BY <1>1, FinishedDoc
<1> HIDE DEF new
<1>3. Kin' /\ at' \in [Readers -> Places] /\ docs' \in [Docs -> DocRows]
  BY <1>1, <1>2, WakeKeeps DEF DocInv
<1>4. fails' \in 0..MaxFails
  BY <1>1, ProseAssumption DEF DocInv, Shaped
<1> QED BY <1>1, <1>3, <1>4 DEF DocInv, Shaped, Kin

LEMMA AskAcceptedKeeps == ASSUME DocInv, NEW d \in Docs, AskAccepted(d) PROVE DocInv'
<1> DEFINE st == [at |-> "asked", ids |-> {a.id : a \in accepts},
                  names |-> {a.writer : a \in accepts}, local |-> {}, own |-> {},
                  words |-> {}]
           new == [docs[d] EXCEPT !.store = st]
<1>1. docs[d] \in DocRows /\ docs[d].saving # <<>> /\ docs' = [docs EXCEPT ![d] = new]
      /\ UNCHANGED <<row, accepts, live, at, mine, of, word, by, fate, bytes, named, fails, ousted>>
      /\ Kin
  BY DEF AskAccepted, Starts, Change, DocInv, Shaped, Kin
<1>2. st \in Stores /\ st.at = "asked"
  BY DEF DocInv, Shaped, Stores
<1> HIDE DEF st
<1>3. new \in DocRows /\ new.at = docs[d].at /\ new.readers = docs[d].readers
      /\ new.saving = docs[d].saving
  BY <1>1, <1>2 DEF DocRows, DocFields
<1> HIDE DEF new
<1>4. Shaped'
  BY <1>1, <1>3 DEF DocInv, Shaped
<1>5. Kin'
  BY <1>1, <1>3, StayKeeps DEF DocInv, Shaped
<1> QED BY <1>4, <1>5 DEF DocInv, Kin

LEMMA EncodeKeeps == ASSUME DocInv, NEW d \in Docs, Encode(d) PROVE DocInv'
<1> DEFINE st == [docs[d].store EXCEPT !.at = "encoded", !.words = docs[d].words]
           new == [docs[d] EXCEPT !.store = st]
<1>1. docs[d] \in DocRows /\ docs[d].store.at = "writing" /\ Kin
      /\ UNCHANGED <<row, accepts, live, at, mine, of, word, by, fate, bytes, named, fails, ousted>>
  BY DEF Encode, DocInv, Shaped, Kin
<1>2. docs' = [docs EXCEPT ![d] = new]
  <2>1. [docs[d] EXCEPT !.store = [@ EXCEPT !.at = "encoded", !.words = docs[d].words]] = new
    BY <1>1 DEF DocRows, DocFields
  <2> QED BY <2>1 DEF Encode, Change
<1>3. docs[d].saving # <<>> /\ st \in Stores /\ st.at = "encoded"
  <2>1. docs[d].store \in Stores \ {NoStore} /\ docs[d].words \in SUBSET Words
    BY <1>1 DEF DocRows, DocFields, NoStore
  <2>2. st \in Stores /\ st.at = "encoded"
    BY <2>1 DEF Stores
  <2> QED BY <1>1, <2>2 DEF DocRows
<1> HIDE DEF st
<1>4. new \in DocRows /\ new.at = docs[d].at /\ new.readers = docs[d].readers
      /\ new.saving = docs[d].saving
  BY <1>1, <1>3 DEF DocRows, DocFields
<1> HIDE DEF new
<1>5. Shaped'
  BY <1>1, <1>2, <1>4 DEF DocInv, Shaped
<1>6. Kin'
  BY <1>1, <1>2, <1>4, StayKeeps DEF DocInv, Shaped
<1> QED BY <1>5, <1>6 DEF DocInv, Kin

LEMMA UnstoredFates ==
    ASSUME Shaped, NEW doc, NEW outcome \in Fates
    PROVE  Unstored(doc, outcome) \in [Words -> Fates]
BY DEF Unstored, Shaped

LEMMA NameKeeps == ASSUME DocInv, NEW d \in Docs, Name(d) PROVE DocInv'
<1> DEFINE doc == docs[d]
           st == doc.store
           told == IF doc.acceptances \subseteq st.ids THEN doc.unsaved ELSE "lost"
<1>1. doc \in DocRows /\ told \in {"no", "unsaved", "lost"} /\ st \in Stores
      /\ st.at = "asked" /\ Kin
      /\ UNCHANGED <<row, accepts, live, mine, of, word, by, bytes, named, fails, ousted>>
  BY DEF Name, DocInv, Shaped, Kin, DocRows, DocFields
<1>2. CASE st.names = {}
  <2> DEFINE new == [Finished(doc) EXCEPT
                    !.unsaved = told, !.acceptances = {}, !.writers = {}, !.dirty = FALSE,
                    !.accepted = @ \ doc.writers]
  <2>1. docs' = [docs EXCEPT ![d] = new] /\ Wakes(d)
        /\ fate' = IF told = "lost" THEN Unstored(doc, "told") ELSE fate
    BY <1>2 DEF Name, Change
  <2>2. doc.saving # <<>>
    BY <1>1 DEF DocRows
  <2>3. new \in DocRows /\ new.at = docs[d].at /\ new.readers = docs[d].readers
        /\ new.saving = Tail(docs[d].saving)
    <3>1. /\ Finished(doc) \in DocRows /\ Finished(doc).at = doc.at
          /\ Finished(doc).readers = doc.readers
          /\ Finished(doc).saving = Tail(doc.saving) /\ Finished(doc).store = NoStore
      BY <1>1, <2>2, FinishedDoc
    <3>2. doc = docs[d]
      OBVIOUS
    <3> DEFINE done == Finished(doc)
    <3>3. done.accepted \ doc.writers \in SUBSET Writers
      BY <3>1, <1>1 DEF DocRows, DocFields
    <3>4. done \in DocFields /\ done.store = NoStore /\ told \in {"no", "unsaved", "lost"}
      BY <3>1, <1>1 DEF DocRows
    <3>5. new = [done EXCEPT !.unsaved = told, !.acceptances = {}, !.writers = {},
                            !.dirty = FALSE, !.accepted = done.accepted \ doc.writers]
      OBVIOUS
    <3> HIDE DEF doc, told, done, new
    <3>6. /\ new \in DocFields /\ new.store = NoStore /\ new.at = done.at
          /\ new.readers = done.readers /\ new.saving = done.saving
      BY <3>3, <3>4, <3>5 DEF DocFields
    <3> QED BY <3>1, <3>2, <3>6 DEF DocRows, NoStore, done
  <2> HIDE DEF new
  <2>4. Kin' /\ at' \in [Readers -> Places] /\ docs' \in [Docs -> DocRows]
    BY <1>1, <2>1, <2>2, <2>3, WakeKeeps DEF DocInv
  <2>5. fate' \in [Words -> Fates]
    BY <2>1, UnstoredFates DEF DocInv, Shaped, Fates
  <2>6. Shaped'
    BY <1>1, <2>4, <2>5 DEF DocInv, Shaped
  <2> QED BY <2>4, <2>6 DEF DocInv, Kin
<1>3. CASE st.names # {}
  <2> DEFINE sn == [st EXCEPT !.at = "writing", !.local = doc.writers \cap st.names,
                              !.own = doc.acceptances \cap st.ids]
             new == [doc EXCEPT
                    !.unsaved = told, !.acceptances = {}, !.writers = {}, !.accepted = {},
                    !.dirty = FALSE, !.store = sn]
  <2>1. docs' = [docs EXCEPT ![d] = new] /\ UNCHANGED <<at, fate>>
    BY <1>3 DEF Name, Change
  <2>2. sn \in Stores
    <3>1. /\ st \in Stores \ {NoStore}
          /\ doc.writers \cap st.names \in SUBSET Writers
          /\ doc.acceptances \cap st.ids \in SUBSET Words
      BY <1>1 DEF Stores, DocRows, DocFields, NoStore
    <3> HIDE DEF st, doc
    <3> QED BY <3>1 DEF Stores
  <2>3. new \in DocRows /\ new.at = docs[d].at /\ new.readers = docs[d].readers
        /\ new.saving = docs[d].saving
    <3>1. sn \in Stores /\ sn.at = "writing" /\ doc.saving # <<>>
      BY <1>1, <2>2 DEF DocRows
    <3>2. doc = docs[d]
      OBVIOUS
    <3> HIDE DEF sn, told, doc
    <3> QED BY <1>1, <3>1, <3>2 DEF DocRows, DocFields
  <2> HIDE DEF new
  <2>4. Shaped'
    BY <1>1, <2>1, <2>3 DEF DocInv, Shaped
  <2>5. Kin'
    BY <1>1, <2>1, <2>3, StayKeeps DEF DocInv, Shaped
  <2> QED BY <2>4, <2>5 DEF DocInv, Kin
<1> QED BY <1>2, <1>3

(* A store that ends, whatever else it changes in its document.            *)
LEMMA StoredDoc ==
    ASSUME DocInv, NEW d \in Docs, docs[d].store.at \in {"writing", "encoded"}
    PROVE  /\ Kin /\ Shaped /\ docs[d] \in DocRows /\ docs[d].saving # <<>>
           /\ docs[d].store \in Stores \ {NoStore}
           /\ docs[d].store.ids \in SUBSET Words /\ docs[d].store.own \in SUBSET Words
           /\ docs[d].store.words \in SUBSET Words
           /\ docs[d].store.names \in SUBSET Writers /\ docs[d].store.local \in SUBSET Writers
           /\ Finished(docs[d]) \in DocRows /\ Finished(docs[d]).at = docs[d].at
           /\ Finished(docs[d]).readers = docs[d].readers
           /\ Finished(docs[d]).saving = Tail(docs[d].saving)
           /\ Finished(docs[d]).store = NoStore
<1>1. docs[d] \in DocRows /\ Kin /\ Shaped
  BY DEF DocInv, Shaped, Kin
<1>2. docs[d].saving # <<>> /\ docs[d].store \in Stores
  BY <1>1 DEF DocRows, DocFields
<1> QED BY <1>1, <1>2, FinishedDoc DEF Stores, NoStore

LEMMA WriteKeeps == ASSUME DocInv, NEW d \in Docs, Write(d) PROVE DocInv'
<1> DEFINE new == [Finished(docs[d]) EXCEPT !.unsaved = "no"]
<1>1. docs[d].store.at = "encoded"
  BY DEF Write
<1>2. docs' = [docs EXCEPT ![d] = new] /\ Wakes(d)
      /\ row' = [row EXCEPT !.words = docs[d].store.words]
      /\ accepts' = {a \in accepts : a.id \notin docs[d].store.ids}
      /\ named' = named \cup {w \in docs[d].store.words : by[w] \in docs[d].store.names}
      /\ UNCHANGED <<live, mine, of, word, by, fate, bytes, fails, ousted>>
  BY DEF Write, Change
<1>3. new \in DocRows /\ new.at = docs[d].at /\ new.readers = docs[d].readers
      /\ new.saving = Tail(docs[d].saving)
  BY <1>1, StoredDoc DEF DocRows, DocFields, NoStore
<1> HIDE DEF new
<1>4. Kin' /\ at' \in [Readers -> Places] /\ docs' \in [Docs -> DocRows]
  BY <1>1, <1>2, <1>3, StoredDoc, WakeKeeps
<1>5. docs[d].store.words \in SUBSET Words
  BY <1>1, StoredDoc
<1>6. Shaped'
  BY <1>2, <1>4, <1>5 DEF DocInv, Shaped
<1> QED BY <1>4, <1>6 DEF DocInv, Kin

LEMMA WriteRefusedKeeps == ASSUME DocInv, NEW d \in Docs, WriteRefused(d) PROVE DocInv'
<1> DEFINE new == [Finished(docs[d]) EXCEPT !.sealed = TRUE,
    !.unsaved = IF docs[d].late THEN "lost" ELSE @]
<1>1. docs[d].store.at = "encoded"
  BY DEF WriteRefused
<1>2. docs' = [docs EXCEPT ![d] = new] /\ Wakes(d)
      /\ accepts' = {a \in accepts : a.id \notin docs[d].store.own}
      /\ UNCHANGED <<row, live, mine, of, word, by, fate, bytes, named, fails, ousted>>
  BY DEF WriteRefused, Change
<1>3. new \in DocRows /\ new.at = docs[d].at /\ new.readers = docs[d].readers
      /\ new.saving = Tail(docs[d].saving)
  <2> DEFINE done == Finished(docs[d])
  <2>1. /\ done \in DocRows /\ done.at = docs[d].at /\ done.readers = docs[d].readers
        /\ done.saving = Tail(docs[d].saving) /\ done.store = NoStore
    BY <1>1, StoredDoc
  <2>2. new = [done EXCEPT !.sealed = TRUE,
    !.unsaved = IF docs[d].late THEN "lost" ELSE @]
    OBVIOUS
  <2>3. done.unsaved \in {"no", "unsaved", "lost"}
    BY <2>1 DEF DocRows, DocFields
  <2> HIDE DEF new, done
  <2> QED BY <2>1, <2>2, <2>3 DEF DocRows, DocFields, NoStore
<1> HIDE DEF new
<1>4. Kin' /\ at' \in [Readers -> Places] /\ docs' \in [Docs -> DocRows]
  BY <1>1, <1>2, <1>3, StoredDoc, WakeKeeps
<1>6. Shaped'
  BY <1>2, <1>4 DEF DocInv, Shaped
<1> QED BY <1>4, <1>6 DEF DocInv, Kin

LEMMA WriteFailsKeeps == ASSUME DocInv, NEW d \in Docs, WriteFails(d) PROVE DocInv'
<1> DEFINE doc == docs[d]
           st == doc.store
           new == [Finished(doc) EXCEPT
              !.dirty = TRUE, !.acceptances = @ \cup st.own, !.accepted = @ \cup st.local,
              !.writers = @ \cup st.local,
              !.unsaved = IF @ = "no" THEN "unsaved" ELSE @,
              !.timer = doc.readers > 0]
<1>1. docs[d].store.at \in {"writing", "encoded"}
  BY DEF WriteFails
<1>2. /\ docs' = [docs EXCEPT ![d] = new] /\ Wakes(d)
      /\ fate' = IF doc.at = "gone" THEN Unstored(doc, "unsaved") ELSE fate
      /\ UNCHANGED <<row, accepts, live, mine, of, word, by, bytes, named, ousted>>
  <2>1. docs' = [docs EXCEPT ![d] = new]
    BY DEF WriteFails, Change
  <2>2. Wakes(d)
    BY DEF WriteFails
  <2>3. fate' = IF doc.at = "gone" THEN Unstored(doc, "unsaved") ELSE fate
    BY DEF WriteFails
  <2>4. UNCHANGED <<row, accepts, live, mine, of, word, by, bytes, named, ousted>>
    BY DEF WriteFails
  <2> QED BY <2>1, <2>2, <2>3, <2>4
<1>3. fails' \in 0..MaxFails
  <2>1. \/ fails' = fails
        \/ fails' = fails + 1 /\ fails < MaxFails
    BY DEF WriteFails
  <2> QED BY <2>1, ProseAssumption DEF DocInv, Shaped
<1>4. new \in DocRows /\ new.at = docs[d].at /\ new.readers = docs[d].readers
      /\ new.saving = Tail(docs[d].saving)
  <2>1. /\ Finished(doc) \in DocRows /\ Finished(doc).at = doc.at
        /\ Finished(doc).readers = doc.readers
        /\ Finished(doc).saving = Tail(doc.saving)
        /\ Finished(doc).store = NoStore
        /\ st.own \in SUBSET Words /\ st.local \in SUBSET Writers /\ (doc.readers > 0) \in BOOLEAN
        /\ doc = docs[d]
    BY <1>1, StoredDoc
  <2> HIDE DEF doc, st
  <2> QED BY <2>1 DEF DocRows, DocFields, NoStore
<1> HIDE DEF new
<1>5. Kin' /\ at' \in [Readers -> Places] /\ docs' \in [Docs -> DocRows]
  BY <1>1, <1>2, <1>4, StoredDoc, WakeKeeps
<1>6. fate' \in [Words -> Fates]
  BY <1>2, UnstoredFates DEF DocInv, Shaped, Fates
<1>7. Shaped'
  BY <1>2, <1>3, <1>5, <1>6 DEF DocInv, Shaped
<1> QED BY <1>5, <1>7 DEF DocInv, Kin

-----------------------------------------------------------------------------
(* One more store at the end of the queue of the document in the map, and  *)
(* the reader that waits for it.                                           *)
LEMMA QueueGrows ==
    ASSUME Shaped, QueueKept, live \in Docs, NEW act \in Acts,
           \A d \in Docs : docs'[d].saving = IF d = live THEN Append(docs[d].saving, act)
                                             ELSE docs[d].saving,
           \A r \in Readers \ {act.who} : at'[r] = at[r] /\ of'[r] = of[r],
           act.who \in Readers => /\ at[act.who] \notin {"leaving", "flushing"}
                                  /\ at'[act.who] \in {"leaving", "flushing"}
                                  /\ of'[act.who] = live
    PROVE  QueueKept'
<1> DEFINE q == docs[live].saving
<1>1. q \in Seq(Acts) /\ Len(q) \in Nat /\ DOMAIN q = 1..Len(q)
  BY DEF Shaped, DocRows, DocFields
<1>2. /\ DOMAIN Append(q, act) = 1..(Len(q) + 1) /\ Append(q, act)[Len(q) + 1] = act
      /\ \A i \in 1..Len(q) : Append(q, act)[i] = q[i]
  BY <1>1
<1> SUFFICES ASSUME NEW x \in Docs, NEW i \in DOMAIN docs'[x].saving,
                    docs'[x].saving[i].who \in Readers
    PROVE /\ at'[docs'[x].saving[i].who] \in {"leaving", "flushing"}
          /\ of'[docs'[x].saving[i].who] = x
          /\ \A j \in DOMAIN docs'[x].saving :
                docs'[x].saving[j].who = docs'[x].saving[i].who => j = i
  BY DEF QueueKept
<1>3. ASSUME NEW y \in Docs, NEW k \in DOMAIN docs[y].saving,
             docs[y].saving[k].who \in Readers
      PROVE  /\ docs[y].saving[k].who # act.who
             /\ at'[docs[y].saving[k].who] \in {"leaving", "flushing"}
             /\ of'[docs[y].saving[k].who] = y
             /\ \A j \in DOMAIN docs[y].saving :
                   docs[y].saving[j].who = docs[y].saving[k].who => j = k
  BY <1>3 DEF QueueKept
<1>4. CASE x = live
  <2>1. docs'[x].saving = Append(q, act)
    BY <1>4
  <2>2. CASE i = Len(q) + 1
    <3>1. docs'[x].saving[i].who = act.who
      BY <2>1, <2>2, <1>2
    <3>2. ASSUME NEW j \in DOMAIN docs'[x].saving, docs'[x].saving[j].who = act.who PROVE j = i
      <4>1. CASE j \in 1..Len(q)
        <5>1. q[j].who = act.who /\ j \in DOMAIN docs[live].saving
          BY <4>1, <2>1, <1>1, <1>2, <3>2
        <5>2. act.who \in Readers
          BY <3>1
        <5> QED BY <5>1, <5>2, <1>3
      <4> QED BY <4>1, <2>1, <2>2, <1>1, <1>2
    <3> QED BY <3>1, <3>2, <1>4
  <2>3. CASE i \in 1..Len(q)
    <3>1. docs'[x].saving[i] = q[i] /\ i \in DOMAIN docs[live].saving
      BY <2>1, <2>3, <1>1, <1>2
    <3>2. ASSUME NEW j \in DOMAIN docs'[x].saving, docs'[x].saving[j].who = q[i].who PROVE j = i
      <4>1. CASE j \in 1..Len(q)
        BY <4>1, <3>1, <3>2, <2>1, <1>1, <1>2, <1>3
      <4>2. CASE j = Len(q) + 1
        BY <4>2, <3>1, <3>2, <2>1, <1>1, <1>2, <1>3
      <4> QED BY <4>1, <4>2, <2>1, <1>1, <1>2
    <3> QED BY <3>1, <3>2, <1>3, <1>4
  <2>4. i \in 1..(Len(q) + 1)
    BY <2>1, <1>2
  <2> QED BY <2>2, <2>3, <2>4, <1>1
<1>5. CASE x # live
  <2>1. docs'[x].saving = docs[x].saving
    BY <1>5
  <2> QED BY <2>1, <1>3
<1> QED BY <1>4, <1>5

LEMMA TimerKeeps == ASSUME DocInv, NEW d \in Docs, Timer(d) PROVE DocInv'
<1> DEFINE act == [who |-> "timer", store |-> TRUE]
           rung(x) == IF x = d THEN [docs[x] EXCEPT !.timer = FALSE] ELSE docs[x]
<1>1. docs' = [x \in Docs |-> IF x = live THEN Flushing(rung(x), "timer") ELSE rung(x)]
      /\ UNCHANGED <<row, accepts, live, at, mine, of, word, by, fate, bytes, named, fails, ousted>>
      /\ Kin /\ Shaped /\ live \in Docs \cup {Nil}
  BY DEF Timer, DocInv, Kin, Shaped
<1>2. ASSUME NEW x \in Docs
      PROVE  /\ rung(x) \in DocRows /\ rung(x).at = docs[x].at
             /\ rung(x).readers = docs[x].readers /\ rung(x).saving = docs[x].saving
  <2>1. docs[x] \in DocRows
    BY DEF DocInv, Shaped
  <2>2. CASE x = d
    BY <2>1, <2>2 DEF DocRows, DocFields
  <2>3. CASE x # d
    BY <2>1, <2>3
  <2> QED BY <2>2, <2>3
<1>3. act \in Acts /\ act.who \notin Readers
  BY ProseAssumption DEF Acts, Readers
<1> HIDE DEF rung
<1>4. ASSUME NEW x \in Docs
      PROVE  /\ docs'[x] \in DocRows /\ docs'[x].at = docs[x].at
             /\ docs'[x].readers = docs[x].readers
             /\ docs'[x].saving = IF x = live THEN Append(docs[x].saving, act)
                                  ELSE docs[x].saving
  <2>1. CASE x = live
    <3>1. docs'[x] = [rung(x) EXCEPT !.saving = Append(@, act)]
      BY <1>1, <2>1 DEF Flushing
    <3>2. rung(x).saving \in Seq(Acts) /\ Append(rung(x).saving, act) \in Seq(Acts)
          /\ Append(rung(x).saving, act) # <<>>
      <4>1. rung(x).saving \in Seq(Acts)
        BY <1>2 DEF DocRows, DocFields
      <4> QED BY <4>1, <1>3
    <3>3. [rung(x) EXCEPT !.saving = Append(@, act)] \in DocRows
      BY <3>2, <1>2 DEF DocRows, DocFields
    <3>4. /\ docs'[x] \in DocRows /\ docs'[x].at = rung(x).at
          /\ docs'[x].readers = rung(x).readers
          /\ docs'[x].saving = Append(rung(x).saving, act)
      BY <3>1, <3>3, <1>2 DEF DocRows, DocFields
    <3> QED BY <2>1, <3>4, <1>2
  <2>2. CASE x # live
    BY <2>2, <1>1, <1>2
  <2> QED BY <2>1, <2>2
<1>5. Shaped'
  BY <1>1, <1>4 DEF Shaped
<1>6. PlacesKept' /\ WaitingWait' /\ CountedHold'
  BY <1>1, <1>4, DocsAreNumbers DEF Kin, PlacesKept, WaitingWait, CountedHold, Counted
<1>7. OneLive' /\ ReadersCounted'
  BY <1>1, <1>4, SameReaders DEF Kin, Counted
<1>8. QueueKept'
  <2>1. CASE live \in Docs
    BY <2>1, <1>1, <1>3, <1>4, QueueGrows DEF Kin
  <2>2. CASE live = Nil
    <3>1. \A x \in Docs : docs'[x].saving = docs[x].saving
      BY <2>2, <1>4, DocsAreNumbers
    <3> QED BY <3>1, <1>1 DEF Kin, QueueKept
  <2> QED BY <2>1, <2>2, <1>1
<1> QED BY <1>5, <1>6, <1>7, <1>8 DEF DocInv

LEMMA SealDocKeeps == ASSUME DocInv, NEW s \in Sends, SealDoc(s) PROVE DocInv'
<1> DEFINE act == [who |-> s, store |-> docs[live].dirty]
           new == [docs[live] EXCEPT !.deciding = TRUE,
                             !.saving = Append(@, [who |-> s, store |-> docs[live].dirty])]
<1>1. Counted(s) /\ s \in Readers /\ live \in Docs /\ live # Nil /\ mine[s] = live /\ Kin /\ Shaped
      /\ s \notin Conns /\ at[s] = "sealing" /\ docs[live] \in DocRows
  BY ConnsAreReaders
     DEF DocInv, SealDoc, Counted, Sealing, Shaped, Kin, CountedHold, PlacesKept
<1>2. /\ docs' = [docs EXCEPT ![live] = new] /\ at' = [at EXCEPT ![s] = "flushing"]
      /\ of' = [of EXCEPT ![s] = live]
      /\ UNCHANGED <<row, accepts, live, mine, word, by, fate, bytes, named, fails, ousted>>
  BY <1>1 DEF SealDoc, Change, Goto
<1>3. act \in Acts /\ act.who = s
  BY <1>1 DEF Acts, DocRows, DocFields
<1>4. new \in DocRows /\ new.at = docs[live].at /\ new.readers = docs[live].readers
      /\ new.saving = Append(docs[live].saving, act)
  <2>1. docs[live].saving \in Seq(Acts)
    BY <1>1 DEF DocRows, DocFields
  <2>2. Append(docs[live].saving, act) \in Seq(Acts) /\ Append(docs[live].saving, act) # <<>>
    BY <2>1, <1>3
  <2> QED BY <1>1, <2>2 DEF DocRows, DocFields
<1> HIDE DEF new, act
<1>5. \A x \in Readers \ {s} : at'[x] = at[x] /\ of'[x] = of[x]
  BY <1>2 DEF DocInv, Shaped
<1>6. at'[s] = "flushing" /\ of'[s] = live
  BY <1>1, <1>2 DEF DocInv, Shaped
<1>7. Shaped'
  BY <1>1, <1>2, <1>4 DEF Shaped, Places, Sealing
<1>8. PlacesKept'
  <2> SUFFICES ASSUME NEW x \in Readers
      PROVE /\ at'[x] \in Everywhere \cup (IF x \in Conns THEN {"in"} \cup Typing
                                      ELSE Sealing \cup {"settled"})
            /\ at'[x] \in Typing => word'[x] \in Words
            /\ at'[x] \in {"building", "joining", "accepting", "accepted", "held", "leaving",
                      "flushing", "flushed", "deciding", "stamped", "refused"}
                 => of'[x] \in Docs
            /\ x \in Sends /\ at'[x] \in {"settled", "leaving"} => mine'[x] = Nil
            /\ at'[x] = "away" => of'[x] = Nil
    BY DEF PlacesKept
  <2>1. CASE x = s
    BY <1>1, <1>6, <2>1 DEF Sealing, Typing
  <2>2. CASE x # s
    BY <1>1, <1>2, <1>5, <2>2 DEF Kin, PlacesKept
  <2> QED BY <2>1, <2>2
<1>9. ASSUME NEW x \in Readers PROVE Counted(x)' <=> Counted(x)
  <2>1. CASE x = s
    BY <1>1, <1>6, <2>1 DEF Counted, Sealing
  <2>2. CASE x # s
    BY <1>2, <1>5, <2>2 DEF Counted
  <2> QED BY <2>1, <2>2
<1>10. \A x \in Docs : docs'[x].at = docs[x].at /\ docs'[x].readers = docs[x].readers
  BY <1>1, <1>2, <1>4 DEF Shaped
<1>11. OneLive' /\ ReadersCounted'
  BY <1>1, <1>2, <1>9, <1>10, SameReaders DEF Kin
<1>12. CountedHold'
  <2> SUFFICES ASSUME NEW x \in Readers, Counted(x)'
      PROVE /\ live' # Nil /\ docs'[live'].at = "open"
            /\ of'[x] \in {live', Nil}
            /\ at'[x] # "settled" => mine'[x] = live'
    BY DEF CountedHold
  <2>1. CASE x = s
    BY <1>1, <1>2, <1>6, <1>10, <2>1 DEF Kin, CountedHold
  <2>2. CASE x # s
    BY <1>1, <1>2, <1>5, <1>9, <1>10, <2>2 DEF Kin, CountedHold
  <2> QED BY <2>1, <2>2
<1>13. WaitingWait'
  BY <1>1, <1>2, <1>5, <1>6, <1>10 DEF Kin, WaitingWait
<1>14. QueueKept'
  <2>1. \A x \in Docs : docs'[x].saving = IF x = live THEN Append(docs[x].saving, act)
                                          ELSE docs[x].saving
    BY <1>1, <1>2, <1>4 DEF Shaped
  <2> QED BY <1>1, <1>3, <1>5, <1>6, <2>1, QueueGrows DEF Kin
<1> QED BY <1>7, <1>8, <1>11, <1>12, <1>13, <1>14 DEF DocInv

-----------------------------------------------------------------------------
(* Nobody holds a document that is being read, and nobody waits for one    *)
(* that was.                                                               *)
LEMMA NobodyCounted ==
    ASSUME Kin, live = Nil \/ docs[live].at = "building"
    PROVE  \A r \in Readers : ~ Counted(r)
BY DEF Kin, CountedHold

LEMMA NobodyWaits ==
    ASSUME Kin, live = Nil \/ docs[live].at = "open"
    PROVE  \A r \in Readers : at[r] \notin {"building", "joining"}
BY DEF Kin, WaitingWait

(* A reader leaves, and the queues stay.                                   *)
LEMMA QueueStays ==
    ASSUME QueueKept, NEW r \in Readers, at[r] \notin {"leaving", "flushing"},
           \A d \in Docs : docs'[d].saving \in {docs[d].saving, <<>>},
           \A x \in Readers \ {r} : at'[x] = at[x] /\ of'[x] = of[x]
    PROVE  QueueKept'
<1> SUFFICES ASSUME NEW x \in Docs, NEW i \in DOMAIN docs'[x].saving,
                    docs'[x].saving[i].who \in Readers
    PROVE /\ at'[docs'[x].saving[i].who] \in {"leaving", "flushing"}
          /\ of'[docs'[x].saving[i].who] = x
          /\ \A j \in DOMAIN docs'[x].saving :
                docs'[x].saving[j].who = docs'[x].saving[i].who => j = i
  BY DEF QueueKept
<1>1. docs'[x].saving = docs[x].saving
  OBVIOUS
<1> QED BY <1>1 DEF QueueKept

LEMMA LeaveKeeps ==
    ASSUME DocInv, ~ ousted', NEW r \in Readers, Leave(r) PROVE DocInv'
<1>1. /\ Kin /\ Shaped /\ at[r] = "flushed" /\ of[r] \in Docs /\ docs[of[r]] \in DocRows
      /\ ~ Counted(r) /\ live \in Docs \cup {Nil} /\ docs \in [Docs -> DocRows]
      /\ at \in [Readers -> Places] /\ of \in [Readers -> Docs \cup {Nil}]
      /\ UNCHANGED <<row, mine, word, by, bytes, named, fails>>
  BY DEF DocInv, Leave, Leaves, Kin, Shaped, PlacesKept, Counted, Typing, Sealing
<1>2. /\ at' = [at EXCEPT ![r] = "left"] /\ of' = [of EXCEPT ![r] = Nil]
  BY DEF Leave, Dropped, Goto
<1>3. at'[r] = "left" /\ of'[r] = Nil /\ \A x \in Readers \ {r} : at'[x] = at[x] /\ of'[x] = of[x]
  BY <1>1, <1>2
<1>4. PlacesKept'
  BY <1>1, <1>3 DEF Kin, PlacesKept, Everywhere, Typing
<1>5. ASSUME NEW x \in Readers PROVE Counted(x)' <=> Counted(x)
  <2>1. CASE x = r
    BY <1>1, <1>3, <2>1 DEF Counted, Typing, Sealing
  <2>2. CASE x # r
    BY <1>1, <1>3, <2>2 DEF Counted
  <2> QED BY <2>1, <2>2
<1>8. ousted' \in BOOLEAN
  BY DEF DocInv, Shaped, Leave
<1>6. CASE docs[of[r]].readers > 0 /\ UNCHANGED <<accepts, docs, live, fate>>
  <2>1. Shaped'
    BY <1>1, <1>2, <1>6, <1>8 DEF Shaped, Places, Everywhere
  <2>2. OneLive' /\ ReadersCounted'
    BY <1>1, <1>5, <1>6, SameReaders DEF Kin
  <2>3. CountedHold' /\ WaitingWait'
    BY <1>1, <1>3, <1>5, <1>6 DEF Kin, CountedHold, WaitingWait
  <2>4. QueueKept'
    BY <1>1, <1>3, <1>6, QueueStays DEF Kin
  <2> QED BY <1>4, <2>1, <2>2, <2>3, <2>4 DEF DocInv
<1>7. CASE /\ docs[of[r]].readers <= 0 /\ Dropped(r, of[r], docs[of[r]])
           /\ live \in {Nil, of[r]}
  <2> DEFINE d == of[r]
             new == [docs[d] EXCEPT !.at = "gone"]
  <2>1. /\ live' = Nil /\ docs' = [docs EXCEPT ![d] = new]
        /\ fate' \in [Words -> Fates] /\ accepts' \subseteq accepts
    BY <1>1, <1>7, UnstoredFates DEF Dropped, Change, Shaped, Fates
  <2>2. new \in DocRows /\ new.readers = docs[d].readers /\ new.saving = docs[d].saving
        /\ new.at = "gone"
    BY <1>1 DEF DocRows, DocFields
  <2>3. live \in {d, Nil}
    BY <1>7
  <2>4. \A x \in Readers : ~ Counted(x) /\ at[x] \notin {"building", "joining"}
    <3>1. CASE live = Nil
      BY <1>1, <3>1, NobodyCounted, NobodyWaits
    <3>2. CASE live = d
      <4>1. docs[live].at = "open"
        BY <1>1, <1>7, <3>2, DocsAreNumbers DEF Kin, OneLive, ReadersCounted
      <4>2. Cardinality(Crowd) = 0
        BY <1>1, <1>7, <3>2, <4>1, DocsAreNumbers, ReadersFinite
           DEF Kin, ReadersCounted, Crowd
      <4>3. Crowd = {}
        BY <4>2, ReadersFinite, FS_EmptySet DEF Crowd
      <4> QED BY <1>1, <4>1, <4>3, NobodyWaits DEF Crowd
    <3> QED BY <2>3, <3>1, <3>2
  <2> HIDE DEF new
  <2>5. docs'[d] = new /\ \A x \in Docs \ {d} : docs'[x] = docs[x]
    BY <1>1, <2>1
  <2>6. Shaped'
    BY <1>1, <1>2, <1>8, <2>1, <2>2 DEF Shaped, Places, Everywhere
  <2>7. OneLive'
    BY <1>1, <2>1, <2>2, <2>3, <2>5 DEF Kin, OneLive
  <2>8. ReadersCounted'
    BY <1>1, <2>1, <2>2, <2>5 DEF Kin, ReadersCounted
  <2>9. CountedHold' /\ WaitingWait'
    BY <1>3, <1>5, <2>4 DEF CountedHold, WaitingWait
  <2>10. QueueKept'
    BY <1>1, <1>3, <2>2, <2>5, QueueStays DEF Kin
  <2> QED BY <1>4, <2>6, <2>7, <2>8, <2>9, <2>10 DEF DocInv
<1> QED BY <1>6, <1>7 DEF Leave

LEMMA ReleaseKeeps == ASSUME DocInv, NEW r \in Readers, Release(r) PROVE DocInv'
<1>1. /\ Kin /\ Shaped /\ Counted(r) /\ live \in Docs /\ live # Nil /\ docs[live] \in DocRows
      /\ docs[live].at = "open" /\ docs[live].readers = Cardinality(Crowd)
      /\ at[r] \in {"in", "settled"} /\ (r \in Sends => mine[r] = Nil)
      /\ docs \in [Docs -> DocRows]
      /\ at \in [Readers -> Places] /\ of \in [Readers -> Docs \cup {Nil}]
      /\ UNCHANGED <<row, mine, word, by, bytes, named, fails, ousted>>
  <2>1. at[r] \in {"in", "settled"} /\ Counted(r)
    BY DEF Release, Counted
  <2>2. r \in Sends => mine[r] = Nil
    BY <2>1, ConnsAreReaders DEF Release, DocInv, PlacesKept
  <2> QED BY <2>1, <2>2
          DEF DocInv, Release, Kin, Shaped, CountedHold, ReadersCounted
<1> DEFINE less == [docs[live] EXCEPT !.readers = @ - 1]
<1>2. /\ less \in DocRows /\ less.at = "open" /\ less.readers = docs[live].readers - 1
      /\ less.saving = docs[live].saving /\ less.dirty = docs[live].dirty
  <2>1. docs[live].readers - 1 \in Int
    BY <1>1 DEF DocRows, DocFields
  <2>2. less = [docs[live] EXCEPT !.readers = docs[live].readers - 1]
    BY <1>1 DEF DocRows, DocFields
  <2>3. less \in DocFields
    BY <1>1, <2>1, <2>2 DEF DocRows, DocFields
  <2>4. /\ less.at = "open" /\ less.readers = docs[live].readers - 1
        /\ less.saving = docs[live].saving /\ less.dirty = docs[live].dirty
        /\ less.store = docs[live].store
    BY <1>1, <2>1, <2>2 DEF DocRows, DocFields
  <2> QED BY <1>1, <2>3, <2>4 DEF DocRows
<1>3. /\ Cardinality(Crowd \ {r}) = Cardinality(Crowd) - 1
      /\ Cardinality(Crowd) \in 0..Cardinality(Readers) /\ IsFiniteSet(Crowd \ {r})
      /\ Cardinality(Crowd \ {r}) \in Nat /\ Cardinality(Readers) \in Nat
  <2>1. IsFiniteSet(Crowd) /\ Cardinality(Crowd) \in 0..Cardinality(Readers)
    BY ReadersFinite DEF Crowd
  <2>2. r \in Crowd
    BY <1>1 DEF Crowd
  <2> QED BY <2>1, <2>2, FS_RemoveElement, FS_CardinalityType, FS_Subset, ReadersFinite
<1> HIDE DEF less
<1>4. \A x \in Readers : at[x] \notin {"building", "joining"}
  BY <1>1, NobodyWaits
<1>5. ASSUME at'[r] \in {"left", "leaving"}, at'[r] = "leaving" => of'[r] = live,
             \A x \in Readers \ {r} : at'[x] = at[x] /\ of'[x] = of[x]
      PROVE  /\ PlacesKept'
             /\ \A x \in Readers : Counted(x)' <=> Counted(x) /\ x # r
             /\ WaitingWait'
  <2>1. PlacesKept'
    BY <1>1, <1>5 DEF Kin, PlacesKept, Everywhere, Typing
  <2>2. ASSUME NEW x \in Readers PROVE Counted(x)' <=> Counted(x) /\ x # r
    <3>1. CASE x = r
      BY <1>1, <1>5, <3>1 DEF Counted, Typing, Sealing
    <3>2. CASE x # r
      BY <1>1, <1>5, <3>2 DEF Counted
    <3> QED BY <3>1, <3>2
  <2>3. WaitingWait'
    BY <1>4, <1>5 DEF WaitingWait
  <2> QED BY <2>1, <2>2, <2>3
<1>6. ASSUME \A x \in Readers : Counted(x)' <=> Counted(x) /\ x # r,
             live' = live, NEW doc \in DocRows, docs' = [docs EXCEPT ![live] = doc],
             doc.at = "open", doc.readers = docs[live].readers - 1,
             \A x \in Readers \ {r} : at'[x] = at[x] /\ of'[x] = of[x]
      PROVE  OneLive' /\ ReadersCounted' /\ CountedHold'
  <2>1. docs'[live] = doc /\ \A x \in Docs \ {live} : docs'[x] = docs[x]
    BY <1>1, <1>6
  <2>2. OneLive'
    BY <1>1, <1>6, <2>1 DEF Kin, OneLive
  <2>3. Crowd' = Crowd \ {r}
    BY <1>6 DEF Crowd
  <2>4. ReadersCounted'
    BY <1>1, <1>3, <1>6, <2>1, <2>3 DEF Kin, ReadersCounted
  <2>5. CountedHold'
    BY <1>1, <1>6, <2>1 DEF Kin, CountedHold
  <2> QED BY <2>2, <2>4, <2>5
<1>7. CASE /\ less.readers > 0
           /\ Change(live, less) /\ Goto(r, "left", Nil)
           /\ UNCHANGED <<accepts, live, fate>>
  <2>1. /\ docs' = [docs EXCEPT ![live] = less] /\ at'[r] = "left"
        /\ \A x \in Readers \ {r} : at'[x] = at[x] /\ of'[x] = of[x]
    BY <1>1, <1>7 DEF Change, Goto
  <2>2. Shaped'
    BY <1>1, <1>2, <1>7 DEF Shaped, Places, Everywhere, Change, Goto
  <2>3. QueueKept'
    <3>1. \A d \in Docs : docs'[d].saving \in {docs[d].saving, <<>>}
      BY <1>1, <1>2, <2>1
    <3> QED BY <1>1, <2>1, <3>1, QueueStays DEF Kin
  <2>4. PlacesKept' /\ WaitingWait' /\ \A x \in Readers : Counted(x)' <=> Counted(x) /\ x # r
    BY <1>5, <2>1
  <2>5. OneLive' /\ ReadersCounted' /\ CountedHold'
    BY <1>2, <1>6, <1>7, <2>1, <2>4
  <2> QED BY <2>2, <2>3, <2>4, <2>5 DEF DocInv
<1>8. CASE /\ less.readers <= 0 /\ less.dirty
           /\ Change(live, Flushing([less EXCEPT !.timer = FALSE], r))
           /\ Goto(r, "leaving", live)
           /\ UNCHANGED <<accepts, live, fate>>
  <2> DEFINE act == [who |-> r, store |-> TRUE]
             new == Flushing([less EXCEPT !.timer = FALSE], r)
  <2>0. act \in Acts /\ act.who = r
    BY DEF Acts
  <2>1. /\ docs' = [docs EXCEPT ![live] = new] /\ at'[r] = "leaving" /\ of'[r] = live
        /\ at' = [at EXCEPT ![r] = "leaving"] /\ of' = [of EXCEPT ![r] = live]
        /\ \A x \in Readers \ {r} : at'[x] = at[x] /\ of'[x] = of[x]
    BY <1>1, <1>8 DEF Change, Goto
  <2>2. /\ new \in DocRows /\ new.at = "open" /\ new.readers = docs[live].readers - 1
        /\ new.saving = Append(docs[live].saving, act)
    <3>1. less.saving \in Seq(Acts)
      BY <1>2 DEF DocRows, DocFields
    <3>2. Append(less.saving, act) \in Seq(Acts) /\ Append(less.saving, act) # <<>>
      BY <3>1, <2>0
    <3>3. new = [less EXCEPT !.timer = FALSE, !.saving = Append(@, act)]
      BY <1>2 DEF Flushing, DocRows, DocFields
    <3> HIDE DEF new, act
    <3> QED BY <1>2, <3>2, <3>3 DEF DocRows, DocFields
  <2> HIDE DEF new, act
  <2>3. Shaped'
    BY <1>1, <2>1, <2>2, <1>8 DEF Shaped, Places, Everywhere
  <2>4. QueueKept'
    <3>1. \A x \in Docs : docs'[x].saving = IF x = live THEN Append(docs[x].saving, act)
                                            ELSE docs[x].saving
      BY <1>1, <2>1, <2>2
    <3> QED BY <1>1, <2>0, <2>1, <3>1, QueueGrows DEF Kin
  <2>5. PlacesKept' /\ WaitingWait' /\ \A x \in Readers : Counted(x)' <=> Counted(x) /\ x # r
    BY <1>5, <2>1
  <2>6. OneLive' /\ ReadersCounted' /\ CountedHold'
    BY <1>6, <1>8, <2>1, <2>2, <2>5
  <2> QED BY <2>3, <2>4, <2>5, <2>6 DEF DocInv
<1>9. CASE /\ less.readers <= 0 /\ ~less.dirty
           /\ Dropped(r, live, [less EXCEPT !.timer = FALSE])
  <2> DEFINE new == [less EXCEPT !.timer = FALSE, !.at = "gone"]
  <2>1. /\ docs' = [docs EXCEPT ![live] = new] /\ at'[r] = "left"
        /\ at' = [at EXCEPT ![r] = "left"] /\ of' = [of EXCEPT ![r] = Nil]
        /\ \A x \in Readers \ {r} : at'[x] = at[x] /\ of'[x] = of[x]
        /\ live' = Nil
    <3>1. [[less EXCEPT !.timer = FALSE] EXCEPT !.at = "gone"] = new
      BY <1>2 DEF DocRows, DocFields
    <3> QED BY <3>1, <1>1, <1>9 DEF Dropped, Change, Goto
  <2>2. fate' \in [Words -> Fates] /\ accepts' \subseteq accepts
    BY <1>1, <1>9, UnstoredFates DEF Dropped, Shaped, Fates
  <2>3. /\ new \in DocRows /\ new.at = "gone" /\ new.saving = docs[live].saving
        /\ new.readers = docs[live].readers - 1
    BY <1>2 DEF DocRows, DocFields
  <2> HIDE DEF new
  <2>4. docs'[live] = new /\ \A x \in Docs \ {live} : docs'[x] = docs[x]
    BY <1>1, <2>1
  <2>5. PlacesKept' /\ WaitingWait' /\ \A x \in Readers : Counted(x)' <=> Counted(x) /\ x # r
    BY <1>5, <2>1
  <2>6. \A x \in Readers : ~ Counted(x)'
    <3>1. Cardinality(Crowd \ {r}) = 0
      BY <1>1, <1>2, <1>3, <1>9
    <3>2. Crowd \ {r} = {}
      BY <1>3, <3>1, FS_EmptySet
    <3> QED BY <2>5, <3>2 DEF Crowd
  <2>7. Shaped'
    BY <1>1, <2>1, <2>2, <2>3 DEF Shaped, Places, Everywhere
  <2>8. OneLive'
    BY <1>1, <2>1, <2>3, <2>4 DEF Kin, OneLive
  <2>9. ReadersCounted'
    BY <1>1, <1>3, <2>1, <2>3, <2>4 DEF Kin, ReadersCounted
  <2>10. QueueKept'
    <3>1. \A d \in Docs : docs'[d].saving \in {docs[d].saving, <<>>}
      BY <2>3, <2>4
    <3> QED BY <1>1, <2>1, <3>1, QueueStays DEF Kin
  <2>11. CountedHold'
    BY <2>6 DEF CountedHold
  <2> QED BY <2>5, <2>7, <2>8, <2>9, <2>10, <2>11 DEF DocInv
<1>10. docs[live].at = "open" /\ live # Nil
  BY <1>1
<1> QED BY <1>7, <1>8, <1>9, <1>10 DEF Release, less

LEMMA OpenKeeps == ASSUME DocInv, NEW r \in Readers, Open(r) PROVE DocInv'
<1>1. /\ Kin /\ Shaped /\ at[r] = "away" /\ of[r] = Nil /\ live \in Docs \cup {Nil}
      /\ docs \in [Docs -> DocRows]
      /\ at \in [Readers -> Places] /\ of \in [Readers -> Docs \cup {Nil}]
      /\ mine \in [Readers -> Docs \cup {Nil}]
      /\ UNCHANGED <<row, accepts, word, by, bytes, named, fails, ousted>>
  BY DEF DocInv, Open, Kin, Shaped, PlacesKept
<1>2. ~ Counted(r)
  BY <1>1 DEF Counted, Typing, Sealing
<1>3. CASE /\ live = Nil
           /\ \E d \in Docs :
                /\ docs[d].at = "unbuilt" /\ \A c \in 1..(d - 1) : docs[c].at # "unbuilt"
                /\ live' = d
                /\ Change(d, Building)
                /\ Goto(r, "building", d)
                /\ fate' = AtRisk(d)
           /\ UNCHANGED mine
  <2>1. PICK d \in Docs : /\ live' = d /\ docs' = [docs EXCEPT ![d] = Building]
                          /\ at' = [at EXCEPT ![r] = "building"] /\ of' = [of EXCEPT ![r] = d]
                          /\ fate' = AtRisk(d)
    BY <1>3 DEF Change, Goto
  <2>2. /\ Building \in DocRows /\ Building.at = "building" /\ Building.readers = 1
        /\ Building.saving = <<>>
    <3>1. <<>> \in Seq(Acts)
      OBVIOUS
    <3> QED BY <3>1 DEF Building, DocRows, DocFields, Stores, NoStore
  <2>3. docs'[d] = Building /\ \A x \in Docs \ {d} : docs'[x] = docs[x]
    BY <1>1, <2>1
  <2>4. /\ at'[r] = "building" /\ of'[r] = d
        /\ \A x \in Readers \ {r} : at'[x] = at[x] /\ of'[x] = of[x]
    BY <1>1, <2>1
  <2>5. Shaped'
    <3>1. fate' \in [Words -> Fates]
      BY <1>1, <2>1 DEF Shaped, Fates, AtRisk
    <3> QED BY <1>1, <1>3, <2>1, <2>2, <3>1 DEF Shaped, Places, Everywhere
  <2>6. PlacesKept'
    BY <1>1, <1>3, <2>4 DEF Kin, PlacesKept, Everywhere, Typing
  <2>7. OneLive'
    BY <1>1, <1>3, <2>1, <2>2, <2>3, DocsAreNumbers DEF Kin, OneLive
  <2>8. \A x \in Readers : ~ Counted(x)'
    <3>1. ~ Counted(r)'
      BY <2>4 DEF Counted, Typing, Sealing
    <3>2. \A x \in Readers \ {r} : ~ Counted(x)'
      BY <1>1, <1>3, <2>4, NobodyCounted DEF Counted
    <3> QED BY <3>1, <3>2
  <2>9. CountedHold'
    BY <2>8 DEF CountedHold
  <2>10. WaitingWait'
    <3>1. \A x \in Readers \ {r} : at'[x] \notin {"building", "joining"}
      BY <1>1, <1>3, <2>4, NobodyWaits
    <3> QED BY <3>1, <2>1, <2>2, <2>3, <2>4, DocsAreNumbers DEF WaitingWait
  <2>11. ReadersCounted'
    <3>1. 1 \in 0..Cardinality(Readers)
      <4>1. Cardinality({r}) = 1 /\ {r} \in SUBSET Readers
        BY FS_Singleton
      <4> QED BY <4>1, ReadersFinite
    <3> QED BY <1>1, <2>1, <2>2, <2>3, <3>1 DEF Kin, ReadersCounted
  <2>12. QueueKept'
    <3>1. \A x \in Docs : docs'[x].saving \in {docs[x].saving, <<>>}
      BY <2>2, <2>3
    <3> QED BY <1>1, <2>4, <3>1, QueueStays DEF Kin
  <2> QED BY <2>5, <2>6, <2>7, <2>9, <2>10, <2>11, <2>12 DEF DocInv
<1>4. CASE /\ live # Nil /\ docs[live].at = "building"
           /\ Goto(r, "joining", live)
           /\ UNCHANGED <<live, docs, mine, fate>>
  <2>1. /\ at' = [at EXCEPT ![r] = "joining"] /\ of' = [of EXCEPT ![r] = live]
        /\ at'[r] = "joining" /\ of'[r] = live /\ live \in Docs
        /\ \A x \in Readers \ {r} : at'[x] = at[x] /\ of'[x] = of[x]
    BY <1>1, <1>4 DEF Goto
  <2>2. Shaped'
    BY <1>1, <1>4, <2>1 DEF Shaped, Places, Everywhere
  <2>3. PlacesKept'
    BY <1>1, <1>4, <2>1 DEF Kin, PlacesKept, Everywhere, Typing
  <2>4. ASSUME NEW x \in Readers PROVE Counted(x)' <=> Counted(x)
    <3>1. CASE x = r
      BY <1>2, <2>1, <3>1 DEF Counted, Typing, Sealing
    <3>2. CASE x # r
      BY <1>4, <2>1, <3>2 DEF Counted
    <3> QED BY <3>1, <3>2
  <2>5. OneLive' /\ ReadersCounted'
    BY <1>1, <1>4, <2>4, SameReaders DEF Kin
  <2>6. CountedHold' /\ WaitingWait'
    BY <1>1, <1>2, <1>4, <2>1, <2>4 DEF Kin, CountedHold, WaitingWait
  <2>7. QueueKept'
    BY <1>1, <1>4, <2>1, QueueStays DEF Kin
  <2> QED BY <2>2, <2>3, <2>5, <2>6, <2>7 DEF DocInv
<1>5. CASE /\ live # Nil /\ docs[live].at = "open"
           /\ Change(live, [docs[live] EXCEPT !.readers = @ + 1])
           /\ mine' = [mine EXCEPT ![r] = live]
           /\ at' = [at EXCEPT ![r] = Inside(r)]
           /\ UNCHANGED <<live, of, fate>>
  <2> DEFINE new == [docs[live] EXCEPT !.readers = @ + 1]
  <2>1. /\ docs' = [docs EXCEPT ![live] = new] /\ live \in Docs /\ docs[live] \in DocRows
        /\ at'[r] = Inside(r) /\ mine'[r] = live
        /\ \A x \in Readers \ {r} : at'[x] = at[x] /\ mine'[x] = mine[x]
    BY <1>1, <1>5 DEF Change
  <2>2. /\ new \in DocRows /\ new.at = "open" /\ new.readers = docs[live].readers + 1
        /\ new.saving = docs[live].saving
    <3>1. docs[live].readers + 1 \in Int
      BY <2>1 DEF DocRows, DocFields
    <3>2. new = [docs[live] EXCEPT !.readers = docs[live].readers + 1]
      BY <2>1 DEF DocRows, DocFields
    <3>3. new \in DocFields
      BY <2>1, <3>1, <3>2 DEF DocRows, DocFields
    <3>4. /\ new.at = "open" /\ new.readers = docs[live].readers + 1
          /\ new.saving = docs[live].saving /\ new.store = docs[live].store
      BY <1>5, <2>1, <3>1, <3>2 DEF DocRows, DocFields
    <3> QED BY <2>1, <3>3, <3>4 DEF DocRows
  <2> HIDE DEF new
  <2>3. docs'[live] = new /\ \A x \in Docs \ {live} : docs'[x] = docs[x]
    BY <1>1, <2>1
  <2>4. Inside(r) \in (IF r \in Conns THEN {"in"} ELSE {"sealing"})
    BY DEF Inside
  <2>5. Shaped'
    BY <1>1, <1>5, <2>1, <2>2, <2>4 DEF Shaped, Places, Sealing
  <2>6. PlacesKept'
    BY <1>1, <1>5, <2>1, <2>4 DEF Kin, PlacesKept, Everywhere, Typing, Sealing
  <2>7. ASSUME NEW x \in Readers PROVE Counted(x)' <=> Counted(x) \/ x = r
    <3>1. CASE x = r
      BY <2>1, <2>4, <3>1 DEF Counted, Typing, Sealing
    <3>2. CASE x # r
      BY <2>1, <3>2 DEF Counted
    <3> QED BY <3>1, <3>2
  <2>8. OneLive'
    BY <1>1, <1>5, <2>1, <2>2, <2>3 DEF Kin, OneLive
  <2>9. ReadersCounted'
    <3>1. Crowd' = Crowd \cup {r} /\ r \notin Crowd /\ IsFiniteSet(Crowd)
      BY <1>2, <2>7, ReadersFinite DEF Crowd
    <3>2. Cardinality(Crowd') = Cardinality(Crowd) + 1
      BY <3>1, FS_AddElement
    <3>3. Cardinality(Crowd') \in 0..Cardinality(Readers)
      <4>1. Crowd' \in SUBSET Readers
        BY <3>1 DEF Crowd
      <4> QED BY <4>1, ReadersFinite
    <3> QED BY <1>1, <1>5, <2>1, <2>2, <2>3, <3>2, <3>3 DEF Kin, ReadersCounted
  <2>10. CountedHold'
    <3> SUFFICES ASSUME NEW x \in Readers, Counted(x)'
        PROVE /\ live' # Nil /\ docs'[live'].at = "open"
              /\ of'[x] \in {live', Nil}
              /\ at'[x] # "settled" => mine'[x] = live'
      BY DEF CountedHold
    <3>1. CASE x = r
      BY <1>1, <1>5, <2>1, <2>2, <2>3, <3>1
    <3>2. CASE x # r
      BY <1>1, <1>5, <2>1, <2>2, <2>3, <2>7, <3>2 DEF Kin, CountedHold
    <3> QED BY <3>1, <3>2
  <2>11. WaitingWait'
    <3>1. \A x \in Readers : at'[x] \notin {"building", "joining"}
      BY <1>1, <1>5, <2>1, <2>4, NobodyWaits
    <3> QED BY <3>1 DEF WaitingWait
  <2>12. QueueKept'
    <3>1. \A x \in Docs : docs'[x].saving \in {docs[x].saving, <<>>}
      BY <2>2, <2>3
    <3> QED BY <1>1, <1>5, <2>1, <3>1, QueueStays DEF Kin
  <2> QED BY <2>5, <2>6, <2>8, <2>9, <2>10, <2>11, <2>12 DEF DocInv
<1> QED BY <1>3, <1>4, <1>5 DEF Open

(* The document being read is the one in the map, and whoever waits waits  *)
(* for it.                                                                 *)
LEMMA BeingRead ==
    ASSUME DocInv, NEW d \in Docs, docs[d].at = "building"
    PROVE  /\ Kin /\ Shaped /\ live = d /\ live # Nil /\ docs[d] \in DocRows
           /\ docs \in [Docs -> DocRows]
           /\ \A r \in Readers : ~ Counted(r)
           /\ Waiting(d) = {r \in Readers : at[r] \in {"building", "joining"}}
           /\ IsFiniteSet(Waiting(d)) /\ Cardinality(Waiting(d)) \in 0..Cardinality(Readers)
<1>1. Kin /\ Shaped /\ live = d /\ live # Nil /\ docs[d] \in DocRows /\ docs \in [Docs -> DocRows]
  BY DocsAreNumbers DEF DocInv, Kin, Shaped, OneLive
<1>2. \A r \in Readers : ~ Counted(r)
  BY <1>1, NobodyCounted
<1>3. Waiting(d) = {r \in Readers : at[r] \in {"building", "joining"}}
  BY <1>1 DEF Waiting, Kin, WaitingWait
<1>4. Waiting(d) \in SUBSET Readers
  BY DEF Waiting
<1> QED BY <1>1, <1>2, <1>3, <1>4, ReadersFinite

(* A queue holds nobody who waits for a document to be read.               *)
LEMMA QueueWithoutWaiting ==
    ASSUME QueueKept, \A d \in Docs : docs'[d].saving = docs[d].saving,
           \A r \in Readers : at[r] \notin {"building", "joining"}
                                 => at'[r] = at[r] /\ of'[r] = of[r]
    PROVE  QueueKept'
<1> SUFFICES ASSUME NEW x \in Docs, NEW i \in DOMAIN docs'[x].saving,
                    docs'[x].saving[i].who \in Readers
    PROVE /\ at'[docs'[x].saving[i].who] \in {"leaving", "flushing"}
          /\ of'[docs'[x].saving[i].who] = x
          /\ \A j \in DOMAIN docs'[x].saving :
                docs'[x].saving[j].who = docs'[x].saving[i].who => j = i
  BY DEF QueueKept
<1>1. docs'[x].saving = docs[x].saving
  OBVIOUS
<1> QED BY <1>1 DEF QueueKept

LEMMA BuildKeeps == ASSUME DocInv, NEW d \in Docs, Build(d) PROVE DocInv'
<1> DEFINE new == [docs[d] EXCEPT !.at = "open", !.words = row.words, !.sealed = row.sent,
                                  !.readers = Cardinality(Waiting(d))]
<1>1. /\ docs[d].at = "building" /\ docs' = [docs EXCEPT ![d] = new]
      /\ at' = [r \in Readers |-> IF r \in Waiting(d) THEN Inside(r) ELSE at[r]]
      /\ of' = [r \in Readers |-> IF r \in Waiting(d) THEN Nil ELSE of[r]]
      /\ mine' = [r \in Readers |-> IF r \in Waiting(d) THEN d ELSE mine[r]]
      /\ UNCHANGED <<row, accepts, live, word, by, fate, bytes, named, fails, ousted>>
  BY DEF Build, Change
<1>2. /\ Kin /\ Shaped /\ live = d /\ live # Nil /\ docs[d] \in DocRows
      /\ docs \in [Docs -> DocRows]
      /\ \A r \in Readers : ~ Counted(r)
      /\ Waiting(d) = {r \in Readers : at[r] \in {"building", "joining"}}
      /\ IsFiniteSet(Waiting(d)) /\ Cardinality(Waiting(d)) \in 0..Cardinality(Readers)
  BY <1>1, BeingRead
<1>3. /\ new \in DocRows /\ new.at = "open" /\ new.readers = Cardinality(Waiting(d))
      /\ new.saving = docs[d].saving
  <2>1. /\ row.words \in SUBSET Words /\ row.sent \in BOOLEAN
        /\ Cardinality(Waiting(d)) \in Int
    BY <1>2, ReadersFinite DEF Shaped
  <2> DEFINE n == Cardinality(Waiting(d))
             m == [docs[d] EXCEPT !.at = "open", !.words = row.words, !.sealed = row.sent,
                                  !.readers = n]
  <2> HIDE DEF n
  <2>2. n \in Int
    BY <2>1 DEF n
  <2>3. /\ m \in DocRows /\ m.at = "open" /\ m.readers = n /\ m.saving = docs[d].saving
    BY <1>2, <2>1, <2>2 DEF DocRows, DocFields
  <2> QED BY <2>3 DEF n
<1> HIDE DEF new
<1>4. docs'[d] = new /\ \A x \in Docs \ {d} : docs'[x] = docs[x]
  BY <1>1, <1>2
<1>5. ASSUME NEW r \in Readers
      PROVE  /\ r \in Waiting(d) => /\ at'[r] = Inside(r) /\ of'[r] = Nil /\ mine'[r] = d
             /\ r \notin Waiting(d) => at'[r] = at[r] /\ of'[r] = of[r] /\ mine'[r] = mine[r]
             /\ Inside(r) \in (IF r \in Conns THEN {"in"} ELSE {"sealing"})
  BY <1>1 DEF Inside
<1>6. Shaped'
  <2>1. at' \in [Readers -> Places]
    BY <1>1, <1>2, <1>5 DEF Shaped, Places, Sealing
  <2>2. of' \in [Readers -> Docs \cup {Nil}] /\ mine' \in [Readers -> Docs \cup {Nil}]
    BY <1>1, <1>2 DEF Shaped
  <2> QED BY <1>1, <1>2, <1>3, <2>1, <2>2 DEF Shaped
<1>7. PlacesKept'
  <2> SUFFICES ASSUME NEW x \in Readers
      PROVE /\ at'[x] \in Everywhere \cup (IF x \in Conns THEN {"in"} \cup Typing
                                      ELSE Sealing \cup {"settled"})
            /\ at'[x] \in Typing => word'[x] \in Words
            /\ at'[x] \in {"building", "joining", "accepting", "accepted", "held", "leaving",
                      "flushing", "flushed", "deciding", "stamped", "refused"}
                 => of'[x] \in Docs
            /\ x \in Sends /\ at'[x] \in {"settled", "leaving"} => mine'[x] = Nil
            /\ at'[x] = "away" => of'[x] = Nil
    BY DEF PlacesKept
  <2>1. CASE x \in Waiting(d)
    BY <1>5, <2>1 DEF Typing, Sealing
  <2>2. CASE x \notin Waiting(d)
    BY <1>1, <1>2, <1>5, <2>2 DEF Kin, PlacesKept
  <2> QED BY <2>1, <2>2
<1>8. ASSUME NEW x \in Readers PROVE Counted(x)' <=> x \in Waiting(d)
  <2>1. CASE x \in Waiting(d)
    BY <1>5, <2>1 DEF Counted, Sealing
  <2>2. CASE x \notin Waiting(d)
    BY <1>2, <1>5, <2>2 DEF Counted
  <2> QED BY <2>1, <2>2
<1>9. OneLive'
  BY <1>1, <1>2, <1>3, <1>4 DEF Kin, OneLive
<1>10. ReadersCounted'
  <2>1. Crowd' = Waiting(d)
    BY <1>8 DEF Crowd, Waiting
  <2> QED BY <1>1, <1>2, <1>3, <1>4, <2>1 DEF Kin, ReadersCounted
<1>11. CountedHold'
  BY <1>1, <1>2, <1>3, <1>4, <1>5, <1>8 DEF CountedHold
<1>12. WaitingWait'
  BY <1>2, <1>5 DEF WaitingWait
<1>13. QueueKept'
  <2>1. \A x \in Docs : docs'[x].saving = docs[x].saving
    BY <1>3, <1>4
  <2> QED BY <1>2, <1>5, <2>1, QueueWithoutWaiting DEF Kin
<1> QED BY <1>6, <1>7, <1>9, <1>10, <1>11, <1>12, <1>13 DEF DocInv

LEMMA BuildFailsKeeps == ASSUME DocInv, NEW d \in Docs, BuildFails(d) PROVE DocInv'
<1> DEFINE new == [docs[d] EXCEPT !.at = "gone"]
<1>1. /\ docs[d].at = "building" /\ docs' = [docs EXCEPT ![d] = new]
      /\ live' = Nil /\ fails < MaxFails /\ fails' = fails + 1
      /\ at' = [r \in Readers |-> IF r \in Waiting(d) THEN "left" ELSE at[r]]
      /\ of' = [r \in Readers |-> IF r \in Waiting(d) THEN Nil ELSE of[r]]
      /\ UNCHANGED <<row, accepts, mine, word, by, fate, bytes, named, ousted>>
  BY DEF BuildFails, Change
<1>2. /\ Kin /\ Shaped /\ live = d /\ live # Nil /\ docs[d] \in DocRows
      /\ docs \in [Docs -> DocRows]
      /\ \A r \in Readers : ~ Counted(r)
      /\ Waiting(d) = {r \in Readers : at[r] \in {"building", "joining"}}
  BY <1>1, BeingRead
<1>3. /\ new \in DocRows /\ new.at = "gone" /\ new.readers = docs[d].readers
      /\ new.saving = docs[d].saving
  BY <1>2 DEF DocRows, DocFields
<1> HIDE DEF new
<1>4. docs'[d] = new /\ \A x \in Docs \ {d} : docs'[x] = docs[x]
  BY <1>1, <1>2
<1>5. ASSUME NEW r \in Readers
      PROVE  /\ r \in Waiting(d) => at'[r] = "left" /\ of'[r] = Nil
             /\ r \notin Waiting(d) => at'[r] = at[r] /\ of'[r] = of[r]
  BY <1>1
<1>6. Shaped'
  <2>1. at' \in [Readers -> Places]
    BY <1>1, <1>2 DEF Shaped, Places, Everywhere
  <2>2. of' \in [Readers -> Docs \cup {Nil}]
    BY <1>1, <1>2 DEF Shaped
  <2>3. fails' \in 0..MaxFails
    BY <1>1, <1>2, ProseAssumption DEF Shaped
  <2> QED BY <1>1, <1>2, <1>3, <2>1, <2>2, <2>3 DEF Shaped
<1>7. PlacesKept'
  <2> SUFFICES ASSUME NEW x \in Readers
      PROVE /\ at'[x] \in Everywhere \cup (IF x \in Conns THEN {"in"} \cup Typing
                                      ELSE Sealing \cup {"settled"})
            /\ at'[x] \in Typing => word'[x] \in Words
            /\ at'[x] \in {"building", "joining", "accepting", "accepted", "held", "leaving",
                      "flushing", "flushed", "deciding", "stamped", "refused"}
                 => of'[x] \in Docs
            /\ x \in Sends /\ at'[x] \in {"settled", "leaving"} => mine'[x] = Nil
            /\ at'[x] = "away" => of'[x] = Nil
    BY DEF PlacesKept
  <2>1. CASE x \in Waiting(d)
    BY <1>5, <2>1 DEF Typing, Everywhere
  <2>2. CASE x \notin Waiting(d)
    BY <1>1, <1>2, <1>5, <2>2 DEF Kin, PlacesKept
  <2> QED BY <2>1, <2>2
<1>8. ASSUME NEW x \in Readers PROVE ~ Counted(x)'
  <2>1. CASE x \in Waiting(d)
    BY <1>5, <2>1 DEF Counted, Sealing, Typing
  <2>2. CASE x \notin Waiting(d)
    BY <1>1, <1>2, <1>5, <2>2 DEF Counted
  <2> QED BY <2>1, <2>2
<1>9. OneLive'
  BY <1>1, <1>2, <1>3, <1>4 DEF Kin, OneLive
<1>10. ReadersCounted'
  BY <1>1, <1>2, <1>3, <1>4 DEF Kin, ReadersCounted
<1>11. CountedHold'
  BY <1>8 DEF CountedHold
<1>12. WaitingWait'
  BY <1>2, <1>5 DEF WaitingWait
<1>13. QueueKept'
  <2>1. \A x \in Docs : docs'[x].saving = docs[x].saving
    BY <1>3, <1>4
  <2> QED BY <1>2, <1>5, <2>1, QueueWithoutWaiting DEF Kin
<1> QED BY <1>6, <1>7, <1>9, <1>10, <1>11, <1>12, <1>13 DEF DocInv

-----------------------------------------------------------------------------
LEMMA UnbuiltDoc ==
    ASSUME NEW doc \in DocFields, NEW n \in Int
    PROVE  [doc EXCEPT !.at = "unbuilt", !.readers = n] \in DocFields
BY DEF DocFields

LEMMA DocInvInit == ProseInit => DocInv
<1> SUFFICES ASSUME ProseInit PROVE DocInv
  OBVIOUS
<1>1. Unbuilt \in DocRows /\ Unbuilt.at = "unbuilt" /\ Unbuilt.readers = 0
      /\ Unbuilt.saving = <<>>
  <2>1. <<>> \in Seq(Acts)
    OBVIOUS
  <2>2. NoStore \in Stores /\ NoStore.at = "none"
    BY DEF Stores, NoStore
  <2>3. Building.saving = <<>> /\ Building.store = NoStore
    BY DEF Building
  <2>4. Building \in DocFields
    BY <2>1, <2>2 DEF Building, DocFields
  <2>5. Unbuilt \in DocFields
    <3>1. [Building EXCEPT !.at = "unbuilt", !.readers = 0] \in DocFields
      <4> DEFINE z == 0
      <4>1. z \in Int
        OBVIOUS
      <4> HIDE DEF z
      <4>2. [Building EXCEPT !.at = "unbuilt", !.readers = z] \in DocFields
        BY <2>4, <4>1, UnbuiltDoc
      <4> QED BY <4>2 DEF z
    <3> QED BY <3>1 DEF Unbuilt
  <2>6. Unbuilt.at = "unbuilt" /\ Unbuilt.readers = 0 /\ Unbuilt.saving = <<>>
        /\ Unbuilt.store = NoStore
    BY DEF Unbuilt, Building
  <2> QED BY <2>2, <2>5, <2>6 DEF DocRows
<1>2. Shaped
  <2>1. /\ row \in [words : SUBSET Words, sent : BOOLEAN] /\ live \in Docs \cup {Nil}
        /\ bytes \in [Sends -> SUBSET Words]
        /\ accepts \subseteq [id : Words, writer : Writers] /\ named \subseteq Words
    BY DEF ProseInit
  <2>4. fails \in 0..MaxFails
    BY ProseAssumption DEF ProseInit
  <2>5. ousted \in BOOLEAN
    BY DEF ProseInit
  <2>2. docs \in [Docs -> DocRows] /\ at \in [Readers -> Places]
    BY <1>1 DEF ProseInit, Places, Everywhere
  <2>3. /\ mine \in [Readers -> Docs \cup {Nil}] /\ of \in [Readers -> Docs \cup {Nil}]
        /\ word \in [Readers -> Words \cup {Nil}] /\ by \in [Words -> Writers \cup {Nil}]
        /\ fate \in [Words -> Fates]
    BY DEF ProseInit, Fates
  <2> QED BY <2>1, <2>2, <2>3, <2>4, <2>5 DEF Shaped
<1>3. PlacesKept
  BY DEF ProseInit, PlacesKept, Everywhere, Typing
<1>4. OneLive
  BY <1>1 DEF ProseInit, OneLive
<1>5. CountedHold /\ WaitingWait
  BY DEF ProseInit, CountedHold, WaitingWait, Counted, Typing, Sealing
<1>6. ReadersCounted
  BY <1>1, ReadersFinite DEF ProseInit, ReadersCounted
<1>7. QueueKept
  BY <1>1 DEF ProseInit, QueueKept
<1> QED BY <1>2, <1>3, <1>4, <1>5, <1>6, <1>7 DEF DocInv

(* A leave that took another document out of the map is remembered.        *)
LEMMA OustedStays == ASSUME ousted, ProseNext PROVE ousted'
<1>1. ASSUME NEW r \in Readers, Leave(r) \/ Open(r) \/ Release(r) PROVE ousted'
  BY <1>1 DEF Leave, Open, Release
<1>2. ASSUME NEW c \in Conns,
             Type(c) \/ Apply(c) \/ Accept(c) \/ AcceptFails(c) \/ Accepted(c) \/ Resume(c)
      PROVE  ousted'
  BY <1>2 DEF Type, Apply, Accept, AcceptFails, Accepted, Resume, Taken
<1>3. ASSUME NEW s \in Sends, Sealed(s) \/ SealDoc(s) \/ Stamp(s) \/ Settle(s) PROVE ousted'
  BY <1>3 DEF Sealed, SealDoc, Stamp, Settle
<1>4. ASSUME NEW d \in Docs,
             \/ Build(d) \/ BuildFails(d) \/ Timer(d) \/ NothingToStore(d)
             \/ AskAccepted(d) \/ AskFails(d) \/ Name(d) \/ Encode(d) \/ Write(d)
             \/ WriteRefused(d) \/ WriteFails(d)
      PROVE  ousted'
  BY <1>4 DEF Build, BuildFails, Timer, NothingToStore, AskAccepted, AskFails, Name, Encode,
     Write, WriteRefused, WriteFails
<1> QED BY <1>1, <1>2, <1>3, <1>4 DEF ProseNext

LEMMA DocInvStep == DocInv /\ ~ ousted' /\ [ProseNext]_proseVars => DocInv'
<1> SUFFICES ASSUME DocInv, ~ ousted', [ProseNext]_proseVars PROVE DocInv'
  OBVIOUS
<1>1. ASSUME NEW r \in Readers, Leave(r) \/ Open(r) \/ Release(r) PROVE DocInv'
  BY <1>1, LeaveKeeps, OpenKeeps, ReleaseKeeps
<1>2. ASSUME NEW c \in Conns,
             Type(c) \/ Apply(c) \/ Accept(c) \/ AcceptFails(c) \/ Accepted(c) \/ Resume(c)
      PROVE  DocInv'
  BY <1>2, TypeKeeps, ApplyKeeps, AcceptKeeps, AcceptFailsKeeps, AcceptedKeeps, ResumeKeeps
<1>3. ASSUME NEW s \in Sends, Sealed(s) \/ SealDoc(s) \/ Stamp(s) \/ Settle(s) PROVE DocInv'
  BY <1>3, SealedKeeps, SealDocKeeps, StampKeeps, SettleKeeps
<1>4. ASSUME NEW d \in Docs,
             \/ Build(d) \/ BuildFails(d) \/ Timer(d) \/ NothingToStore(d)
             \/ AskAccepted(d) \/ AskFails(d) \/ Name(d) \/ Encode(d) \/ Write(d)
             \/ WriteRefused(d) \/ WriteFails(d)
      PROVE  DocInv'
  BY <1>4, BuildKeeps, BuildFailsKeeps, TimerKeeps, NothingToStoreKeeps, AskAcceptedKeeps,
     AskFailsKeeps, NameKeeps, EncodeKeeps, WriteKeeps, WriteRefusedKeeps, WriteFailsKeeps
<1>5. CASE UNCHANGED proseVars
  BY <1>5 DEF proseVars, DocInv, Shaped, PlacesKept, OneLive, CountedHold, WaitingWait,
     ReadersCounted, QueueKept, Counted, Crowd
<1> QED BY <1>1, <1>2, <1>3, <1>4, <1>5 DEF ProseNext

LEMMA DocInvShows == DocInv => DocumentsKept
<1> SUFFICES ASSUME DocInv PROVE DocumentsKept
  OBVIOUS
<1>1. ProseTypeOK
  BY DEF DocInv, Shaped, ReadersCounted, ProseTypeOK
<1>2. OneDocument
  BY ConnsAreReaders DEF DocInv, CountedHold, Counted, Typing, OneDocument
<1> QED BY <1>1, <1>2 DEF DocumentsKept

(* Everybody who has a record open has the one document of it, however     *)
(* many come and go while it is read and stored, until a leave that waited *)
(* for a store takes a document opened meanwhile out of the map            *)
(* (prose.service.ts open(), release()).                                   *)
THEOREM OneDocumentIsKept == ProseSpec => []DocumentsKept
<1>1. (ousted \/ DocInv) /\ [ProseNext]_proseVars => (ousted \/ DocInv)'
  BY DocInvStep, OustedStays DEF proseVars
<1>2. ousted \/ DocInv => DocumentsKept
  BY DocInvShows DEF DocumentsKept
<1> QED BY <1>1, <1>2, DocInvInit, PTL DEF ProseSpec

-----------------------------------------------------------------------------
(* Words.  A store of a document that left the map may overlap a document  *)
(* opened since, so what is kept is said of each word taken: either it is  *)
(* in the row, and in every document that could still replace the row; or  *)
(* one document has it to store and no other is being stored.              *)
Writing(doc) == doc.store.at \in {"writing", "encoded"}

(* An acceptance of its writer's is held here, or went into the store that *)
(* is being written.                                                       *)
Recorded(doc, w) == \E id \in doc.acceptances : by[id] = by[w]

Carried(doc, w) == \E id \in doc.store.own : by[id] = by[w]

(* The document has the word to store, and will name its writer or say     *)
(* that it could not.                                                      *)
ToStore(doc, w) ==
    /\ w \in doc.words
    /\ IF Writing(doc)
       THEN \/ /\ w \in Storing(doc)
               /\ doc.unsaved = "lost" \/ Carried(doc, w) \/ Recorded(doc, w)
            \/ doc.dirty /\ Recorded(doc, w)
       ELSE doc.dirty /\ (doc.unsaved = "lost" \/ Recorded(doc, w))

Alone(d) == \A e \in Docs : e # d => docs[e].saving = <<>>

InStep(w) ==
    /\ live # Nil /\ docs[live].at = "open" => w \in docs[live].words
    /\ \A d \in Docs : docs[d].saving # <<>> =>
          /\ w \in docs[d].words
          /\ docs[d].store.at = "encoded" /\ ~ row.sent => w \in docs[d].store.words

InHand(w) ==
    IF live # Nil THEN docs[live].at = "open" /\ ToStore(docs[live], w) /\ Alone(live)
    ELSE \E d \in Docs : /\ docs[d].at = "gone" /\ Alone(d)
                         /\ w \in docs[d].words \cap Storing(docs[d])

Safe(w) == IF w \in row.words THEN InStep(w) ELSE InHand(w)

(* The word is nowhere yet.                                                *)
Absent(w) ==
    /\ w \notin row.words
    /\ \A d \in Docs : w \notin docs[d].words /\ w \notin Storing(docs[d])
    /\ \A s \in Sends : w \notin bytes[s]

WordsSafe ==
    \A w \in Words : /\ fate[w] \in {"untyped", "sent"} => Absent(w)
                     /\ fate[w] = "taken" => Safe(w)

(* What was typed is known by who typed it, and handled once.              *)
TypedKnown ==
    /\ \A c \in Conns : at[c] \in Typing =>
          fate[word[c]] = "sent" /\ by[word[c]] = WriterOf[c]
    /\ \A c, e \in Conns : at[c] \in Typing /\ at[e] \in Typing /\ word[c] = word[e] => c = e

IdsKnown ==
    \A d \in Docs :
        /\ \A id \in docs[d].acceptances : fate[id] # "untyped"
        /\ Writing(docs[d]) => \A id \in docs[d].store.own : fate[id] # "untyped"

(* The send that decides.                                                  *)
Decides(s) ==
    \/ at[s] \in {"flushing", "deciding", "stamped", "refused"}
    \/ at[s] = "flushed" /\ mine[s] # Nil

OneDecides ==
    /\ \A s \in Sends : Decides(s) => docs[live].deciding
    /\ \A s, t \in Sends : Decides(s) /\ Decides(t) => s = t

SealHolds ==
    /\ \A s \in Sends : at[s] = "deciding" =>
          \A w \in Words : fate[w] = "taken" => w \in bytes[s]
    /\ \A s \in Sends : at[s] = "stamped" => row.sent
    /\ row.sent => /\ \A w \in Words : fate[w] = "taken" => w \in row.words
                   /\ live # Nil /\ docs[live].at = "open" =>
                         docs[live].sealed \/ \E s \in Sends : at[s] = "stamped"

WordInv == WordsSafe /\ TypedKnown /\ IdsKnown /\ OneDecides /\ SealHolds

-----------------------------------------------------------------------------
LEMMA DecidesIsCounted ==
    ASSUME DocInv, NEW s \in Sends, Decides(s)
    PROVE  Counted(s) /\ live \in Docs /\ live # Nil /\ docs[live].at = "open" /\ mine[s] = live
BY ConnsAreReaders DEF Decides, Counted, Sealing, DocInv, CountedHold, Shaped

LEMMA DocParts ==
    ASSUME DocInv
    PROVE  /\ live \in Docs \cup {Nil} /\ docs \in [Docs -> DocRows]
           /\ at \in [Readers -> Places] /\ of \in [Readers -> Docs \cup {Nil}]
           /\ mine \in [Readers -> Docs \cup {Nil}] /\ fate \in [Words -> Fates]
           /\ by \in [Words -> Writers \cup {Nil}] /\ word \in [Readers -> Words \cup {Nil}]
           /\ bytes \in [Sends -> SUBSET Words] /\ row \in [words : SUBSET Words, sent : BOOLEAN]
           /\ \A c \in Conns : at[c] \in Typing => word[c] \in Words
           /\ \A d \in Docs :
                 /\ docs[d] \in DocFields /\ docs[d].acceptances \subseteq Words
                 /\ docs[d].words \subseteq Words /\ docs[d].store \in Stores
                 /\ docs[d].store.at # "none" => docs[d].saving # <<>>
                 /\ Writing(docs[d]) => /\ docs[d].saving # <<>>
                                        /\ docs[d].store.own \subseteq Words
           /\ \A s \in Sends : Decides(s) => live # Nil
<1>1. Shaped /\ PlacesKept
  BY DEF DocInv
<1>2. ASSUME NEW d \in Docs
      PROVE  /\ docs[d] \in DocFields /\ docs[d].acceptances \subseteq Words
             /\ docs[d].words \subseteq Words /\ docs[d].store \in Stores
             /\ docs[d].store.at # "none" => docs[d].saving # <<>>
  BY <1>1 DEF Shaped, DocRows, DocFields
<1>3. ASSUME NEW d \in Docs, Writing(docs[d])
      PROVE  docs[d].saving # <<>> /\ docs[d].store.own \subseteq Words
  BY <1>2, <1>3 DEF Writing, Stores, NoStore
<1>4. \A c \in Conns : at[c] \in Typing => word[c] \in Words
  BY <1>1, ConnsAreReaders DEF PlacesKept
<1> QED BY <1>1, <1>2, <1>3, <1>4, DecidesIsCounted DEF Shaped

(* The documents hold what they held, while that matters, and no other     *)
(* begins to be stored than the one in the map.                            *)
AllStored == \A w \in Words : fate[w] = "taken" => w \in row.words

Steady ==
    \A d \in Docs :
        /\ docs'[d].at = docs[d].at
        /\ docs[d].words \subseteq docs'[d].words
        /\ docs[d].acceptances \subseteq docs'[d].acceptances
        /\ AllStored \/ (docs[d].dirty => docs'[d].dirty)
        /\ docs[d].unsaved = "lost" => docs'[d].unsaved = "lost"
        /\ \/ docs'[d].store = docs[d].store
           \/ /\ AllStored \/ ~ Writing(docs[d])
              /\ docs'[d].store.at \in {"none", "asked"}
        /\ docs'[d].saving # <<>> => docs[d].saving # <<>> \/ (d = live /\ docs[d].at = "open")

LEMMA SafeKeeps ==
    ASSUME DocInv, IdsKnown, Steady, row' = row, live' = live,
           \A w \in Words : fate[w] # "untyped" => by'[w] = by[w],
           NEW w \in Words, fate[w] = "taken", Safe(w)
    PROVE  Safe(w)'
<1>0. live \in Docs \cup {Nil} /\ by'[w] = by[w]
  BY DocParts
<1>1. ASSUME NEW d \in Docs, ~ AllStored
      PROVE  /\ (Writing(docs[d])' <=> Writing(docs[d]))
             /\ Storing(docs[d]) \subseteq Storing(docs[d])'
             /\ Recorded(docs[d], w) => Recorded(docs[d], w)'
             /\ Writing(docs[d]) /\ Carried(docs[d], w) => Carried(docs[d], w)'
  <2>1. Writing(docs[d])' <=> Writing(docs[d])
    BY <1>1 DEF Steady, Writing
  <2>2. Storing(docs[d]) \subseteq Storing(docs[d])'
    BY <1>1 DEF Steady, Writing, Storing
  <2>3. Recorded(docs[d], w) => Recorded(docs[d], w)'
    BY <1>0, DocParts DEF Steady, Recorded, IdsKnown
  <2>4. Writing(docs[d]) /\ Carried(docs[d], w) => Carried(docs[d], w)'
    BY <1>0, <1>1, DocParts DEF Steady, Carried, IdsKnown, Writing
  <2> QED BY <2>1, <2>2, <2>3, <2>4
<1>2. CASE w \in row.words
  <2>1. InStep(w)
    BY <1>2 DEF Safe
  <2>2. live' # Nil /\ docs'[live'].at = "open" => w \in docs'[live'].words
    BY <1>0, <2>1 DEF InStep, Steady
  <2>3. ASSUME NEW d \in Docs, docs'[d].saving # <<>>
        PROVE  /\ w \in docs'[d].words
               /\ docs'[d].store.at = "encoded" /\ ~ row'.sent => w \in docs'[d].store.words
    <3>1. w \in docs[d].words
      BY <1>0, <2>1, <2>3, DocsAreNumbers DEF InStep, Steady
    <3>2. ASSUME docs'[d].store.at = "encoded", ~ row'.sent PROVE w \in docs'[d].store.words
      <4>1. docs'[d].store = docs[d].store
        BY <3>2 DEF Steady
      <4>2. docs[d].saving # <<>>
        BY <3>2, <4>1, DocParts
      <4> QED BY <2>1, <3>2, <4>1, <4>2 DEF InStep
    <3> QED BY <3>1, <3>2 DEF Steady
  <2>4. InStep(w)'
    BY <2>2, <2>3 DEF InStep
  <2> QED BY <1>2, <2>4 DEF Safe
<1>3. CASE w \notin row.words
  <2>0. ~ AllStored
    BY <1>3 DEF AllStored
  <2>1. InHand(w)
    BY <1>3 DEF Safe
  <2>2. CASE live # Nil
    <3>1. live \in Docs /\ docs[live].at = "open" /\ ToStore(docs[live], w) /\ Alone(live)
      BY <1>0, <2>1, <2>2 DEF InHand
    <3>2. Alone(live)'
      BY <3>1 DEF Alone, Steady
    <3>3. ToStore(docs[live], w)'
      BY <1>1, <2>0, <3>1 DEF ToStore, Steady
    <3>4. InHand(w)'
      BY <2>2, <3>1, <3>2, <3>3 DEF InHand, Steady
    <3> QED BY <1>3, <3>4 DEF Safe
  <2>3. CASE live = Nil
    <3>1. PICK d \in Docs : /\ docs[d].at = "gone" /\ Alone(d)
                            /\ w \in docs[d].words \cap Storing(docs[d])
      BY <2>1, <2>3 DEF InHand
    <3>2. Alone(d)'
      BY <2>3, <3>1, DocsAreNumbers DEF Alone, Steady
    <3>3. InHand(w)'
      BY <1>1, <2>0, <2>3, <3>1, <3>2 DEF InHand, Steady
    <3> QED BY <1>3, <3>3 DEF Safe
  <2> QED BY <2>2, <2>3
<1> QED BY <1>2, <1>3

(* No word is put anywhere, and what was typed is the same.                *)
StillAbsent ==
    /\ row' = row /\ bytes' = bytes
    /\ \A d \in Docs : docs'[d].words = docs[d].words
                       /\ (docs'[d].store = docs[d].store \/ docs'[d].store.at \in {"none", "asked"})

LEMMA AbsentKeeps ==
    ASSUME StillAbsent, NEW w \in Words, Absent(w) PROVE Absent(w)'
<1>1. ASSUME NEW d \in Docs PROVE w \notin docs'[d].words /\ w \notin Storing(docs[d])'
  BY DEF StillAbsent, Absent, Storing
<1> QED BY <1>1 DEF StillAbsent, Absent

(* Nobody begins to decide, and what a send sealed stays.                  *)
LEMMA SealStays ==
    ASSUME DocInv, OneDecides, SealHolds,
           \A s \in Sends : /\ Decides(s)' => Decides(s)
                            /\ at'[s] = "deciding" => at[s] = "deciding"
                            /\ at'[s] = "stamped" <=> at[s] = "stamped",
           bytes' = bytes, row'.sent = row.sent, row.sent => row.words \subseteq row'.words,
           \A w \in Words : fate'[w] = "taken" => fate[w] = "taken",
           live' = live,
           live # Nil => /\ docs[live].deciding => docs'[live].deciding
                         /\ docs[live].sealed => docs'[live].sealed
                         /\ docs'[live].at = "open" =>
                               docs[live].at = "open" \/ docs'[live].sealed = row.sent
    PROVE  OneDecides' /\ SealHolds'
<1>0. \A s \in Sends : Decides(s) => live # Nil
  BY DocParts
<1>1. OneDecides'
  BY <1>0 DEF OneDecides
<1>2. ASSUME NEW s \in Sends, at'[s] = "deciding"
      PROVE  \A w \in Words : fate'[w] = "taken" => w \in bytes'[s]
  BY <1>2 DEF SealHolds
<1>3. ASSUME NEW s \in Sends, at'[s] = "stamped" PROVE row'.sent
  BY <1>3 DEF SealHolds
<1>4. ASSUME row'.sent
      PROVE  /\ \A w \in Words : fate'[w] = "taken" => w \in row'.words
             /\ live' # Nil /\ docs'[live'].at = "open" =>
                         docs'[live'].sealed \/ \E s \in Sends : at'[s] = "stamped"
  BY <1>4 DEF SealHolds
<1> QED BY <1>1, <1>2, <1>3, <1>4 DEF SealHolds

(* The document leaves the map, or another is to be read.                  *)
LEMMA SealGone ==
    ASSUME SealHolds, \A s \in Sends : ~ Decides(s)',
           live' # Nil => docs'[live'].at = "building",
           row'.sent = row.sent, row.sent => row.words \subseteq row'.words,
           \A w \in Words : fate'[w] = "taken" => fate[w] = "taken"
    PROVE  OneDecides' /\ SealHolds'
<1>1. \A s \in Sends : at'[s] \notin {"deciding", "stamped"}
  BY DEF Decides
<1> QED BY <1>1 DEF OneDecides, SealHolds

(* Who goes on as a store ends.                                            *)
LEMMA WakeSeals ==
    ASSUME DocInv, NEW d \in Docs, docs[d].saving # <<>>, Wakes(d), mine' = mine
    PROVE  /\ \A s \in Sends : /\ Decides(s)' => Decides(s)
                               /\ at'[s] = "deciding" => at[s] = "deciding"
                               /\ at'[s] = "stamped" <=> at[s] = "stamped"
           /\ \A c \in Conns : at'[c] = at[c] \/ (at[c] \notin Typing /\ at'[c] \notin Typing)
<1> DEFINE q == docs[d].saving
           who == Head(q).who
<1>0. q \in Seq(Acts) /\ q # <<>> /\ at \in [Readers -> Places]
  BY DEF DocInv, Shaped, DocRows, DocFields
<1>1. Head(q) = q[1] /\ 1 \in DOMAIN q
  BY <1>0
<1>2. who \in Readers => at[who] \in {"leaving", "flushing"}
  BY <1>1 DEF DocInv, QueueKept
<1>3. at' = IF who \in Readers THEN [at EXCEPT ![who] = "flushed"] ELSE at
  BY DEF Wakes
<1>4. ASSUME NEW r \in Readers
      PROVE  \/ at'[r] = at[r]
             \/ at[r] \in {"leaving", "flushing"} /\ at'[r] = "flushed"
  <2>1. CASE who \in Readers /\ r = who
    BY <1>0, <1>2, <1>3, <2>1
  <2>2. CASE ~ (who \in Readers /\ r = who)
    BY <1>0, <1>3, <2>2
  <2> QED BY <2>1, <2>2
<1>5. ASSUME NEW s \in Sends, Decides(s)' PROVE Decides(s)
  <2>1. s \in Readers
    BY ConnsAreReaders
  <2>2. CASE at'[s] = at[s]
    BY <1>5, <2>2 DEF Decides
  <2>3. CASE at[s] = "flushing"
    BY <2>3 DEF Decides
  <2>4. CASE at[s] = "leaving" /\ at'[s] = "flushed"
    BY <1>5, <2>1, <2>4 DEF Decides, DocInv, PlacesKept
  <2> QED BY <1>4, <2>1, <2>2, <2>3, <2>4
<1>6. \A s \in Sends : /\ at'[s] = "deciding" => at[s] = "deciding"
                       /\ at'[s] = "stamped" <=> at[s] = "stamped"
  BY <1>4, ConnsAreReaders
<1>7. \A c \in Conns : at'[c] = at[c] \/ (at[c] \notin Typing /\ at'[c] \notin Typing)
  BY <1>4, ConnsAreReaders DEF Typing
<1> QED BY <1>5, <1>6, <1>7

(* What is typed stays what it was.                                        *)
LEMMA TypedStays ==
    ASSUME TypedKnown, IdsKnown, Steady,
           \A c \in Conns : at'[c] \in Typing => at[c] \in Typing /\ word'[c] = word[c],
           \A c \in Conns : at'[c] \in Typing => fate'[word[c]] = fate[word[c]],
           by' = by, DocInv,
           \A w \in Words : fate'[w] = "untyped" => fate[w] = "untyped",
           \A d \in Docs : \A id \in docs'[d].acceptances :
               \/ id \in docs[d].acceptances
               \/ fate[id] # "untyped" /\ id \in Words
    PROVE  TypedKnown' /\ IdsKnown'
<1>1. TypedKnown'
  BY DEF TypedKnown
<1>2. ASSUME NEW d \in Docs
      PROVE  /\ \A id \in docs'[d].acceptances : fate'[id] # "untyped"
             /\ Writing(docs[d])' => \A id \in docs'[d].store.own : fate'[id] # "untyped"
  BY DocParts DEF IdsKnown, Steady, Writing
<1> QED BY <1>1, <1>2 DEF IdsKnown

(* A step after which every word is where it was.                          *)
LEMMA WordsStay ==
    ASSUME DocInv, WordInv, Steady, StillAbsent, live' = live, by' = by,
           \A w \in Words : /\ fate'[w] = "taken" => fate[w] = "taken"
                            /\ fate'[w] \in {"untyped", "sent"} => fate[w] \in {"untyped", "sent"}
                            /\ fate'[w] = "untyped" => fate[w] = "untyped",
           \A c \in Conns : at'[c] \in Typing =>
               at[c] \in Typing /\ word'[c] = word[c] /\ fate'[word[c]] = fate[word[c]],
           \A d \in Docs : \A id \in docs'[d].acceptances :
               \/ id \in docs[d].acceptances
               \/ fate[id] # "untyped" /\ id \in Words
    PROVE  WordsSafe' /\ TypedKnown' /\ IdsKnown'
<1>1. TypedKnown' /\ IdsKnown'
  BY TypedStays DEF WordInv
<1>2. ASSUME NEW w \in Words, fate'[w] \in {"untyped", "sent"} PROVE Absent(w)'
  BY <1>2, AbsentKeeps DEF WordInv, WordsSafe
<1>3. ASSUME NEW w \in Words, fate'[w] = "taken" PROVE Safe(w)'
  BY <1>3, SafeKeeps DEF WordInv, WordsSafe, StillAbsent
<1> QED BY <1>1, <1>2, <1>3 DEF WordsSafe

LEMMA IdleStoreEnds ==
    ASSUME DocInv, WordInv, NEW d \in Docs, Starts(d),
           docs' = [docs EXCEPT ![d] = Finished(docs[d])], Wakes(d),
           UNCHANGED <<row, fate, by, live, mine, of, word, bytes>>
    PROVE  WordInv'
<1>1. /\ docs[d].saving # <<>> /\ docs[d].store.at = "none" /\ ~ Writing(docs[d])
      /\ docs \in [Docs -> DocRows] /\ docs[d] \in DocRows
  BY DocParts DEF Starts, Writing
<1>2. ASSUME NEW x \in Docs
      PROVE  /\ docs'[x].at = docs[x].at /\ docs'[x].words = docs[x].words
             /\ docs'[x].acceptances = docs[x].acceptances /\ docs'[x].dirty = docs[x].dirty
             /\ docs'[x].unsaved = docs[x].unsaved /\ docs'[x].deciding = docs[x].deciding
             /\ docs'[x].sealed = docs[x].sealed
             /\ docs'[x].store = docs[x].store \/ (~ Writing(docs[x]) /\ docs'[x].store.at = "none")
             /\ docs'[x].saving # <<>> => docs[x].saving # <<>>
  <2>1. CASE x = d
    <3>1. docs'[x] = [docs[d] EXCEPT !.saving = Tail(@), !.store = NoStore]
      BY <1>1, <2>1 DEF Finished
    <3>2. NoStore.at = "none" /\ Tail(docs[d].saving) \in Seq(Acts)
      BY <1>1 DEF NoStore, DocRows, DocFields
    <3> QED BY <1>1, <2>1, <3>1, <3>2 DEF DocRows, DocFields
  <2>2. CASE x # d
    BY <1>1, <2>2
  <2> QED BY <2>1, <2>2
<1>3. Steady /\ StillAbsent
  <2>1. Steady
    BY <1>2 DEF Steady
  <2>2. StillAbsent
    BY <1>2 DEF StillAbsent
  <2> QED BY <2>1, <2>2
<1>4. /\ \A s \in Sends : /\ Decides(s)' => Decides(s)
                          /\ at'[s] = "deciding" => at[s] = "deciding"
                          /\ at'[s] = "stamped" <=> at[s] = "stamped"
      /\ \A c \in Conns : at'[c] = at[c] \/ (at[c] \notin Typing /\ at'[c] \notin Typing)
  BY <1>1, WakeSeals
<1>5. WordsSafe' /\ TypedKnown' /\ IdsKnown'
  BY <1>2, <1>3, <1>4, WordsStay
<1>6. OneDecides' /\ SealHolds'
  BY <1>2, <1>4, SealStays, DocParts DEF WordInv
<1> QED BY <1>5, <1>6 DEF WordInv

LEMMA NothingToStoreWords ==
    ASSUME DocInv, WordInv, NEW d \in Docs, NothingToStore(d) PROVE WordInv'
BY IdleStoreEnds DEF NothingToStore, Change

LEMMA AskFailsWords ==
    ASSUME DocInv, WordInv, NEW d \in Docs, AskFails(d) PROVE WordInv'
BY IdleStoreEnds DEF AskFails, Change

LEMMA AskAcceptedWords ==
    ASSUME DocInv, WordInv, NEW d \in Docs, AskAccepted(d) PROVE WordInv'
<1> DEFINE st == [at |-> "asked", ids |-> {a.id : a \in accepts},
                  names |-> {a.writer : a \in accepts}, local |-> {}, own |-> {},
                  words |-> {}]
           new == [docs[d] EXCEPT !.store = st]
<1>1. docs[d] \in DocRows /\ docs[d].store.at = "none" /\ docs' = [docs EXCEPT ![d] = new]
      /\ docs \in [Docs -> DocRows]
      /\ UNCHANGED <<row, live, at, mine, of, word, by, fate, bytes>>
  BY DocParts DEF AskAccepted, Starts, Change
<1>2. st.at = "asked"
  OBVIOUS
<1> HIDE DEF st
<1>3. ASSUME NEW x \in Docs
      PROVE  /\ docs'[x].at = docs[x].at /\ docs'[x].words = docs[x].words
             /\ docs'[x].acceptances = docs[x].acceptances /\ docs'[x].dirty = docs[x].dirty
             /\ docs'[x].unsaved = docs[x].unsaved /\ docs'[x].deciding = docs[x].deciding
             /\ docs'[x].sealed = docs[x].sealed
             /\ docs'[x].store = docs[x].store \/ (~ Writing(docs[x]) /\ docs'[x].store.at = "asked")
             /\ docs'[x].saving = docs[x].saving
  <2>1. CASE x = d
    BY <1>1, <1>2, <2>1 DEF DocRows, DocFields, Writing
  <2>2. CASE x # d
    BY <1>1, <2>2
  <2> QED BY <2>1, <2>2
<1>4. Steady /\ StillAbsent
  <2>1. Steady
    BY <1>3 DEF Steady
  <2>2. StillAbsent
    BY <1>1, <1>3 DEF StillAbsent
  <2> QED BY <2>1, <2>2
<1>5. WordsSafe' /\ TypedKnown' /\ IdsKnown'
  BY <1>1, <1>3, <1>4, WordsStay
<1>6. OneDecides' /\ SealHolds'
  BY <1>1, <1>3, SealStays, DocParts DEF WordInv, Decides
<1> QED BY <1>5, <1>6 DEF WordInv

-----------------------------------------------------------------------------
(* A document of which only marks change.                                  *)
Like(new, doc) ==
    /\ new.at = doc.at /\ new.words = doc.words /\ new.acceptances = doc.acceptances
    /\ doc.dirty => new.dirty
    /\ new.unsaved = doc.unsaved /\ new.store = doc.store /\ new.saving = doc.saving

LEMMA LikeStays ==
    ASSUME DocInv, NEW d \in Docs, NEW new, Like(new, docs[d]),
           docs' = [docs EXCEPT ![d] = new], UNCHANGED <<row, bytes>>
    PROVE  /\ Steady /\ StillAbsent
           /\ \A x \in Docs : docs'[x].acceptances = docs[x].acceptances
           /\ \A x \in Docs : docs'[x].at = docs[x].at
<1>1. ASSUME NEW x \in Docs
      PROVE  docs'[x] = docs[x] \/ (x = d /\ docs'[x] = new)
  BY DocParts
<1>2. ASSUME NEW x \in Docs PROVE Like(docs'[x], docs[x])
  BY <1>1, <1>2 DEF Like
<1>3. Steady
  BY <1>2 DEF Steady, Like
<1>4. StillAbsent
  BY <1>2 DEF StillAbsent, Like
<1> QED BY <1>2, <1>3, <1>4 DEF Like

LEMMA ConnMoves ==
    ASSUME DocInv, NEW c \in Conns, NEW p, at' = [at EXCEPT ![c] = p], mine' = mine
    PROVE  \A s \in Sends : (Decides(s)' <=> Decides(s)) /\ at'[s] = at[s]
<1>1. ASSUME NEW s \in Sends PROVE at'[s] = at[s]
  BY ConnsAreReaders, DocParts
<1> QED BY <1>1 DEF Decides

LEMMA ConnIsIn ==
    ASSUME DocInv, NEW c \in Conns, at[c] \in {"in"} \cup Typing
    PROVE  /\ c \in Readers /\ live \in Docs /\ live # Nil /\ docs[live].at = "open"
           /\ docs[live] \in DocRows /\ of[c] \in {live, Nil}
           /\ at[c] \in {"accepting", "accepted", "held"} => of[c] = live
           /\ at[c] \in Typing => word[c] \in Words
<1>1. Counted(c) /\ c \in Readers
  BY ConnsAreReaders DEF Counted
<1> QED BY <1>1, DocsAreNumbers DEF DocInv, Shaped, CountedHold, PlacesKept

LEMMA TypeWords == ASSUME DocInv, WordInv, NEW c \in Conns, Type(c) PROVE WordInv'
<1>1. PICK w \in Words : /\ MayType(w)
                         /\ by' = [by EXCEPT ![w] = WriterOf[c]]
                         /\ fate' = [fate EXCEPT ![w] = "sent"]
                         /\ word' = [word EXCEPT ![c] = w]
  BY DEF Type
<1>2. /\ at' = [at EXCEPT ![c] = "frame"] /\ at[c] = "in" /\ fate[w] = "untyped"
      /\ UNCHANGED <<row, docs, live, mine, bytes>> /\ c \in Readers
  BY <1>1, ConnsAreReaders DEF Type, MayType, Untyped
<1>3. /\ \A v \in Words : v # w => fate'[v] = fate[v] /\ by'[v] = by[v]
      /\ fate'[w] = "sent" /\ by'[w] = WriterOf[c]
      /\ at'[c] = "frame" /\ word'[c] = w
      /\ \A e \in Conns : e # c => at'[e] = at[e] /\ word'[e] = word[e]
  BY <1>1, <1>2, DocParts, ConnsAreReaders
<1>4. Steady /\ StillAbsent
  <2>1. Steady
    BY <1>2 DEF Steady
  <2>2. StillAbsent
    BY <1>2 DEF StillAbsent
  <2> QED BY <2>1, <2>2
<1>5. ASSUME NEW v \in Words, fate'[v] \in {"untyped", "sent"} PROVE Absent(v)'
  BY <1>2, <1>3, <1>4, <1>5, AbsentKeeps DEF WordInv, WordsSafe
<1>6. ASSUME NEW v \in Words, fate'[v] = "taken" PROVE Safe(v)'
  BY <1>2, <1>3, <1>4, <1>6, SafeKeeps DEF WordInv, WordsSafe
<1>7. TypedKnown'
  BY <1>2, <1>3, DocParts DEF WordInv, TypedKnown
<1>8. IdsKnown'
  <2>1. \A d \in Docs : Writing(docs[d])' <=> Writing(docs[d])
    BY <1>2 DEF Writing
  <2> QED BY <1>2, <1>3, <2>1, DocParts DEF WordInv, IdsKnown
<1>9. OneDecides' /\ SealHolds'
  BY <1>2, <1>3, SealStays, ConnMoves DEF WordInv
<1> QED BY <1>5, <1>6, <1>7, <1>8, <1>9 DEF WordInv, WordsSafe

(* A frame that is answered, or waits, is of no document.                  *)
LEMMA FrameWords ==
    ASSUME DocInv, WordInv, NEW c \in Conns, at[c] \in Typing, Steady, StillAbsent,
           NEW p, at' = [at EXCEPT ![c] = p],
           \/ /\ p = "in" /\ word' = [word EXCEPT ![c] = Nil]
              /\ \E outcome \in {"refused", "thrown"} :
                    fate' = [fate EXCEPT ![word[c]] = outcome]
           \/ p \in Typing /\ UNCHANGED <<word, fate>>,
           \A d \in Docs : /\ \A id \in docs'[d].acceptances :
                                 \/ id \in docs[d].acceptances
                                 \/ fate[id] # "untyped" /\ id \in Words
                           /\ docs[d].deciding => docs'[d].deciding
                           /\ docs[d].sealed => docs'[d].sealed,
           UNCHANGED <<live, mine, by>>
    PROVE  WordInv'
<1>1. c \in Readers /\ live \in Docs /\ live # Nil /\ word[c] \in Words /\ fate[word[c]] = "sent"
  BY ConnIsIn DEF WordInv, TypedKnown
<1>2. /\ \A w \in Words : w # word[c] => fate'[w] = fate[w]
      /\ fate'[word[c]] \in {"refused", "thrown", "sent"}
      /\ at'[c] \in Typing => fate'[word[c]] = "sent" /\ word'[c] = word[c]
      /\ \A e \in Conns : e # c => at'[e] = at[e] /\ word'[e] = word[e]
  BY <1>1, DocParts, ConnsAreReaders DEF Typing
<1>3. \A w \in Words : /\ fate'[w] = "taken" => fate[w] = "taken"
                       /\ fate'[w] \in {"untyped", "sent"} => fate[w] \in {"untyped", "sent"}
                       /\ fate'[w] = "untyped" => fate[w] = "untyped"
  BY <1>1, <1>2
<1>4. \A e \in Conns : at'[e] \in Typing =>
          at[e] \in Typing /\ word'[e] = word[e] /\ fate'[word[e]] = fate[word[e]]
  BY <1>1, <1>2, DocParts DEF WordInv, TypedKnown
<1>5. WordsSafe' /\ TypedKnown' /\ IdsKnown'
  BY <1>3, <1>4, WordsStay
<1>6. OneDecides' /\ SealHolds'
  BY <1>1, <1>3, SealStays, ConnMoves DEF WordInv, StillAbsent, Steady
<1> QED BY <1>5, <1>6 DEF WordInv

LEMMA TakenWords ==
    ASSUME DocInv, WordInv, NEW c \in Conns, at[c] \in {"frame", "accepted"},
           NEW doc \in DocRows, Taken(c, live, doc),
           doc.at = docs[live].at, doc.words = docs[live].words, doc.dirty = docs[live].dirty,
           doc.unsaved = docs[live].unsaved, doc.store = docs[live].store,
           doc.saving = docs[live].saving, doc.deciding = docs[live].deciding,
           doc.sealed = docs[live].sealed, docs[live].acceptances \subseteq doc.acceptances,
           \A id \in doc.acceptances : id \in docs[live].acceptances \/ fate[id] # "untyped"
    PROVE  WordInv'
<1>1. /\ c \in Readers /\ live \in Docs /\ live # Nil /\ docs[live].at = "open"
      /\ docs[live] \in DocRows /\ word[c] \in Words /\ at[c] \in Typing
      /\ fate[word[c]] = "sent" /\ by[word[c]] = WriterOf[c] /\ Absent(word[c])
  BY ConnIsIn DEF Typing, WordInv, TypedKnown, WordsSafe
<1>2. UNCHANGED <<row, live, mine, by, bytes>>
  BY DEF Taken
<1>0. PICK w0 \in Words : w0 = word[c]
  BY <1>1
<1>3. ASSUME NEW new \in DocRows, docs' = [docs EXCEPT ![live] = new],
             new.at = doc.at, doc.words \subseteq new.words, new.acceptances = doc.acceptances,
             doc.dirty => new.dirty, new.unsaved = doc.unsaved, new.store = doc.store,
             new.saving = doc.saving, new.deciding = doc.deciding, new.sealed = doc.sealed
      PROVE  /\ Steady
             /\ \A d \in Docs : /\ \A id \in docs'[d].acceptances :
                                     \/ id \in docs[d].acceptances
                                     \/ fate[id] # "untyped" /\ id \in Words
                                /\ docs[d].deciding => docs'[d].deciding
                                /\ docs[d].sealed => docs'[d].sealed
             /\ new.words = doc.words => StillAbsent
  <2>1. docs'[live] = new /\ \A d \in Docs : d # live => docs'[d] = docs[d]
    BY <1>1, <1>3, DocParts
  <2>2. doc.acceptances \subseteq Words
    BY DEF DocRows, DocFields
  <2>3. ASSUME NEW d \in Docs
        PROVE  /\ docs'[d].at = docs[d].at
               /\ docs[d].words \subseteq docs'[d].words
               /\ docs[d].acceptances \subseteq docs'[d].acceptances
               /\ docs[d].dirty => docs'[d].dirty
               /\ docs'[d].unsaved = docs[d].unsaved /\ docs'[d].store = docs[d].store
               /\ docs'[d].saving = docs[d].saving
               /\ docs[d].deciding => docs'[d].deciding
               /\ docs[d].sealed => docs'[d].sealed
               /\ new.words = doc.words => docs'[d].words = docs[d].words
    BY <1>3, <2>1
  <2>4. Steady
    BY <2>3 DEF Steady
  <2>5. new.words = doc.words => StillAbsent
    BY <1>2, <2>3 DEF StillAbsent
  <2>6. \A d \in Docs : \A id \in docs'[d].acceptances :
            \/ id \in docs[d].acceptances
            \/ fate[id] # "untyped" /\ id \in Words
    BY <1>3, <2>1, <2>2
  <2> QED BY <2>3, <2>4, <2>5, <2>6
<1>4. CASE doc.sealed /\ Answered(c, "refused") /\ Change(live, doc)
  <2>1. /\ docs' = [docs EXCEPT ![live] = doc] /\ at' = [at EXCEPT ![c] = "in"]
        /\ word' = [word EXCEPT ![c] = Nil] /\ fate' = [fate EXCEPT ![word[c]] = "refused"]
    BY <1>4 DEF Answered, Goto, Change
  <2> QED BY <1>1, <1>2, <1>3, <2>1, FrameWords
<1>5. CASE ~ doc.sealed /\ doc.deciding /\ Goto(c, "held", live) /\ Change(live, doc)
           /\ UNCHANGED <<word, fate>>
  <2>1. docs' = [docs EXCEPT ![live] = doc] /\ at' = [at EXCEPT ![c] = "held"]
        /\ "held" \in Typing
    BY <1>5 DEF Goto, Change, Typing
  <2> QED BY <1>1, <1>2, <1>3, <1>5, <2>1, FrameWords
<1>6. CASE /\ ~doc.sealed /\ ~doc.deciding
           /\ Answered(c, Outcome(c, live, doc))
           /\ Change(live, [doc EXCEPT !.words = @ \cup {word[c]}, !.dirty = TRUE, !.timer = TRUE,
                                       !.writers = @ \cup {WriterOf[c]}, !.late = row.sent])
  <2> DEFINE new == [doc EXCEPT !.words = @ \cup {word[c]}, !.dirty = TRUE, !.timer = TRUE,
                                !.writers = @ \cup {WriterOf[c]}, !.late = row.sent]
  <2>1. /\ new \in DocRows /\ new.at = doc.at /\ new.words = doc.words \cup {w0} /\ new.dirty
        /\ new.acceptances = doc.acceptances /\ new.unsaved = doc.unsaved
        /\ new.store = doc.store /\ new.saving = doc.saving
        /\ new.deciding = doc.deciding /\ new.sealed = doc.sealed
    <3>1. row.sent \in BOOLEAN /\ WriterOf[c] \in Writers
      BY DocParts, ConnsAreReaders
    <3> QED BY <1>0, <1>1, <3>1 DEF DocRows, DocFields
  <2>2. /\ docs' = [docs EXCEPT ![live] = new] /\ at' = [at EXCEPT ![c] = "in"]
        /\ word' = [word EXCEPT ![c] = Nil]
        /\ fate' = [fate EXCEPT ![w0] = Outcome(c, live, doc)]
    BY <1>0, <1>6 DEF Answered, Goto, Change
  <2> HIDE DEF new
  <2>3. /\ docs'[live] = new /\ \A d \in Docs : d # live => docs'[d] = docs[d]
        /\ \A v \in Words : v # w0 => fate'[v] = fate[v]
        /\ fate'[w0] = Outcome(c, live, doc) /\ Outcome(c, live, doc) \in {"taken", "risked"}
        /\ at'[c] = "in" /\ \A e \in Conns : e # c => at'[e] = at[e] /\ word'[e] = word[e]
    BY <1>0, <1>1, <2>2, DocParts, ConnsAreReaders DEF Outcome
  <2>4. Steady /\ \A d \in Docs : \A id \in docs'[d].acceptances :
                                     \/ id \in docs[d].acceptances
                                     \/ fate[id] # "untyped" /\ id \in Words
    BY <1>3, <2>1, <2>2
  <2>5. ASSUME NEW v \in Words, fate'[v] \in {"untyped", "sent"} PROVE Absent(v)'
    <3>1. v # w0 /\ Absent(v)
      BY <2>3, <2>5 DEF WordInv, WordsSafe
    <3>2. ASSUME NEW d \in Docs PROVE v \notin docs'[d].words /\ v \notin Storing(docs[d])'
      <4>1. CASE d = live
        BY <2>1, <2>3, <3>1, <4>1 DEF Absent, Storing
      <4>2. CASE d # live
        BY <2>3, <3>1, <4>2 DEF Absent, Storing
      <4> QED BY <4>1, <4>2
    <3> QED BY <1>2, <3>1, <3>2 DEF Absent
  <2>6. ASSUME NEW v \in Words, fate'[v] = "taken" PROVE Safe(v)'
    <3>1. CASE v # w0
      BY <1>2, <2>3, <2>4, <2>6, <3>1, SafeKeeps DEF WordInv, WordsSafe
    <3>2. CASE v = w0
      <4>1. ~ Overtaken(live) /\ \E id \in doc.acceptances : by[id] = WriterOf[c]
        BY <2>3, <2>6, <3>2 DEF Outcome
      <4>2. Alone(live)'
        BY <1>2, <2>3, <4>1 DEF Alone, Overtaken
      <4>3. Recorded(docs[live], w0)'
        BY <1>0, <1>1, <1>2, <2>1, <2>3, <4>1 DEF Recorded
      <4>4. w0 \in docs'[live].words /\ docs'[live].dirty /\ docs'[live].at = "open"
        BY <1>0, <1>1, <2>1, <2>3
      <4>5. ToStore(docs[live], w0)'
        BY <1>2, <4>3, <4>4 DEF ToStore
      <4>6. InHand(w0)'
        BY <1>0, <1>1, <1>2, <4>2, <4>4, <4>5 DEF InHand
      <4>7. w0 \notin row'.words
        BY <1>0, <1>1, <1>2 DEF Absent
      <4> QED BY <3>2, <4>6, <4>7 DEF Safe
    <3> QED BY <3>1, <3>2
  <2>7. TypedKnown'
    BY <1>0, <1>1, <1>2, <2>3, DocParts DEF WordInv, TypedKnown, Typing
  <2>8. IdsKnown'
    <3>1. \A v \in Words : fate[v] # "untyped" => fate'[v] # "untyped"
      BY <2>3
    <3>2. ASSUME NEW d \in Docs
          PROVE  /\ \A id \in docs'[d].acceptances : fate'[id] # "untyped"
                 /\ Writing(docs[d])' => \A id \in docs'[d].store.own : fate'[id] # "untyped"
      BY <2>4, <3>1, DocParts DEF WordInv, IdsKnown, Steady, Writing
    <3> QED BY <3>2 DEF IdsKnown
  <2>9. OneDecides' /\ SealHolds'
    <3>1. \A s \in Sends : ~ Decides(s)
      BY <1>0, <1>1, <1>6 DEF WordInv, OneDecides
    <3>2. ~ row.sent
      BY <1>0, <1>1, <1>6, <3>1 DEF WordInv, SealHolds, Decides
    <3>3. \A s \in Sends : ~ Decides(s)' /\ at'[s] \notin {"deciding", "stamped"}
      BY <1>2, <2>2, <3>1, ConnMoves DEF Decides
    <3> QED BY <1>2, <3>2, <3>3 DEF OneDecides, SealHolds
  <2> QED BY <2>5, <2>6, <2>7, <2>8, <2>9 DEF WordInv, WordsSafe
<1> QED BY <1>4, <1>5, <1>6 DEF Taken

LEMMA ApplyWords == ASSUME DocInv, WordInv, NEW c \in Conns, Apply(c) PROVE WordInv'
<1>1. /\ c \in Readers /\ live \in Docs /\ live # Nil /\ docs[live].at = "open"
      /\ docs[live] \in DocRows /\ at[c] = "frame" /\ at[c] \in Typing
  BY ConnIsIn DEF Apply, Typing
<1>2. CASE Taken(c, live, docs[live])
  BY <1>1, <1>2, TakenWords
<1>3. CASE /\ Change(live, [docs[live] EXCEPT !.accepted = @ \cup {WriterOf[c]}])
           /\ Goto(c, "accepting", live)
           /\ UNCHANGED <<row, accepts, live, mine, word, by, fate, bytes, named, fails, ousted>>
  <2> DEFINE new == [docs[live] EXCEPT !.accepted = @ \cup {WriterOf[c]}]
  <2>1. /\ Like(new, docs[live]) /\ new.deciding = docs[live].deciding
        /\ new.sealed = docs[live].sealed
    BY <1>1 DEF DocRows, DocFields, Like
  <2>2. docs' = [docs EXCEPT ![live] = new] /\ at' = [at EXCEPT ![c] = "accepting"]
        /\ "accepting" \in Typing
    BY <1>3 DEF Change, Goto, Typing
  <2> HIDE DEF new
  <2>3. /\ Steady /\ StillAbsent
        /\ \A x \in Docs : docs'[x].acceptances = docs[x].acceptances
    BY <1>1, <1>3, <2>1, <2>2, LikeStays
  <2>4. \A d \in Docs : /\ docs[d].deciding => docs'[d].deciding
                        /\ docs[d].sealed => docs'[d].sealed
    BY <1>1, <2>1, <2>2, DocParts
  <2> QED BY <1>1, <1>3, <2>2, <2>3, <2>4, FrameWords
<1> QED BY <1>1, <1>2, <1>3 DEF Apply

LEMMA AcceptWords == ASSUME DocInv, WordInv, NEW c \in Conns, Accept(c) PROVE WordInv'
<1>1. /\ at[c] \in Typing /\ "accepted" \in Typing /\ at' = [at EXCEPT ![c] = "accepted"]
      /\ UNCHANGED <<row, docs, live, mine, word, by, fate, bytes>>
  BY DEF Accept, Typing
<1>2. Steady /\ StillAbsent
  BY <1>1 DEF Steady, StillAbsent
<1> QED BY <1>1, <1>2, FrameWords

LEMMA AcceptFailsWords == ASSUME DocInv, WordInv, NEW c \in Conns, AcceptFails(c) PROVE WordInv'
<1>1. /\ c \in Readers /\ live \in Docs /\ of[c] = live /\ docs[live] \in DocRows
      /\ at[c] \in Typing
  BY ConnIsIn DEF AcceptFails, Typing
<1> DEFINE new == [docs[live] EXCEPT !.accepted = @ \ {WriterOf[c]}]
<1>2. /\ Like(new, docs[live]) /\ new.deciding = docs[live].deciding
      /\ new.sealed = docs[live].sealed
  BY <1>1 DEF DocRows, DocFields, Like
<1>3. /\ docs' = [docs EXCEPT ![live] = new] /\ at' = [at EXCEPT ![c] = "in"]
      /\ word' = [word EXCEPT ![c] = Nil] /\ fate' = [fate EXCEPT ![word[c]] = "thrown"]
      /\ UNCHANGED <<row, live, mine, by, bytes>>
  BY <1>1 DEF AcceptFails, Change, Answered, Goto
<1> HIDE DEF new
<1>4. /\ Steady /\ StillAbsent
      /\ \A x \in Docs : docs'[x].acceptances = docs[x].acceptances
  BY <1>1, <1>2, <1>3, LikeStays
<1>5. \A d \in Docs : /\ docs[d].deciding => docs'[d].deciding
                      /\ docs[d].sealed => docs'[d].sealed
  BY <1>1, <1>2, <1>3, DocParts
<1> QED BY <1>1, <1>3, <1>4, <1>5, FrameWords

LEMMA AcceptedWords == ASSUME DocInv, WordInv, NEW c \in Conns, Accepted(c) PROVE WordInv'
<1>1. /\ c \in Readers /\ live \in Docs /\ of[c] = live /\ docs[live] \in DocRows
      /\ at[c] \in Typing /\ at[c] = "accepted" /\ word[c] \in Words /\ fate[word[c]] = "sent"
  BY ConnIsIn DEF Accepted, Typing, WordInv, TypedKnown
<1> DEFINE new == [docs[live] EXCEPT !.acceptances = @ \cup {word[c]}]
<1>2. /\ new \in DocRows /\ Taken(c, live, new)
      /\ new.at = docs[live].at /\ new.words = docs[live].words /\ new.dirty = docs[live].dirty
      /\ new.unsaved = docs[live].unsaved /\ new.store = docs[live].store
      /\ new.saving = docs[live].saving /\ new.deciding = docs[live].deciding
      /\ new.sealed = docs[live].sealed
      /\ new.acceptances = docs[live].acceptances \cup {word[c]}
  BY <1>1 DEF Accepted, DocRows, DocFields
<1> HIDE DEF new
<1>3. \A id \in new.acceptances : id \in docs[live].acceptances \/ fate[id] # "untyped"
  BY <1>1, <1>2
<1>4. docs[live].acceptances \subseteq new.acceptances
  BY <1>2
<1> QED BY <1>1, <1>2, <1>3, <1>4, TakenWords

LEMMA ResumeWords == ASSUME DocInv, WordInv, NEW c \in Conns, Resume(c) PROVE WordInv'
<1>1. /\ at[c] \in Typing /\ "frame" \in Typing /\ at' = [at EXCEPT ![c] = "frame"]
      /\ UNCHANGED <<row, docs, live, mine, word, by, fate, bytes>>
  BY DEF Resume, Goto, Typing
<1>2. Steady /\ StillAbsent
  BY <1>1 DEF Steady, StillAbsent
<1> QED BY <1>1, <1>2, FrameWords

-----------------------------------------------------------------------------
LEMMA SendIsIn ==
    ASSUME DocInv, NEW s \in Sends, Decides(s) \/ at[s] \in Sealing
    PROVE  /\ s \in Readers /\ s \notin Conns /\ live \in Docs /\ live # Nil
           /\ docs[live].at = "open" /\ docs[live] \in DocRows /\ mine[s] = live
           /\ Decides(s) => of[s] = live
<1>1. s \in Readers /\ s \notin Conns
  BY ConnsAreReaders
<1>2. Counted(s) /\ at[s] # "settled"
  BY DEF Decides, Counted, Sealing
<1>3. Decides(s) => of[s] \in Docs
  BY <1>1 DEF DocInv, PlacesKept, Decides
<1> QED BY <1>1, <1>2, <1>3, DocsAreNumbers DEF DocInv, Shaped, CountedHold

(* A send moves, and no frame does.                                        *)
LEMMA SendMoves ==
    ASSUME DocInv, WordInv, NEW s \in Sends, NEW p, at' = [at EXCEPT ![s] = p],
           Steady, StillAbsent, UNCHANGED <<live, by, word, fate>>,
           \A d \in Docs : docs'[d].acceptances = docs[d].acceptances
    PROVE  /\ WordsSafe' /\ TypedKnown' /\ IdsKnown'
           /\ at'[s] = p /\ \A t \in Sends : t # s => at'[t] = at[t]
<1>1. s \in Readers /\ s \notin Conns
  BY ConnsAreReaders
<1>2. at'[s] = p /\ \A r \in Readers : r # s => at'[r] = at[r]
  BY <1>1, DocParts
<1>3. \A c \in Conns : at'[c] = at[c]
  BY <1>1, <1>2, ConnsAreReaders
<1> QED BY <1>2, <1>3, WordsStay, ConnsAreReaders

(* The send that decided gives the document back.                          *)
LEMMA GivesBack ==
    ASSUME DocInv, WordInv, NEW s \in Sends, Decides(s),
           at'[s] = "settled", \A t \in Sends : t # s => at'[t] = at[t] /\ mine'[t] = mine[t],
           UNCHANGED <<row, live, fate>>, docs'[live].at = docs[live].at,
           docs'[live].sealed = (docs[live].sealed \/ at[s] = "stamped")
    PROVE  OneDecides' /\ SealHolds'
<1>1. \A t \in Sends : ~ Decides(t)'
  BY DEF WordInv, OneDecides, Decides
<1>2. \A t \in Sends : at'[t] \notin {"deciding", "stamped"}
  BY <1>1 DEF Decides
<1>3. ASSUME row.sent, live # Nil, docs[live].at = "open" PROVE docs'[live].sealed
  <2>1. docs[live].sealed \/ \E t \in Sends : at[t] = "stamped"
    BY <1>3 DEF WordInv, SealHolds
  <2>2. \A t \in Sends : at[t] = "stamped" => t = s
    BY DEF WordInv, OneDecides, Decides
  <2> QED BY <2>1, <2>2
<1> QED BY <1>1, <1>2, <1>3 DEF WordInv, OneDecides, SealHolds

LEMMA SealedWords == ASSUME DocInv, WordInv, NEW s \in Sends, Sealed(s) PROVE WordInv'
<1>1. Decides(s) /\ at[s] = "flushed" /\ s \in Readers /\ live \in Docs /\ live # Nil
      /\ docs[live].at = "open" /\ docs[live] \in DocRows /\ of[s] = live
  BY SendIsIn DEF Sealed, Decides
<1>2. UNCHANGED <<row, live, word, by, fate>>
  BY DEF Sealed
<1>3. CASE /\ docs[of[s]].dirty
           /\ Change(of[s], [docs[of[s]] EXCEPT !.deciding = FALSE])
           /\ at' = [at EXCEPT ![s] = "settled"] /\ mine' = [mine EXCEPT ![s] = Nil]
           /\ UNCHANGED bytes
  <2> DEFINE new == [docs[live] EXCEPT !.deciding = FALSE]
  <2>1. Like(new, docs[live]) /\ new.sealed = docs[live].sealed
    BY <1>1 DEF Like, DocRows, DocFields
  <2>2. docs' = [docs EXCEPT ![live] = new]
    BY <1>1, <1>3 DEF Change
  <2> HIDE DEF new
  <2>3. /\ Steady /\ StillAbsent
        /\ \A x \in Docs : docs'[x].acceptances = docs[x].acceptances
        /\ \A x \in Docs : docs'[x].at = docs[x].at
    BY <1>1, <1>2, <1>3, <2>1, <2>2, LikeStays
  <2>4. /\ WordsSafe' /\ TypedKnown' /\ IdsKnown' /\ at'[s] = "settled"
        /\ \A t \in Sends : t # s => at'[t] = at[t]
    BY <1>2, <1>3, <2>3, SendMoves
  <2>5. \A t \in Sends : t # s => mine'[t] = mine[t]
    BY <1>3, DocParts, ConnsAreReaders
  <2>6. docs'[live].sealed = docs[live].sealed
    BY <1>1, <2>1, <2>2, DocParts
  <2>7. docs'[live].sealed = (docs[live].sealed \/ at[s] = "stamped")
    BY <1>1, <2>6 DEF DocRows, DocFields
  <2>8. OneDecides' /\ SealHolds'
    BY <1>1, <1>2, <2>3, <2>4, <2>5, <2>7, GivesBack
  <2> QED BY <2>4, <2>8 DEF WordInv
<1>4. CASE /\ ~docs[of[s]].dirty
           /\ bytes' = [bytes EXCEPT ![s] = docs[of[s]].words]
           /\ at' = [at EXCEPT ![s] = "deciding"]
           /\ UNCHANGED <<docs, mine>>
  <2>1. /\ bytes'[s] = docs[live].words /\ \A t \in Sends : t # s => bytes'[t] = bytes[t]
        /\ at'[s] = "deciding" /\ \A r \in Readers : r # s => at'[r] = at[r]
    BY <1>1, <1>4, DocParts
  <2>2. \A c \in Conns : at'[c] = at[c] /\ c \in Readers
    BY <2>1, ConnsAreReaders
  <2>3. Steady
    BY <1>4 DEF Steady
  <2>4. TypedKnown' /\ IdsKnown'
    BY <1>2, <1>4, <2>2, <2>3, TypedStays DEF WordInv
  <2>5. ASSUME NEW w \in Words, fate'[w] \in {"untyped", "sent"} PROVE Absent(w)'
    <3>1. Absent(w)
      BY <1>2, <2>5 DEF WordInv, WordsSafe
    <3>2. \A d \in Docs : w \notin docs'[d].words /\ w \notin Storing(docs[d])'
      BY <1>4, <3>1 DEF Absent, Storing
    <3>3. \A t \in Sends : w \notin bytes'[t]
      BY <1>1, <2>1, <3>1 DEF Absent
    <3> QED BY <1>2, <3>1, <3>2, <3>3 DEF Absent
  <2>6. ASSUME NEW w \in Words, fate'[w] = "taken" PROVE Safe(w)' /\ w \in docs[live].words
    <3>1. Safe(w)
      BY <1>2, <2>6 DEF WordInv, WordsSafe
    <3>2. w \in docs[live].words
      BY <1>1, <3>1 DEF Safe, InStep, InHand, ToStore
    <3> QED BY <1>2, <2>3, <2>6, <3>1, <3>2, SafeKeeps DEF WordInv
  <2>7. \A t \in Sends : Decides(t)' => Decides(t)
    BY <1>1, <1>4, <2>1, ConnsAreReaders DEF Decides
  <2>8. OneDecides'
    BY <1>1, <1>2, <1>4, <2>7 DEF WordInv, OneDecides
  <2>9. SealHolds'
    <3>1. ASSUME NEW t \in Sends, at'[t] = "deciding"
          PROVE  \A w \in Words : fate'[w] = "taken" => w \in bytes'[t]
      BY <1>2, <2>1, <2>6, <3>1, ConnsAreReaders DEF WordInv, SealHolds
    <3>2. \A t \in Sends : at'[t] = "stamped" <=> at[t] = "stamped"
      BY <1>1, <2>1, ConnsAreReaders
    <3> QED BY <1>2, <1>4, <3>1, <3>2 DEF WordInv, SealHolds
  <2> QED BY <2>4, <2>5, <2>6, <2>8, <2>9 DEF WordInv, WordsSafe
<1> QED BY <1>3, <1>4 DEF Sealed

LEMMA StampWords == ASSUME DocInv, WordInv, NEW s \in Sends, Stamp(s) PROVE WordInv'
<1>1. /\ Decides(s) /\ at[s] = "deciding" /\ s \in Readers /\ live \in Docs /\ live # Nil
      /\ docs[live].at = "open" /\ docs[live] \in DocRows
      /\ UNCHANGED <<docs, live, mine, of, word, by, fate, bytes>>
  BY SendIsIn DEF Stamp, Decides
<1>2. Steady
  BY <1>1 DEF Steady
<1>3. CASE ~row.sent /\ row' = [words |-> bytes[s], sent |-> TRUE]
           /\ at' = [at EXCEPT ![s] = "stamped"]
  <2>1. /\ at'[s] = "stamped" /\ \A r \in Readers : r # s => at'[r] = at[r]
        /\ row'.words = bytes[s] /\ row'.sent
    BY <1>1, <1>3, DocParts
  <2>2. \A c \in Conns : at'[c] = at[c] /\ c \in Readers
    BY <2>1, ConnsAreReaders
  <2>3. TypedKnown' /\ IdsKnown'
    BY <1>1, <1>2, <2>2, TypedStays DEF WordInv
  <2>4. ASSUME NEW w \in Words, fate'[w] \in {"untyped", "sent"} PROVE Absent(w)'
    <3>1. Absent(w)
      BY <1>1, <2>4 DEF WordInv, WordsSafe
    <3>2. \A d \in Docs : w \notin docs'[d].words /\ w \notin Storing(docs[d])'
      BY <1>1, <3>1 DEF Absent, Storing
    <3> QED BY <1>1, <2>1, <3>1, <3>2 DEF Absent
  <2>5. ASSUME NEW w \in Words, fate'[w] = "taken" PROVE w \in row'.words /\ Safe(w)'
    <3>1. Safe(w) /\ w \in row'.words
      BY <1>1, <2>1, <2>5 DEF WordInv, WordsSafe, SealHolds
    <3>2. /\ w \in docs[live].words
          /\ \A d \in Docs : docs[d].saving # <<>> => w \in docs[d].words
      BY <1>1, <3>1 DEF Safe, InStep, InHand, ToStore, Alone
    <3>3. InStep(w)'
      BY <1>1, <2>1, <3>2 DEF InStep
    <3> QED BY <3>1, <3>3 DEF Safe
  <2>6. \A t \in Sends : /\ Decides(t)' => Decides(t)
                         /\ t # s => at'[t] \notin {"deciding", "stamped"}
    BY <1>1, <2>1, ConnsAreReaders DEF WordInv, OneDecides, Decides
  <2>7. OneDecides'
    BY <1>1, <2>6 DEF WordInv, OneDecides
  <2>8. SealHolds'
    BY <1>1, <2>1, <2>5, <2>6 DEF SealHolds
  <2> QED BY <2>3, <2>4, <2>5, <2>7, <2>8 DEF WordInv, WordsSafe
<1>4. CASE at' = [at EXCEPT ![s] = "refused"] /\ UNCHANGED row
  <2>1. StillAbsent
    BY <1>1, <1>4 DEF StillAbsent
  <2>2. /\ WordsSafe' /\ TypedKnown' /\ IdsKnown' /\ at'[s] = "refused"
        /\ \A t \in Sends : t # s => at'[t] = at[t]
    BY <1>1, <1>2, <1>4, <2>1, SendMoves
  <2>3. \A t \in Sends : /\ Decides(t)' => Decides(t)
                         /\ at'[t] = "deciding" => at[t] = "deciding"
                         /\ at'[t] = "stamped" <=> at[t] = "stamped"
    BY <1>1, <2>2 DEF Decides
  <2>4. OneDecides' /\ SealHolds'
    BY <1>1, <1>4, <2>3, SealStays DEF WordInv
  <2> QED BY <2>2, <2>4 DEF WordInv
<1> QED BY <1>3, <1>4 DEF Stamp

LEMMA SettleWords == ASSUME DocInv, WordInv, NEW s \in Sends, Settle(s) PROVE WordInv'
<1>1. /\ Decides(s) /\ at[s] \in {"stamped", "refused"} /\ s \in Readers /\ live \in Docs
      /\ live # Nil /\ docs[live].at = "open" /\ docs[live] \in DocRows /\ of[s] = live
      /\ UNCHANGED <<row, live, word, by, fate, bytes>>
      /\ at' = [at EXCEPT ![s] = "settled"] /\ mine' = [mine EXCEPT ![s] = Nil]
  BY SendIsIn DEF Settle, Decides
<1>2. PICK new : /\ docs' = [docs EXCEPT ![live] = new]
                 /\ new.at = docs[live].at /\ new.words = docs[live].words
                 /\ new.acceptances = docs[live].acceptances
                 /\ new.unsaved = docs[live].unsaved /\ new.store = docs[live].store
                 /\ new.saving = docs[live].saving
                 /\ at[s] = "stamped" \/ new.dirty = docs[live].dirty
                 /\ new.sealed = (docs[live].sealed \/ at[s] = "stamped")
  <2>1. CASE at[s] = "stamped"
    <3> DEFINE new == [docs[live] EXCEPT !.sealed = TRUE, !.dirty = FALSE, !.timer = FALSE,
                                         !.deciding = FALSE]
    <3>1. docs' = [docs EXCEPT ![live] = new]
      BY <1>1, <2>1 DEF Settle, Change
    <3> WITNESS new
    <3> QED BY <1>1, <2>1, <3>1 DEF DocRows, DocFields
  <2>2. CASE at[s] = "refused"
    <3> DEFINE new == [docs[live] EXCEPT !.deciding = FALSE]
    <3>1. docs' = [docs EXCEPT ![live] = new]
      BY <1>1, <2>2 DEF Settle, Change
    <3> WITNESS new
    <3> QED BY <1>1, <2>2, <3>1 DEF DocRows, DocFields
  <2> QED BY <1>1, <2>1, <2>2
<1>3. at[s] = "stamped" => AllStored
  BY DEF WordInv, SealHolds, AllStored
<1>4. /\ docs'[live] = new /\ \A d \in Docs : d # live => docs'[d] = docs[d]
  BY <1>1, <1>2, DocParts
<1>5. ASSUME NEW d \in Docs
      PROVE  /\ docs'[d].at = docs[d].at /\ docs'[d].words = docs[d].words
             /\ docs'[d].acceptances = docs[d].acceptances
             /\ docs'[d].unsaved = docs[d].unsaved /\ docs'[d].store = docs[d].store
             /\ docs'[d].saving = docs[d].saving
             /\ AllStored \/ docs'[d].dirty = docs[d].dirty
  BY <1>2, <1>3, <1>4
<1>6. Steady /\ StillAbsent
  <2>1. Steady
    BY <1>5 DEF Steady
  <2>2. StillAbsent
    BY <1>1, <1>5 DEF StillAbsent
  <2> QED BY <2>1, <2>2
<1>7. /\ WordsSafe' /\ TypedKnown' /\ IdsKnown' /\ at'[s] = "settled"
      /\ \A t \in Sends : t # s => at'[t] = at[t]
  BY <1>1, <1>5, <1>6, SendMoves
<1>8. \A t \in Sends : t # s => mine'[t] = mine[t]
  BY <1>1, DocParts, ConnsAreReaders
<1>9. OneDecides' /\ SealHolds'
  BY <1>1, <1>2, <1>4, <1>7, <1>8, GivesBack
<1> QED BY <1>7, <1>9 DEF WordInv

-----------------------------------------------------------------------------
(* One more store is asked for of the document in the map.                 *)
LEMMA SealDocWords == ASSUME DocInv, WordInv, NEW s \in Sends, SealDoc(s) PROVE WordInv'
<1>1. /\ at[s] = "sealing" /\ s \in Readers /\ live \in Docs /\ live # Nil
      /\ docs[live].at = "open" /\ docs[live] \in DocRows
  BY SendIsIn DEF SealDoc, Sealing
<1> DEFINE q == Append(docs[live].saving, [who |-> s, store |-> docs[live].dirty])
           new == [docs[live] EXCEPT !.deciding = TRUE, !.saving = q]
<1>2. /\ docs' = [docs EXCEPT ![live] = new] /\ ~ docs[live].deciding
      /\ at' = [at EXCEPT ![s] = "flushing"]
      /\ UNCHANGED <<row, live, mine, word, by, fate, bytes>>
  BY <1>1 DEF SealDoc, Change, Goto
<1>3. /\ new.at = docs[live].at /\ new.words = docs[live].words /\ new.dirty = docs[live].dirty
      /\ new.acceptances = docs[live].acceptances /\ new.unsaved = docs[live].unsaved
      /\ new.store = docs[live].store /\ new.sealed = docs[live].sealed /\ new.deciding
  BY <1>1 DEF DocRows, DocFields
<1> HIDE DEF new
<1>4. docs'[live] = new /\ \A d \in Docs : d # live => docs'[d] = docs[d]
  BY <1>1, <1>2, DocParts
<1>5. ASSUME NEW d \in Docs
      PROVE  /\ docs'[d].at = docs[d].at /\ docs'[d].words = docs[d].words
             /\ docs'[d].acceptances = docs[d].acceptances /\ docs'[d].dirty = docs[d].dirty
             /\ docs'[d].unsaved = docs[d].unsaved /\ docs'[d].store = docs[d].store
             /\ docs'[d].saving = docs[d].saving \/ (d = live /\ docs[d].at = "open")
  BY <1>1, <1>3, <1>4
<1>6. Steady /\ StillAbsent
  <2>1. Steady
    BY <1>5 DEF Steady
  <2>2. StillAbsent
    BY <1>2, <1>5 DEF StillAbsent
  <2> QED BY <2>1, <2>2
<1>7. /\ WordsSafe' /\ TypedKnown' /\ IdsKnown' /\ at'[s] = "flushing"
      /\ \A t \in Sends : t # s => at'[t] = at[t]
  BY <1>2, <1>5, <1>6, SendMoves
<1>8. \A t \in Sends : /\ Decides(t)' => t = s
                       /\ at'[t] # "deciding" /\ ~ Decides(t)
                       /\ at'[t] # "stamped"
  BY <1>1, <1>2, <1>7 DEF WordInv, OneDecides, Decides
<1>9. OneDecides'
  BY <1>1, <1>2, <1>3, <1>4, <1>8 DEF OneDecides
<1>10. SealHolds'
  BY <1>1, <1>2, <1>3, <1>4, <1>8 DEF WordInv, SealHolds, Decides
<1> QED BY <1>7, <1>9, <1>10 DEF WordInv

LEMMA TimerWords == ASSUME DocInv, WordInv, NEW d \in Docs, Timer(d) PROVE WordInv'
<1>1. /\ live # Nil => docs[live].at = "open"
      /\ UNCHANGED <<row, live, at, mine, of, word, by, fate, bytes>>
  BY DEF Timer
<1>2. ASSUME NEW x \in Docs
      PROVE  /\ docs'[x].at = docs[x].at /\ docs'[x].words = docs[x].words
             /\ docs'[x].acceptances = docs[x].acceptances /\ docs'[x].dirty = docs[x].dirty
             /\ docs'[x].unsaved = docs[x].unsaved /\ docs'[x].store = docs[x].store
             /\ docs'[x].sealed = docs[x].sealed /\ docs'[x].deciding = docs[x].deciding
             /\ docs'[x].saving = docs[x].saving \/ x = live
  <2> DEFINE doc == IF x = d THEN [docs[x] EXCEPT !.timer = FALSE] ELSE docs[x]
  <2>1. docs'[x] = IF x = live THEN Flushing(doc, "timer") ELSE doc
    BY DEF Timer
  <2>2. docs[x] \in DocFields
    BY DocParts
  <2>3. doc = docs[x] \/ doc = [docs[x] EXCEPT !.timer = FALSE]
    OBVIOUS
  <2>4. /\ doc \in DocFields
        /\ doc.at = docs[x].at /\ doc.words = docs[x].words
        /\ doc.acceptances = docs[x].acceptances /\ doc.dirty = docs[x].dirty
        /\ doc.unsaved = docs[x].unsaved /\ doc.store = docs[x].store
        /\ doc.sealed = docs[x].sealed /\ doc.deciding = docs[x].deciding
        /\ doc.saving = docs[x].saving
    <3> HIDE DEF doc
    <3> QED BY <2>2, <2>3 DEF DocFields
  <2> HIDE DEF doc
  <2>5. CASE x = live
    <3>1. docs'[x] = [doc EXCEPT !.saving = Append(@, [who |-> "timer", store |-> TRUE])]
      BY <2>1, <2>5 DEF Flushing
    <3> QED BY <2>4, <2>5, <3>1 DEF DocFields
  <2>6. CASE x # live
    BY <2>1, <2>4, <2>6
  <2> QED BY <2>5, <2>6
<1>3. Steady /\ StillAbsent
  <2>1. Steady
    BY <1>1, <1>2, DocsAreNumbers DEF Steady
  <2>2. StillAbsent
    BY <1>1, <1>2 DEF StillAbsent
  <2> QED BY <2>1, <2>2
<1>4. WordsSafe' /\ TypedKnown' /\ IdsKnown'
  BY <1>1, <1>2, <1>3, WordsStay
<1>5. OneDecides' /\ SealHolds'
  BY <1>1, <1>2, SealStays, DocParts DEF WordInv, Decides
<1> QED BY <1>4, <1>5 DEF WordInv

-----------------------------------------------------------------------------
(* Who is stored while a document is: of what is not in the row, only that *)
(* document's words.                                                       *)
LEMMA OnlyHere ==
    ASSUME DocInv, NEW d \in Docs, docs[d].saving # <<>>,
           NEW w \in Words, Safe(w), w \notin row.words
    PROVE  /\ Alone(d) /\ w \in docs[d].words
           /\ live # Nil => live = d /\ docs[d].at = "open" /\ ToStore(docs[d], w)
           /\ live = Nil => docs[d].at = "gone" /\ w \in Storing(docs[d])
<1>1. InHand(w) /\ live \in Docs \cup {Nil}
  BY DocParts DEF Safe
<1>2. CASE live # Nil
  <2>1. docs[live].at = "open" /\ ToStore(docs[live], w) /\ Alone(live)
    BY <1>1, <1>2 DEF InHand
  <2>2. live = d
    BY <1>1, <1>2, <2>1 DEF Alone
  <2> QED BY <1>2, <2>1, <2>2 DEF ToStore
<1>3. CASE live = Nil
  <2>1. PICK e \in Docs : /\ docs[e].at = "gone" /\ Alone(e)
                          /\ w \in docs[e].words \cap Storing(docs[e])
    BY <1>1, <1>3 DEF InHand
  <2>2. e = d
    BY <2>1 DEF Alone
  <2> QED BY <1>3, <2>1, <2>2
<1> QED BY <1>2, <1>3

(* A step of a store: its document keeps its words.                        *)
LEMMA StoreSteps ==
    ASSUME DocInv, WordInv, NEW d \in Docs, NEW new, docs' = [docs EXCEPT ![d] = new],
           new.at = docs[d].at, new.words = docs[d].words, new.deciding = docs[d].deciding,
           docs[d].sealed => new.sealed,
           new.saving # <<>> => docs[d].saving # <<>>,
           \A id \in new.acceptances : \/ id \in docs[d].acceptances
                                       \/ Writing(docs[d]) /\ id \in docs[d].store.own,
           new.store.at \in {"writing", "encoded"} =>
              \A id \in new.store.own : \/ id \in docs[d].acceptances
                                        \/ Writing(docs[d]) /\ id \in docs[d].store.own,
           \A x \in Words : /\ fate'[x] = "taken" => fate[x] = "taken"
                            /\ fate'[x] \in {"untyped", "sent"} <=> fate[x] \in {"untyped", "sent"}
                            /\ fate'[x] = "untyped" <=> fate[x] = "untyped",
           \/ at' = at
           \/ docs[d].saving # <<>> /\ Wakes(d),
           UNCHANGED <<live, mine, word, by, bytes>>, row'.sent = row.sent,
           row.sent => row.words \subseteq row'.words
    PROVE  TypedKnown' /\ IdsKnown' /\ OneDecides' /\ SealHolds'
<1>1. docs'[d] = new /\ \A x \in Docs : x # d => docs'[x] = docs[x]
  BY DocParts
<1>2. /\ \A s \in Sends : /\ Decides(s)' => Decides(s)
                          /\ at'[s] = "deciding" => at[s] = "deciding"
                          /\ at'[s] = "stamped" <=> at[s] = "stamped"
      /\ \A c \in Conns : at'[c] = at[c] \/ (at[c] \notin Typing /\ at'[c] \notin Typing)
  <2>1. CASE at' = at
    BY <2>1 DEF Decides
  <2>2. CASE docs[d].saving # <<>> /\ Wakes(d)
    BY <2>2, WakeSeals
  <2> QED BY <2>1, <2>2
<1>3. TypedKnown'
  <2>1. \A c \in Conns : at'[c] \in Typing => at[c] \in Typing /\ word'[c] = word[c]
                                              /\ word[c] \in Words
    BY <1>2, DocParts
  <2>2. \A c \in Conns : at[c] \in Typing => fate'[word[c]] = "sent"
    BY DocParts DEF WordInv, TypedKnown
  <2> QED BY <2>1, <2>2 DEF WordInv, TypedKnown
<1>4. IdsKnown'
  <2>1. ASSUME NEW x \in Docs
        PROVE  /\ \A id \in docs'[x].acceptances : fate'[id] # "untyped"
               /\ Writing(docs[x])' => \A id \in docs'[x].store.own : fate'[id] # "untyped"
    <3>1. CASE x = d
      BY <1>1, <3>1, DocParts DEF WordInv, IdsKnown, Writing
    <3>2. CASE x # d
      BY <1>1, <3>2, DocParts DEF WordInv, IdsKnown, Writing
    <3> QED BY <3>1, <3>2
  <2> QED BY <2>1 DEF IdsKnown
<1>5. OneDecides' /\ SealHolds'
  BY <1>1, <1>2, SealStays, DocParts DEF WordInv
<1> QED BY <1>3, <1>4, <1>5

(* A store that was answered with no writers was answered with nothing.    *)
AskedKnown ==
    \A d \in Docs : docs[d].store.at = "asked" /\ docs[d].store.names = {} =>
        docs[d].store.ids = {}

LEMMA UnstoredIs ==
    ASSUME NEW doc, NEW outcome, outcome \notin {"taken", "sent", "untyped"},
           fate' = Unstored(doc, outcome)
    PROVE  \A w \in Words :
              /\ fate'[w] = "taken" => fate[w] = "taken" /\ ~ (w \in doc.words /\ w \notin row.words)
              /\ fate'[w] \in {"untyped", "sent"} <=> fate[w] \in {"untyped", "sent"}
              /\ fate'[w] = "untyped" <=> fate[w] = "untyped"
BY DEF Unstored

(* The words of the documents, and what is encoded, are the same.          *)
LEMMA SameWordsAbsent ==
    ASSUME NEW w \in Words, Absent(w), bytes' = bytes, w \notin row'.words,
           \A x \in Docs : /\ docs'[x].words = docs[x].words
                           /\ w \notin Storing(docs[x])'
    PROVE  Absent(w)'
BY DEF Absent

LEMMA InStepKeeps ==
    ASSUME DocInv, NEW w \in Words, InStep(w), NEW d \in Docs, docs[d].saving # <<>>,
           \A x \in Docs : x # d => docs'[x] = docs[x],
           docs'[d].at = docs[d].at, docs'[d].words = docs[d].words,
           docs'[d].store.at = "encoded" /\ ~ row.sent => w \in docs'[d].store.words,
           live' = live, row'.sent = row.sent
    PROVE  InStep(w)'
<1>1. live' # Nil /\ docs'[live'].at = "open" => w \in docs'[live'].words
  BY DocParts DEF InStep
<1>2. ASSUME NEW x \in Docs, docs'[x].saving # <<>>
      PROVE  /\ w \in docs'[x].words
             /\ docs'[x].store.at = "encoded" /\ ~ row'.sent => w \in docs'[x].store.words
  <2>1. CASE x = d
    BY <2>1 DEF InStep
  <2>2. CASE x # d
    BY <1>2, <2>2 DEF InStep
  <2> QED BY <2>1, <2>2
<1> QED BY <1>1, <1>2 DEF InStep

LEMMA NameWords ==
    ASSUME DocInv, WordInv, AskedKnown, NEW d \in Docs, Name(d) PROVE WordInv'
<1> DEFINE doc == docs[d]
           st == doc.store
           told == IF doc.acceptances \subseteq st.ids THEN doc.unsaved ELSE "lost"
<1>1. /\ doc \in DocRows /\ doc.saving # <<>> /\ st.at = "asked" /\ st \in Stores
      /\ ~ Writing(docs[d]) /\ Storing(docs[d]) = {}
      /\ UNCHANGED <<row, live, mine, word, by, bytes>>
  BY DocParts DEF Name, Writing, Storing
<1>2. CASE st.names = {}
  <2> DEFINE new == [Finished(doc) EXCEPT
                    !.unsaved = told, !.acceptances = {}, !.writers = {}, !.dirty = FALSE,
                    !.accepted = @ \ doc.writers]
  <2>1. docs' = [docs EXCEPT ![d] = new] /\ Wakes(d)
        /\ fate' = IF told = "lost" THEN Unstored(doc, "told") ELSE fate
    BY <1>2 DEF Name, Change
  <2>2. /\ new.at = doc.at /\ new.words = doc.words /\ new.deciding = doc.deciding
        /\ new.sealed = doc.sealed /\ new.acceptances = {} /\ new.store.at = "none"
    <3>1. Finished(doc) = [doc EXCEPT !.saving = Tail(@), !.store = NoStore] /\ NoStore.at = "none"
      BY DEF Finished, NoStore
    <3> QED BY <1>1, <3>1 DEF DocRows, DocFields
  <2> HIDE DEF new
  <2>3. \A x \in Words : /\ fate'[x] = "taken" => fate[x] = "taken"
                         /\ fate'[x] \in {"untyped", "sent"} <=> fate[x] \in {"untyped", "sent"}
                         /\ fate'[x] = "untyped" <=> fate[x] = "untyped"
    BY <2>1, UnstoredIs
  <2>4. TypedKnown' /\ IdsKnown' /\ OneDecides' /\ SealHolds'
    BY <1>1, <2>1, <2>2, <2>3, StoreSteps
  <2>5. /\ docs'[d] = new /\ \A x \in Docs : x # d => docs'[x] = docs[x]
        /\ Storing(docs[d])' = {}
    <3>1. docs'[d] = new /\ \A x \in Docs : x # d => docs'[x] = docs[x]
      BY <2>1, DocParts
    <3> QED BY <2>2, <3>1 DEF Storing
  <2>6. ASSUME NEW w \in Words, fate'[w] \in {"untyped", "sent"} PROVE Absent(w)'
    <3>1. Absent(w)
      BY <2>3, <2>6 DEF WordInv, WordsSafe
    <3>2. ASSUME NEW x \in Docs
          PROVE  docs'[x].words = docs[x].words /\ w \notin Storing(docs[x])'
      BY <2>2, <2>5, <3>1 DEF Absent, Storing
    <3> QED BY <1>1, <3>1, <3>2, SameWordsAbsent DEF Absent
  <2>7. ASSUME NEW w \in Words, fate'[w] = "taken" PROVE Safe(w)'
    <3>1. Safe(w)
      BY <2>3, <2>7 DEF WordInv, WordsSafe
    <3>2. w \in row.words
      <4> SUFFICES ASSUME w \notin row.words PROVE FALSE
        OBVIOUS
      <4>1. w \in doc.words /\ (live # Nil => ToStore(docs[d], w)) /\ live # Nil
        BY <1>1, <3>1, OnlyHere
      <4>2. CASE told = "lost"
        BY <2>1, <2>7, <4>1, <4>2, UnstoredIs
      <4>3. CASE told # "lost"
        <5>1. doc.acceptances = {} /\ doc.unsaved # "lost"
          BY <1>1, <1>2, <4>3 DEF AskedKnown
        <5> QED BY <1>1, <4>1, <5>1 DEF ToStore, Recorded
      <4> QED BY <4>2, <4>3
    <3>3. InStep(w)
      BY <3>1, <3>2 DEF Safe
    <3>4. InStep(w)'
      BY <1>1, <2>2, <2>5, <3>3, InStepKeeps
    <3> QED BY <1>1, <3>2, <3>4 DEF Safe
  <2> QED BY <2>4, <2>6, <2>7 DEF WordInv, WordsSafe
<1>3. CASE st.names # {}
  <2> DEFINE sn == [st EXCEPT !.at = "writing", !.local = doc.writers \cap st.names,
                              !.own = doc.acceptances \cap st.ids]
             new == [doc EXCEPT
                    !.unsaved = told, !.acceptances = {}, !.writers = {}, !.accepted = {},
                    !.dirty = FALSE, !.store = sn]
  <2>1. docs' = [docs EXCEPT ![d] = new] /\ UNCHANGED <<at, fate>>
    BY <1>3 DEF Name, Change
  <2>2. sn.at = "writing" /\ sn.own = doc.acceptances \cap st.ids
    <3>1. st \in Stores \ {NoStore}
      BY <1>1 DEF NoStore
    <3> HIDE DEF st, doc
    <3> QED BY <3>1 DEF Stores
  <2> HIDE DEF sn
  <2>3. /\ new.at = doc.at /\ new.words = doc.words /\ new.deciding = doc.deciding
        /\ new.sealed = doc.sealed /\ new.acceptances = {} /\ new.store = sn
        /\ new.saving = doc.saving /\ new.unsaved = told
    BY <1>1 DEF DocRows, DocFields
  <2> HIDE DEF new
  <2>4. TypedKnown' /\ IdsKnown' /\ OneDecides' /\ SealHolds'
    BY <1>1, <2>1, <2>2, <2>3, StoreSteps
  <2>5. /\ docs'[d] = new /\ \A x \in Docs : x # d => docs'[x] = docs[x]
        /\ Storing(docs[d])' = doc.words /\ Writing(docs[d])'
    <3>1. docs'[d] = new /\ \A x \in Docs : x # d => docs'[x] = docs[x]
      BY <2>1, DocParts
    <3> QED BY <2>2, <2>3, <3>1 DEF Storing, Writing
  <2>6. ASSUME NEW w \in Words, fate'[w] \in {"untyped", "sent"} PROVE Absent(w)'
    <3>1. Absent(w)
      BY <2>1, <2>6 DEF WordInv, WordsSafe
    <3>2. ASSUME NEW x \in Docs
          PROVE  docs'[x].words = docs[x].words /\ w \notin Storing(docs[x])'
      BY <2>3, <2>5, <3>1 DEF Absent, Storing
    <3> QED BY <1>1, <3>1, <3>2, SameWordsAbsent DEF Absent
  <2>7. ASSUME NEW w \in Words, fate'[w] = "taken" PROVE Safe(w)'
    <3>1. Safe(w)
      BY <2>1, <2>7 DEF WordInv, WordsSafe
    <3>2. CASE w \in row.words
      <4>1. InStep(w)
        BY <3>1, <3>2 DEF Safe
      <4>2. InStep(w)'
        BY <1>1, <2>2, <2>3, <2>5, <4>1, InStepKeeps
      <4> QED BY <1>1, <3>2, <4>2 DEF Safe
    <3>3. CASE w \notin row.words
      <4>1. /\ Alone(d) /\ w \in doc.words /\ live # Nil /\ live = d /\ doc.at = "open"
            /\ doc.unsaved = "lost" \/ Recorded(docs[d], w)
        BY <1>1, <3>1, <3>3, OnlyHere DEF ToStore
      <4>2. told = "lost" \/ Carried(docs[d], w)'
        <5>1. CASE told # "lost"
          <6>1. PICK id \in doc.acceptances : by[id] = by[w]
            BY <4>1, <5>1 DEF Recorded
          <6>2. id \in docs'[d].store.own
            BY <2>2, <2>3, <2>5, <5>1, <6>1
          <6> QED BY <1>1, <6>1, <6>2 DEF Carried
        <5> QED BY <5>1
      <4>3. ToStore(docs[d], w)'
        BY <2>3, <2>5, <4>1, <4>2 DEF ToStore
      <4>4. Alone(d)'
        BY <2>5, <4>1 DEF Alone
      <4>5. InHand(w)'
        BY <1>1, <2>3, <2>5, <4>1, <4>3, <4>4 DEF InHand
      <4> QED BY <1>1, <3>3, <4>5 DEF Safe
    <3> QED BY <3>2, <3>3
  <2> QED BY <2>4, <2>6, <2>7 DEF WordInv, WordsSafe
<1> QED BY <1>2, <1>3

LEMMA EncodeWords == ASSUME DocInv, WordInv, NEW d \in Docs, Encode(d) PROVE WordInv'
<1> DEFINE st == [docs[d].store EXCEPT !.at = "encoded", !.words = docs[d].words]
           new == [docs[d] EXCEPT !.store = st]
<1>1. /\ docs[d] \in DocRows /\ docs[d].store.at = "writing" /\ docs[d].saving # <<>>
      /\ Writing(docs[d]) /\ Storing(docs[d]) = docs[d].words
      /\ docs[d].store \in Stores \ {NoStore}
      /\ UNCHANGED <<row, live, at, mine, of, word, by, fate, bytes>>
  BY DocParts DEF Encode, Writing, Storing, NoStore
<1>2. docs' = [docs EXCEPT ![d] = new]
  <2>1. [docs[d] EXCEPT !.store = [@ EXCEPT !.at = "encoded", !.words = docs[d].words]] = new
    BY <1>1 DEF DocRows, DocFields
  <2> QED BY <2>1 DEF Encode, Change
<1>3. st.at = "encoded" /\ st.words = docs[d].words /\ st.own = docs[d].store.own
  BY <1>1 DEF Stores
<1> HIDE DEF st
<1>4. /\ new.at = docs[d].at /\ new.words = docs[d].words /\ new.deciding = docs[d].deciding
      /\ new.sealed = docs[d].sealed /\ new.acceptances = docs[d].acceptances
      /\ new.store = st /\ new.saving = docs[d].saving /\ new.unsaved = docs[d].unsaved
      /\ new.dirty = docs[d].dirty
  BY <1>1 DEF DocRows, DocFields
<1> HIDE DEF new
<1>5. TypedKnown' /\ IdsKnown' /\ OneDecides' /\ SealHolds'
  <2>1. \A id \in new.store.own : Writing(docs[d]) /\ id \in docs[d].store.own
    BY <1>1, <1>3, <1>4
  <2>2. /\ docs[d].sealed => new.sealed
        /\ new.saving # <<>> => docs[d].saving # <<>>
        /\ \A id \in new.acceptances : id \in docs[d].acceptances
        /\ row'.sent = row.sent /\ row.words \subseteq row'.words
    BY <1>1, <1>4
  <2> QED BY <1>1, <1>2, <1>4, <2>1, <2>2, StoreSteps
<1>6. /\ docs'[d] = new /\ \A x \in Docs : x # d => docs'[x] = docs[x]
      /\ Storing(docs[d])' = docs[d].words /\ Writing(docs[d])'
  <2>1. docs'[d] = new /\ \A x \in Docs : x # d => docs'[x] = docs[x]
    BY <1>2, DocParts
  <2> QED BY <1>3, <1>4, <2>1 DEF Storing, Writing
<1>7. ASSUME NEW w \in Words, fate'[w] \in {"untyped", "sent"} PROVE Absent(w)'
  <2>1. Absent(w)
    BY <1>1, <1>7 DEF WordInv, WordsSafe
  <2>2. ASSUME NEW x \in Docs
        PROVE  docs'[x].words = docs[x].words /\ w \notin Storing(docs[x])'
    BY <1>4, <1>6, <2>1 DEF Absent, Storing
  <2> QED BY <1>1, <2>1, <2>2, SameWordsAbsent DEF Absent
<1>8. ASSUME NEW w \in Words, fate'[w] = "taken" PROVE Safe(w)'
  <2>1. Safe(w)
    BY <1>1, <1>8 DEF WordInv, WordsSafe
  <2>2. CASE w \in row.words
    <3>1. InStep(w)
      BY <2>1, <2>2 DEF Safe
    <3>2. w \in docs[d].words
      BY <1>1, <3>1 DEF InStep
    <3>3. InStep(w)'
      BY <1>1, <1>3, <1>4, <1>6, <3>1, <3>2, InStepKeeps
    <3> QED BY <1>1, <2>2, <3>3 DEF Safe
  <2>3. CASE w \notin row.words
    <3>1. /\ Alone(d) /\ w \in docs[d].words
          /\ live # Nil => live = d /\ docs[d].at = "open" /\ ToStore(docs[d], w)
          /\ live = Nil => docs[d].at = "gone" /\ w \in Storing(docs[d])
      BY <1>1, <2>1, <2>3, OnlyHere
    <3>2. Alone(d)'
      BY <1>6, <3>1 DEF Alone
    <3>3. /\ Recorded(docs[d], w) => Recorded(docs[d], w)'
          /\ Carried(docs[d], w) => Carried(docs[d], w)'
      BY <1>1, <1>3, <1>4, <1>6 DEF Recorded, Carried
    <3>4. ToStore(docs[d], w) => ToStore(docs[d], w)'
      BY <1>1, <1>4, <1>6, <3>1, <3>3 DEF ToStore
    <3>5. InHand(w)'
      BY <1>1, <1>4, <1>6, <3>1, <3>2, <3>4 DEF InHand
    <3> QED BY <1>1, <2>3, <3>5 DEF Safe
  <2> QED BY <2>2, <2>3
<1> QED BY <1>5, <1>7, <1>8 DEF WordInv, WordsSafe

LEMMA WriteWords == ASSUME DocInv, WordInv, NEW d \in Docs, Write(d) PROVE WordInv'
<1> DEFINE doc == docs[d]
           st == doc.store
           new == [Finished(docs[d]) EXCEPT !.unsaved = "no"]
<1>1. /\ docs[d] \in DocRows /\ docs[d].store.at = "encoded" /\ docs[d].saving # <<>> /\ Wakes(d)
      /\ Writing(docs[d]) /\ Storing(docs[d]) = docs[d].store.words /\ ~ row.sent
      /\ row' = [row EXCEPT !.words = docs[d].store.words] /\ docs' = [docs EXCEPT ![d] = new]
      /\ UNCHANGED <<live, mine, word, by, fate, bytes>>
  BY DocParts DEF Write, Change, Writing, Storing
<1>2. row'.words = docs[d].store.words /\ row'.sent = row.sent
  BY <1>1, DocParts
<1>3. /\ new.at = docs[d].at /\ new.words = docs[d].words /\ new.deciding = docs[d].deciding
      /\ new.sealed = docs[d].sealed /\ new.acceptances = docs[d].acceptances
      /\ new.store.at = "none" /\ new.dirty = docs[d].dirty
  <2>1. /\ Finished(docs[d]) = [docs[d] EXCEPT !.saving = Tail(@), !.store = NoStore]
        /\ NoStore.at = "none"
    BY DEF Finished, NoStore
  <2> QED BY <1>1, <2>1 DEF DocRows, DocFields
<1> HIDE DEF new
<1>4. TypedKnown' /\ IdsKnown' /\ OneDecides' /\ SealHolds'
  BY <1>1, <1>2, <1>3, StoreSteps
<1>5. /\ docs'[d] = new /\ \A x \in Docs : x # d => docs'[x] = docs[x]
      /\ Storing(docs[d])' = {} /\ ~ Writing(docs[d])'
  <2>1. docs'[d] = new /\ \A x \in Docs : x # d => docs'[x] = docs[x]
    BY <1>1, DocParts
  <2> QED BY <1>3, <2>1 DEF Storing, Writing
<1>6. ASSUME NEW w \in Words, fate'[w] \in {"untyped", "sent"} PROVE Absent(w)'
  <2>1. Absent(w) /\ w \notin docs[d].store.words
    BY <1>1, <1>6 DEF WordInv, WordsSafe, Absent
  <2>2. ASSUME NEW x \in Docs
        PROVE  docs'[x].words = docs[x].words /\ w \notin Storing(docs[x])'
    BY <1>3, <1>5, <2>1 DEF Absent, Storing
  <2> QED BY <1>1, <1>2, <2>1, <2>2, SameWordsAbsent
<1>7. ASSUME NEW w \in Words, fate'[w] = "taken" PROVE Safe(w)'
  <2>1. Safe(w)
    BY <1>1, <1>7 DEF WordInv, WordsSafe
  <2>2. CASE w \in row.words
    <3>1. InStep(w) /\ w \in row'.words
      BY <1>1, <1>2, <2>1, <2>2 DEF Safe, InStep
    <3>2. InStep(w)'
      BY <1>1, <1>2, <1>3, <1>5, <3>1, InStepKeeps
    <3> QED BY <3>1, <3>2 DEF Safe
  <2>3. CASE w \notin row.words
    <3>1. /\ Alone(d) /\ w \in docs[d].words
          /\ live # Nil => live = d /\ docs[d].at = "open" /\ ToStore(docs[d], w)
          /\ live = Nil => w \in docs[d].store.words
      BY <1>1, <2>1, <2>3, OnlyHere
    <3>2. CASE w \in docs[d].store.words
      <4>1. \A x \in Docs : docs'[x].saving # <<>> =>
                /\ w \in docs'[x].words
                /\ docs'[x].store.at # "encoded"
        BY <1>3, <1>5, <3>1 DEF Alone
      <4>2. InStep(w)'
        BY <1>1, <1>3, <1>5, <3>1, <4>1 DEF InStep
      <4> QED BY <1>2, <3>2, <4>2 DEF Safe
    <3>3. CASE w \notin docs[d].store.words
      <4>1. live = d /\ live # Nil /\ docs[d].at = "open" /\ docs[d].dirty /\ Recorded(docs[d], w)
        BY <1>1, <3>1, <3>3 DEF ToStore
      <4>2. Recorded(docs[d], w)'
        BY <1>1, <1>3, <1>5, <4>1 DEF Recorded
      <4>3. ToStore(docs[d], w)'
        BY <1>3, <1>5, <3>1, <4>1, <4>2 DEF ToStore
      <4>4. Alone(d)'
        BY <1>5, <3>1 DEF Alone
      <4>5. InHand(w)'
        BY <1>1, <1>3, <1>5, <4>1, <4>3, <4>4 DEF InHand
      <4> QED BY <1>2, <3>3, <4>5 DEF Safe
    <3> QED BY <3>2, <3>3
  <2> QED BY <2>2, <2>3
<1> QED BY <1>4, <1>6, <1>7 DEF WordInv, WordsSafe

LEMMA WriteRefusedWords ==
    ASSUME DocInv, WordInv, NEW d \in Docs, WriteRefused(d) PROVE WordInv'
<1> DEFINE new == [Finished(docs[d]) EXCEPT !.sealed = TRUE,
                      !.unsaved = IF docs[d].late THEN "lost" ELSE @]
<1>1. /\ docs[d] \in DocRows /\ docs[d].store.at = "encoded" /\ docs[d].saving # <<>> /\ Wakes(d)
      /\ row.sent /\ docs' = [docs EXCEPT ![d] = new]
      /\ UNCHANGED <<row, live, mine, word, by, fate, bytes>>
  BY DocParts DEF WriteRefused, Change
<1>2. /\ new.at = docs[d].at /\ new.words = docs[d].words /\ new.deciding = docs[d].deciding
      /\ new.sealed /\ new.acceptances = docs[d].acceptances
      /\ new.store.at = "none" /\ new.dirty = docs[d].dirty
      /\ docs[d].unsaved = "lost" => new.unsaved = "lost"
  <2> DEFINE done == Finished(docs[d])
  <2>1. done = [docs[d] EXCEPT !.saving = Tail(@), !.store = NoStore] /\ NoStore.at = "none"
    BY DEF Finished, NoStore
  <2>2. /\ done.at = docs[d].at /\ done.words = docs[d].words /\ done.deciding = docs[d].deciding
        /\ done.acceptances = docs[d].acceptances /\ done.store.at = "none"
        /\ done.dirty = docs[d].dirty /\ done.unsaved = docs[d].unsaved /\ done \in DocFields
    <3>1. done \in DocFields
      BY <1>1, FinishedDoc DEF DocRows
    <3> QED BY <1>1, <2>1, <3>1 DEF DocRows, DocFields
  <2> HIDE DEF done
  <2>3. new = [done EXCEPT !.sealed = TRUE, !.unsaved = IF docs[d].late THEN "lost" ELSE @]
    BY DEF done
  <2> HIDE DEF new
  <2> QED BY <2>2, <2>3 DEF DocFields
<1> HIDE DEF new
<1>3. docs'[d] = new /\ \A x \in Docs : x # d => docs'[x] = docs[x]
  BY <1>1, DocParts
<1>4. AllStored
  BY <1>1 DEF WordInv, SealHolds, AllStored
<1>5. ASSUME NEW x \in Docs
      PROVE  /\ docs'[x].at = docs[x].at /\ docs'[x].words = docs[x].words
             /\ docs'[x].acceptances = docs[x].acceptances
             /\ docs[x].unsaved = "lost" => docs'[x].unsaved = "lost"
             /\ docs'[x].store = docs[x].store \/ docs'[x].store.at = "none"
             /\ docs'[x].saving # <<>> => docs[x].saving # <<>>
  BY <1>1, <1>2, <1>3
<1>6. Steady /\ StillAbsent
  <2>1. Steady
    BY <1>4, <1>5 DEF Steady
  <2>2. StillAbsent
    BY <1>1, <1>5 DEF StillAbsent
  <2> QED BY <2>1, <2>2
<1>7. \A c \in Conns : at'[c] = at[c] \/ (at[c] \notin Typing /\ at'[c] \notin Typing)
  BY <1>1, WakeSeals
<1>8. WordsSafe' /\ TypedKnown' /\ IdsKnown'
  BY <1>1, <1>5, <1>6, <1>7, WordsStay
<1>9. OneDecides' /\ SealHolds'
  <2>1. \A s \in Sends : /\ Decides(s)' => Decides(s)
                         /\ at'[s] = "deciding" => at[s] = "deciding"
                         /\ at'[s] = "stamped" <=> at[s] = "stamped"
    BY <1>1, WakeSeals
  <2>2. live # Nil => /\ docs[live].deciding => docs'[live].deciding
                      /\ docs[live].sealed => docs'[live].sealed
                      /\ docs'[live].at = "open" => docs[live].at = "open"
    BY <1>2, <1>3, DocParts
  <2> QED BY <1>1, <2>1, <2>2, SealStays DEF WordInv
<1> QED BY <1>8, <1>9 DEF WordInv

LEMMA WriteFailsWords == ASSUME DocInv, WordInv, NEW d \in Docs, WriteFails(d) PROVE WordInv'
<1> DEFINE doc == docs[d]
           st == doc.store
           new == [Finished(doc) EXCEPT
              !.dirty = TRUE, !.acceptances = @ \cup st.own, !.accepted = @ \cup st.local,
              !.writers = @ \cup st.local,
              !.unsaved = IF @ = "no" THEN "unsaved" ELSE @,
              !.timer = doc.readers > 0]
<1>1. docs[d].store.at \in {"writing", "encoded"} /\ ~ row.sent
  BY DEF WriteFails
<1>2. /\ docs' = [docs EXCEPT ![d] = new] /\ Wakes(d)
      /\ fate' = IF doc.at = "gone" THEN Unstored(doc, "unsaved") ELSE fate
      /\ UNCHANGED <<row, live, mine, word, by, bytes>>
  <2>1. docs' = [docs EXCEPT ![d] = new]
    BY DEF WriteFails, Change
  <2>2. Wakes(d)
    BY DEF WriteFails
  <2>3. fate' = IF doc.at = "gone" THEN Unstored(doc, "unsaved") ELSE fate
    BY DEF WriteFails
  <2>4. UNCHANGED <<row, live, mine, word, by, bytes>>
    BY DEF WriteFails
  <2> QED BY <2>1, <2>2, <2>3, <2>4
<1>3. docs[d] \in DocRows /\ docs[d].saving # <<>> /\ Writing(docs[d])
  BY <1>1, StoredDoc DEF Writing
<1>4. /\ new.at = docs[d].at /\ new.words = docs[d].words /\ new.deciding = docs[d].deciding
      /\ new.sealed = docs[d].sealed /\ new.dirty /\ new.store.at = "none"
      /\ new.acceptances = docs[d].acceptances \cup docs[d].store.own
      /\ docs[d].unsaved = "lost" => new.unsaved = "lost"
  <2> DEFINE done == Finished(docs[d])
  <2>1. done = [docs[d] EXCEPT !.saving = Tail(@), !.store = NoStore] /\ NoStore.at = "none"
    BY DEF Finished, NoStore
  <2>2. /\ done.at = docs[d].at /\ done.words = docs[d].words /\ done.deciding = docs[d].deciding
        /\ done.acceptances = docs[d].acceptances /\ done.store.at = "none"
        /\ done.sealed = docs[d].sealed /\ done.unsaved = docs[d].unsaved /\ done \in DocFields
    <3>1. done \in DocFields
      BY <1>3, FinishedDoc DEF DocRows
    <3> QED BY <1>3, <2>1, <3>1 DEF DocRows, DocFields
  <2> HIDE DEF done
  <2>3. new = [done EXCEPT
              !.dirty = TRUE, !.acceptances = @ \cup docs[d].store.own,
              !.accepted = @ \cup docs[d].store.local, !.writers = @ \cup docs[d].store.local,
              !.unsaved = IF @ = "no" THEN "unsaved" ELSE @,
              !.timer = docs[d].readers > 0]
    BY DEF done
  <2> HIDE DEF new
  <2> QED BY <2>2, <2>3 DEF DocFields
<1> HIDE DEF new
<1>5. \A x \in Words : /\ fate'[x] = "taken" => fate[x] = "taken"
                       /\ fate'[x] \in {"untyped", "sent"} <=> fate[x] \in {"untyped", "sent"}
                       /\ fate'[x] = "untyped" <=> fate[x] = "untyped"
  BY <1>2, UnstoredIs
<1>6. TypedKnown' /\ IdsKnown' /\ OneDecides' /\ SealHolds'
  BY <1>2, <1>3, <1>4, <1>5, StoreSteps
<1>7. /\ docs'[d] = new /\ \A x \in Docs : x # d => docs'[x] = docs[x]
      /\ Storing(docs[d])' = {} /\ ~ Writing(docs[d])'
  <2>1. docs'[d] = new /\ \A x \in Docs : x # d => docs'[x] = docs[x]
    BY <1>2, DocParts
  <2> QED BY <1>4, <2>1 DEF Storing, Writing
<1>8. ASSUME NEW w \in Words, fate'[w] \in {"untyped", "sent"} PROVE Absent(w)'
  <2>1. Absent(w)
    BY <1>5, <1>8 DEF WordInv, WordsSafe
  <2>2. ASSUME NEW x \in Docs
        PROVE  docs'[x].words = docs[x].words /\ w \notin Storing(docs[x])'
    BY <1>4, <1>7, <2>1 DEF Absent, Storing
  <2> QED BY <1>2, <2>1, <2>2, SameWordsAbsent DEF Absent
<1>9. ASSUME NEW w \in Words, fate'[w] = "taken" PROVE Safe(w)'
  <2>1. Safe(w)
    BY <1>5, <1>9 DEF WordInv, WordsSafe
  <2>2. CASE w \in row.words
    <3>1. InStep(w)
      BY <2>1, <2>2 DEF Safe
    <3>2. InStep(w)'
      BY <1>2, <1>3, <1>4, <1>7, <3>1, InStepKeeps
    <3> QED BY <1>2, <2>2, <3>2 DEF Safe
  <2>3. CASE w \notin row.words
    <3>1. /\ Alone(d) /\ w \in docs[d].words
          /\ live # Nil => live = d /\ docs[d].at = "open" /\ ToStore(docs[d], w)
          /\ live = Nil => docs[d].at = "gone"
      BY <1>3, <2>1, <2>3, OnlyHere
    <3>2. live # Nil
      BY <1>2, <1>9, <2>3, <3>1, UnstoredIs
    <3>3. Alone(d)'
      BY <1>7, <3>1 DEF Alone
    <3>4. docs'[d].unsaved = "lost" \/ Recorded(docs[d], w)'
      BY <1>2, <1>3, <1>4, <1>7, <3>1, <3>2 DEF ToStore, Recorded, Carried
    <3>5. ToStore(docs[d], w)'
      BY <1>4, <1>7, <3>1, <3>4 DEF ToStore
    <3>6. InHand(w)'
      BY <1>2, <1>4, <1>7, <3>1, <3>2, <3>3, <3>5 DEF InHand
    <3> QED BY <1>2, <2>3, <3>6 DEF Safe
  <2> QED BY <2>2, <2>3
<1> QED BY <1>6, <1>8, <1>9 DEF WordInv, WordsSafe

-----------------------------------------------------------------------------
LEMMA NobodyDecides ==
    ASSUME DocInv', live' = Nil \/ docs'[live'].at # "open"
    PROVE  \A s \in Sends : ~ Decides(s)'
BY ConnsAreReaders DEF Decides, Counted, Sealing, DocInv, CountedHold

(* A reader leaves, or waits to.                                           *)
LEMMA ReaderGoes ==
    ASSUME DocInv, NEW r \in Readers, NEW p \in {"left", "leaving"},
           at[r] # "stamped", at' = [at EXCEPT ![r] = p], mine' = mine
    PROVE  /\ \A s \in Sends : /\ Decides(s)' => Decides(s)
                               /\ at'[s] = "deciding" => at[s] = "deciding"
                               /\ at'[s] = "stamped" <=> at[s] = "stamped"
           /\ \A c \in Conns : at'[c] \in Typing => at[c] \in Typing
<1>1. at'[r] = p /\ \A x \in Readers : x # r => at'[x] = at[x]
  BY DocParts
<1> QED BY <1>1, ConnsAreReaders DEF Decides, Typing

LEMMA DroppedWords ==
    ASSUME DocInv, DocInv', WordInv, NEW d \in Docs, live \in {Nil, d}, NEW new, NEW doc,
           docs' = [docs EXCEPT ![d] = new],
           new.at = "gone", new.words = docs[d].words, new.acceptances = docs[d].acceptances,
           new.store = docs[d].store, new.saving = docs[d].saving,
           live' = Nil, doc.words = docs[d].words, doc.dirty = docs[d].dirty,
           fate' = IF doc.dirty THEN Unstored(doc, "unsaved") ELSE fate,
           \A c \in Conns : at'[c] \in Typing => at[c] \in Typing,
           UNCHANGED <<row, word, by, bytes>>
    PROVE  WordInv'
<1>1. docs'[d] = new /\ \A x \in Docs : x # d => docs'[x] = docs[x]
  BY DocParts
<1>2. \A x \in Words : /\ fate'[x] = "taken" => fate[x] = "taken"
                       /\ fate'[x] \in {"untyped", "sent"} <=> fate[x] \in {"untyped", "sent"}
                       /\ fate'[x] = "untyped" <=> fate[x] = "untyped"
  BY UnstoredIs
<1>3. ASSUME NEW x \in Docs
      PROVE  /\ docs'[x].words = docs[x].words /\ docs'[x].acceptances = docs[x].acceptances
             /\ docs'[x].store = docs[x].store /\ docs'[x].saving = docs[x].saving
             /\ Storing(docs[x])' = Storing(docs[x])
             /\ (Writing(docs[x])' <=> Writing(docs[x]))
             /\ docs[x].at = "gone" => docs'[x].at = "gone"
  <2>1. /\ docs'[x].words = docs[x].words /\ docs'[x].acceptances = docs[x].acceptances
        /\ docs'[x].store = docs[x].store /\ docs'[x].saving = docs[x].saving
        /\ docs[x].at = "gone" => docs'[x].at = "gone"
    BY <1>1
  <2> QED BY <2>1 DEF Storing, Writing
<1>4. TypedKnown'
  <2>1. \A c \in Conns : at[c] \in Typing => fate'[word[c]] = "sent"
    BY <1>2, DocParts DEF WordInv, TypedKnown
  <2> QED BY <2>1 DEF WordInv, TypedKnown
<1>5. IdsKnown'
  <2>1. ASSUME NEW x \in Docs
        PROVE  /\ \A id \in docs'[x].acceptances : fate'[id] # "untyped"
               /\ Writing(docs[x])' => \A id \in docs'[x].store.own : fate'[id] # "untyped"
    BY <1>2, <1>3, DocParts DEF WordInv, IdsKnown
  <2> QED BY <2>1 DEF IdsKnown
<1>6. ASSUME NEW w \in Words, fate'[w] \in {"untyped", "sent"} PROVE Absent(w)'
  BY <1>2, <1>3, <1>6 DEF WordInv, WordsSafe, Absent
<1>7. ASSUME NEW w \in Words, fate'[w] = "taken" PROVE Safe(w)'
  <2>1. Safe(w)
    BY <1>2, <1>7 DEF WordInv, WordsSafe
  <2>2. CASE w \in row.words
    <3>1. InStep(w)
      BY <2>1, <2>2 DEF Safe
    <3>2. InStep(w)'
      BY <1>3, <3>1 DEF InStep
    <3> QED BY <2>2, <3>2 DEF Safe
  <2>3. CASE w \notin row.words
    <3>1. \E e \in Docs : /\ docs'[e].at = "gone" /\ Alone(e)
                          /\ w \in docs[e].words \cap Storing(docs[e])
      <4>1. CASE live = Nil
        <5>1. InHand(w)
          BY <2>1, <2>3 DEF Safe
        <5> QED BY <1>3, <4>1, <5>1 DEF InHand
      <4>2. CASE live = d /\ live # Nil
        <5>1. ToStore(docs[d], w) /\ Alone(d)
          BY <2>1, <2>3, <4>2 DEF Safe, InHand
        <5>2. ~ docs[d].dirty
          BY <1>7, <2>3, <5>1, UnstoredIs DEF ToStore
        <5>3. w \in docs[d].words \cap Storing(docs[d])
          BY <5>1, <5>2 DEF ToStore
        <5> QED BY <1>1, <5>1, <5>3
      <4> QED BY <4>1, <4>2
    <3>2. \A e \in Docs : Alone(e) => Alone(e)'
      BY <1>3 DEF Alone
    <3>3. InHand(w)'
      BY <1>3, <3>1, <3>2 DEF InHand
    <3> QED BY <2>3, <3>3 DEF Safe
  <2> QED BY <2>2, <2>3
<1>8. OneDecides' /\ SealHolds'
  <2>1. \A s \in Sends : ~ Decides(s)'
    BY NobodyDecides
  <2> QED BY <1>2, <2>1, SealGone DEF WordInv
<1> QED BY <1>4, <1>5, <1>6, <1>7, <1>8 DEF WordInv, WordsSafe

LEMMA LeaveWords ==
    ASSUME DocInv, DocInv', WordInv, ~ ousted', NEW r \in Readers, Leave(r) PROVE WordInv'
<1>1. /\ at[r] = "flushed" /\ of[r] \in Docs /\ docs[of[r]] \in DocRows
      /\ at' = [at EXCEPT ![r] = "left"] /\ UNCHANGED <<row, mine, word, by, bytes>>
  BY DocParts DEF DocInv, PlacesKept, Leave, Leaves, Dropped, Goto
<1>2. /\ \A s \in Sends : /\ Decides(s)' => Decides(s)
                          /\ at'[s] = "deciding" => at[s] = "deciding"
                          /\ at'[s] = "stamped" <=> at[s] = "stamped"
      /\ \A c \in Conns : at'[c] \in Typing => at[c] \in Typing
  BY <1>1, ReaderGoes
<1>3. CASE docs[of[r]].readers > 0 /\ UNCHANGED <<docs, live, fate>>
  <2>1. Steady /\ StillAbsent
    BY <1>1, <1>3 DEF Steady, StillAbsent
  <2>2. WordsSafe' /\ TypedKnown' /\ IdsKnown'
    BY <1>1, <1>2, <1>3, <2>1, WordsStay
  <2>3. OneDecides' /\ SealHolds'
    BY <1>1, <1>2, <1>3, SealStays, DocParts DEF WordInv
  <2> QED BY <2>2, <2>3 DEF WordInv
<1>4. CASE Dropped(r, of[r], docs[of[r]]) /\ live \in {Nil, of[r]}
  <2> DEFINE new == [docs[of[r]] EXCEPT !.at = "gone"]
  <2>1. /\ live' = Nil /\ docs' = [docs EXCEPT ![of[r]] = new]
        /\ fate' = IF docs[of[r]].dirty THEN Unstored(docs[of[r]], "unsaved") ELSE fate
    BY <1>4 DEF Dropped, Change
  <2>2. /\ new.at = "gone" /\ new.words = docs[of[r]].words
        /\ new.acceptances = docs[of[r]].acceptances
        /\ new.store = docs[of[r]].store /\ new.saving = docs[of[r]].saving
    BY <1>1 DEF DocRows, DocFields
  <2> HIDE DEF new
  <2>3. PICK d \in Docs : d = of[r]
    BY <1>1
  <2>4. PICK doc : doc = docs[d]
    OBVIOUS
  <2> QED BY <1>1, <1>2, <1>4, <2>1, <2>2, <2>3, <2>4, DroppedWords
<1> QED BY <1>3, <1>4 DEF Leave

LEMMA ReleaseWords ==
    ASSUME DocInv, DocInv', WordInv, NEW r \in Readers, Release(r) PROVE WordInv'
<1>1. /\ at[r] \in {"in", "settled"} /\ live \in Docs /\ live # Nil /\ docs[live] \in DocRows
      /\ docs[live].at = "open" /\ UNCHANGED <<row, mine, word, by, bytes>>
  <2>1. at[r] \in {"in", "settled"} /\ Counted(r)
    BY DEF Release, Counted
  <2> QED BY <2>1 DEF Release, DocInv, Shaped, CountedHold
<1> DEFINE less == [docs[live] EXCEPT !.readers = @ - 1]
<1>2. /\ less.at = docs[live].at /\ less.words = docs[live].words
      /\ less.acceptances = docs[live].acceptances /\ less.dirty = docs[live].dirty
      /\ less.unsaved = docs[live].unsaved /\ less.store = docs[live].store
      /\ less.saving = docs[live].saving /\ less.sealed = docs[live].sealed
      /\ less.deciding = docs[live].deciding
  BY <1>1 DEF DocRows, DocFields
<1>3. ASSUME NEW doc, doc = [less EXCEPT !.timer = FALSE]
      PROVE  /\ doc.at = docs[live].at /\ doc.words = docs[live].words
             /\ doc.acceptances = docs[live].acceptances /\ doc.dirty = docs[live].dirty
             /\ doc.unsaved = docs[live].unsaved /\ doc.store = docs[live].store
             /\ doc.saving = docs[live].saving /\ doc.sealed = docs[live].sealed
             /\ doc.deciding = docs[live].deciding
  <2>1. doc = [docs[live] EXCEPT !.readers = @ - 1, !.timer = FALSE]
    BY <1>1, <1>3 DEF DocRows, DocFields
  <2> QED BY <1>1, <2>1 DEF DocRows, DocFields
<1>4. ASSUME NEW new, docs' = [docs EXCEPT ![live] = new],
             new.at = docs[live].at, new.words = docs[live].words,
             new.acceptances = docs[live].acceptances, new.dirty = docs[live].dirty,
             new.unsaved = docs[live].unsaved, new.store = docs[live].store,
             new.sealed = docs[live].sealed, new.deciding = docs[live].deciding,
             NEW p \in {"left", "leaving"}, at' = [at EXCEPT ![r] = p],
             UNCHANGED <<live, fate>>
      PROVE  WordInv'
  <2>1. docs'[live] = new /\ \A x \in Docs : x # live => docs'[x] = docs[x]
    BY <1>1, <1>4, DocParts
  <2>2. ASSUME NEW x \in Docs
        PROVE  /\ docs'[x].at = docs[x].at /\ docs'[x].words = docs[x].words
               /\ docs'[x].acceptances = docs[x].acceptances /\ docs'[x].dirty = docs[x].dirty
               /\ docs'[x].unsaved = docs[x].unsaved /\ docs'[x].store = docs[x].store
               /\ docs'[x].saving = docs[x].saving \/ (x = live /\ docs[x].at = "open")
    BY <1>1, <1>4, <2>1
  <2>3. Steady
    BY <2>2 DEF Steady
  <2>4. StillAbsent
    BY <1>1, <2>2 DEF StillAbsent
  <2>5. /\ \A s \in Sends : /\ Decides(s)' => Decides(s)
                            /\ at'[s] = "deciding" => at[s] = "deciding"
                            /\ at'[s] = "stamped" <=> at[s] = "stamped"
        /\ \A c \in Conns : at'[c] \in Typing => at[c] \in Typing
    BY <1>1, <1>4, ReaderGoes
  <2>6. WordsSafe' /\ TypedKnown' /\ IdsKnown'
    BY <1>1, <1>4, <2>2, <2>3, <2>4, <2>5, WordsStay
  <2>7. OneDecides' /\ SealHolds'
    BY <1>1, <1>4, <2>1, <2>5, SealStays DEF WordInv
  <2> QED BY <2>6, <2>7 DEF WordInv
<1>5. CASE Change(live, less) /\ Goto(r, "left", Nil) /\ UNCHANGED <<live, fate>>
  <2>1. docs' = [docs EXCEPT ![live] = less] /\ at' = [at EXCEPT ![r] = "left"]
    BY <1>5 DEF Change, Goto
  <2> HIDE DEF less
  <2> QED BY <1>2, <1>4, <1>5, <2>1
<1>6. CASE /\ Change(live, Flushing([less EXCEPT !.timer = FALSE], r))
           /\ Goto(r, "leaving", live) /\ UNCHANGED <<live, fate>>
  <2>1. PICK doc : doc = [less EXCEPT !.timer = FALSE]
    OBVIOUS
  <2> DEFINE new == [doc EXCEPT !.saving = Append(@, [who |-> r, store |-> TRUE])]
  <2>2. docs' = [docs EXCEPT ![live] = new] /\ at' = [at EXCEPT ![r] = "leaving"]
    BY <1>6, <2>1 DEF Change, Goto, Flushing
  <2>3. /\ new.at = docs[live].at /\ new.words = docs[live].words
        /\ new.acceptances = docs[live].acceptances /\ new.dirty = docs[live].dirty
        /\ new.unsaved = docs[live].unsaved /\ new.store = docs[live].store
        /\ new.sealed = docs[live].sealed /\ new.deciding = docs[live].deciding
    <3>1. doc = [docs[live] EXCEPT !.readers = @ - 1, !.timer = FALSE]
      BY <1>1, <2>1 DEF DocRows, DocFields
    <3>2. new = [docs[live] EXCEPT !.readers = @ - 1, !.timer = FALSE,
                                   !.saving = Append(@, [who |-> r, store |-> TRUE])]
      BY <1>1, <3>1 DEF DocRows, DocFields
    <3> QED BY <1>1, <3>2 DEF DocRows, DocFields
  <2> HIDE DEF new
  <2> QED BY <1>4, <1>6, <2>2, <2>3
<1>7. CASE ~less.dirty /\ Dropped(r, live, [less EXCEPT !.timer = FALSE])
  <2>1. PICK doc : doc = [less EXCEPT !.timer = FALSE]
    OBVIOUS
  <2>2. /\ doc.words = docs[live].words /\ doc.dirty = docs[live].dirty
    BY <1>3, <2>1
  <2> DEFINE new == [doc EXCEPT !.at = "gone"]
  <2>3. /\ live' = Nil /\ docs' = [docs EXCEPT ![live] = new]
        /\ fate' = IF doc.dirty THEN Unstored(doc, "unsaved") ELSE fate
        /\ at' = [at EXCEPT ![r] = "left"]
    BY <1>7, <2>1 DEF Dropped, Change, Goto
  <2>4. /\ new.at = "gone" /\ new.words = docs[live].words
        /\ new.acceptances = docs[live].acceptances
        /\ new.store = docs[live].store /\ new.saving = docs[live].saving
    <3>1. new = [docs[live] EXCEPT !.readers = @ - 1, !.timer = FALSE, !.at = "gone"]
      BY <1>1, <2>1 DEF DocRows, DocFields
    <3> QED BY <1>1, <3>1 DEF DocRows, DocFields
  <2> HIDE DEF new
  <2>5. \A c \in Conns : at'[c] \in Typing => at[c] \in Typing
    BY <1>1, <2>3, ReaderGoes
  <2>6. PICK d \in Docs : d = live
    BY <1>1
  <2> QED BY <1>1, <2>2, <2>3, <2>4, <2>5, <2>6, DroppedWords
<1> QED BY <1>1, <1>5, <1>6, <1>7 DEF Release

-----------------------------------------------------------------------------
(* No word is anywhere but in the row while a document is read.            *)
LEMMA InTheRow ==
    ASSUME live # Nil, docs[live].at = "building", NEW w \in Words, Safe(w)
    PROVE  w \in row.words /\ InStep(w)
BY DEF Safe, InHand

LEMMA OpenWords == ASSUME DocInv, DocInv', WordInv, NEW r \in Readers, Open(r) PROVE WordInv'
<1>1. at[r] = "away" /\ UNCHANGED <<row, word, by, bytes>>
  BY DEF Open
<1>2. ASSUME NEW p \in {"building", "joining", "in", "sealing"}, at' = [at EXCEPT ![r] = p],
             \A s \in Sends : s # r => mine'[s] = mine[s]
      PROVE  /\ \A c \in Conns : at'[c] \in Typing => at[c] \in Typing
             /\ \A s \in Sends : /\ Decides(s)' => Decides(s)
                                 /\ at'[s] = "deciding" => at[s] = "deciding"
                                 /\ (at'[s] = "stamped" <=> at[s] = "stamped")
  <2>1. at'[r] = p /\ \A x \in Readers : x # r => at'[x] = at[x]
    BY <1>2, DocParts
  <2> QED BY <1>1, <1>2, <2>1, ConnsAreReaders DEF Decides, Typing
<1>3. ASSUME NEW d \in Docs, live = Nil, docs[d].at = "unbuilt", live' = d,
             Change(d, Building), Goto(r, "building", d), fate' = AtRisk(d), UNCHANGED mine
      PROVE  WordInv'
  <2>1. /\ docs'[d] = Building /\ \A x \in Docs : x # d => docs'[x] = docs[x]
        /\ at' = [at EXCEPT ![r] = "building"]
    BY <1>3, DocParts DEF Change, Goto
  <2>2. /\ Building.at = "building" /\ Building.words = {} /\ Building.acceptances = {}
        /\ Building.saving = <<>> /\ Building.store.at = "none"
    BY DEF Building, NoStore
  <2>3. \A x \in Words : /\ fate'[x] = "taken" => fate[x] = "taken"
                         /\ fate'[x] = "taken" => (x \in row.words \/ ~ Overtaken(d))
                         /\ (fate'[x] = "sent" <=> fate[x] = "sent")
                         /\ (fate'[x] = "untyped" <=> fate[x] = "untyped")
    BY <1>3 DEF AtRisk
  <2>4. OneDecides' /\ SealHolds'
    <3>1. \A s \in Sends : ~ Decides(s)'
      BY <1>3, <2>1, <2>2, NobodyDecides
    <3>2. docs'[live'].at = "building" /\ row'.sent = row.sent /\ row'.words = row.words
      BY <1>1, <1>3, <2>1, <2>2
    <3> QED BY <2>3, <3>1, <3>2, SealGone DEF WordInv
  <2>5. TypedKnown'
    <3>1. \A c \in Conns : at'[c] \in Typing => at[c] \in Typing /\ word[c] \in Words
      BY <1>2, <1>3, <2>1, DocParts
    <3> QED BY <1>1, <2>3, <3>1 DEF WordInv, TypedKnown
  <2>6. IdsKnown'
    <3>1. ASSUME NEW x \in Docs
          PROVE  /\ \A id \in docs'[x].acceptances : fate'[id] # "untyped"
                 /\ Writing(docs[x])' => \A id \in docs'[x].store.own : fate'[id] # "untyped"
      <4>1. CASE x = d
        BY <2>1, <2>2, <4>1 DEF Writing
      <4>2. CASE x # d
        BY <2>1, <2>3, <4>2, DocParts DEF WordInv, IdsKnown, Writing
      <4> QED BY <4>1, <4>2
    <3> QED BY <3>1 DEF IdsKnown
  <2>7. ASSUME NEW w \in Words, fate'[w] \in {"untyped", "sent"} PROVE Absent(w)'
    <3>1. Absent(w)
      BY <2>3, <2>7 DEF WordInv, WordsSafe
    <3>2. ASSUME NEW x \in Docs PROVE w \notin docs'[x].words /\ w \notin Storing(docs[x])'
      <4>1. CASE x = d
        BY <2>1, <2>2, <4>1 DEF Storing
      <4>2. CASE x # d
        BY <2>1, <3>1, <4>2 DEF Absent, Storing
      <4> QED BY <4>1, <4>2
    <3> QED BY <1>1, <3>1, <3>2 DEF Absent
  <2>8. ASSUME NEW w \in Words, fate'[w] = "taken" PROVE Safe(w)'
    <3>1. Safe(w) /\ (w \in row.words \/ ~ Overtaken(d))
      BY <2>3, <2>8 DEF WordInv, WordsSafe
    <3>2. w \in row.words
      <4> SUFFICES ASSUME w \notin row.words PROVE FALSE
        OBVIOUS
      <4>1. PICK e \in Docs : docs[e].at = "gone" /\ w \in Storing(docs[e])
        BY <1>3, <3>1 DEF Safe, InHand
      <4>2. docs[e].saving # <<>>
        BY <4>1, DocParts DEF Storing, Writing
      <4> QED BY <1>3, <3>1, <4>1, <4>2 DEF Overtaken
    <3>3. InStep(w)
      BY <3>1, <3>2 DEF Safe
    <3>4. ASSUME NEW x \in Docs, docs'[x].saving # <<>>
          PROVE  /\ w \in docs'[x].words
                 /\ docs'[x].store.at = "encoded" /\ ~ row'.sent => w \in docs'[x].store.words
      BY <1>1, <2>1, <2>2, <3>3, <3>4 DEF InStep
    <3>5. InStep(w)'
      BY <1>3, <2>1, <2>2, <3>4 DEF InStep
    <3> QED BY <1>1, <3>2, <3>5 DEF Safe
  <2> QED BY <2>4, <2>5, <2>6, <2>7, <2>8 DEF WordInv, WordsSafe
<1>4. CASE Goto(r, "joining", live) /\ UNCHANGED <<live, docs, mine, fate>>
  <2>1. at' = [at EXCEPT ![r] = "joining"]
    BY <1>4 DEF Goto
  <2>2. Steady /\ StillAbsent
    <3>1. Steady
      BY <1>4 DEF Steady
    <3>2. StillAbsent
      BY <1>1, <1>4 DEF StillAbsent
    <3> QED BY <3>1, <3>2
  <2>3. /\ \A c \in Conns : at'[c] \in Typing => at[c] \in Typing
        /\ \A s \in Sends : /\ Decides(s)' => Decides(s)
                            /\ at'[s] = "deciding" => at[s] = "deciding"
                            /\ (at'[s] = "stamped" <=> at[s] = "stamped")
    BY <1>2, <1>4, <2>1
  <2>4. WordsSafe' /\ TypedKnown' /\ IdsKnown'
    BY <1>1, <1>4, <2>2, <2>3, WordsStay
  <2>5. OneDecides' /\ SealHolds'
    BY <1>1, <1>4, <2>3, SealStays DEF WordInv
  <2> QED BY <2>4, <2>5 DEF WordInv
<1>5. CASE /\ live # Nil /\ docs[live].at = "open"
           /\ Change(live, [docs[live] EXCEPT !.readers = @ + 1])
           /\ mine' = [mine EXCEPT ![r] = live]
           /\ at' = [at EXCEPT ![r] = Inside(r)]
           /\ UNCHANGED <<live, of, fate>>
  <2> DEFINE new == [docs[live] EXCEPT !.readers = @ + 1]
  <2>1. live \in Docs /\ docs[live] \in DocFields /\ Inside(r) \in {"in", "sealing"}
    BY <1>5, DocParts DEF Inside
  <2>2. /\ Like(new, docs[live]) /\ new.deciding = docs[live].deciding
        /\ new.sealed = docs[live].sealed
    BY <2>1 DEF DocFields, Like
  <2>3. docs' = [docs EXCEPT ![live] = new]
    BY <1>5 DEF Change
  <2> HIDE DEF new
  <2>4. /\ Steady /\ StillAbsent
        /\ \A x \in Docs : docs'[x].acceptances = docs[x].acceptances
        /\ \A x \in Docs : docs'[x].at = docs[x].at
    BY <1>1, <2>1, <2>2, <2>3, LikeStays
  <2>5. \A s \in Sends : s # r => mine'[s] = mine[s]
    BY <1>5, DocParts, ConnsAreReaders
  <2>6. /\ \A c \in Conns : at'[c] \in Typing => at[c] \in Typing
        /\ \A s \in Sends : /\ Decides(s)' => Decides(s)
                            /\ at'[s] = "deciding" => at[s] = "deciding"
                            /\ (at'[s] = "stamped" <=> at[s] = "stamped")
    BY <1>2, <1>5, <2>1, <2>5
  <2>7. WordsSafe' /\ TypedKnown' /\ IdsKnown'
    BY <1>1, <1>5, <2>4, <2>6, WordsStay
  <2>8. docs'[live] = new
    BY <2>1, <2>3, DocParts
  <2>9. OneDecides' /\ SealHolds'
    BY <1>1, <1>5, <2>2, <2>4, <2>6, <2>8, SealStays, DocParts DEF WordInv
  <2> QED BY <2>7, <2>9 DEF WordInv
<1> QED BY <1>3, <1>4, <1>5 DEF Open

(* The row is read: its words are what the document begins with.           *)
LEMMA BuildWords == ASSUME DocInv, WordInv, NEW d \in Docs, Build(d) PROVE WordInv'
<1> DEFINE new == [docs[d] EXCEPT !.at = "open", !.words = row.words, !.sealed = row.sent,
                                  !.readers = Cardinality(Waiting(d))]
<1>1. /\ docs[d].at = "building" /\ docs' = [docs EXCEPT ![d] = new]
      /\ at' = [r \in Readers |-> IF r \in Waiting(d) THEN Inside(r) ELSE at[r]]
      /\ mine' = [r \in Readers |-> IF r \in Waiting(d) THEN d ELSE mine[r]]
      /\ UNCHANGED <<row, live, word, by, fate, bytes>>
  BY DEF Build, Change
<1>2. live = d /\ live # Nil /\ docs[d] \in DocRows /\ \A r \in Readers : ~ Counted(r)
  BY <1>1, BeingRead
<1>3. /\ new.at = "open" /\ new.words = row.words /\ new.sealed = row.sent
      /\ new.acceptances = docs[d].acceptances /\ new.store = docs[d].store
      /\ new.saving = docs[d].saving
  BY <1>2 DEF DocRows, DocFields
<1> HIDE DEF new
<1>4. docs'[d] = new /\ \A x \in Docs : x # d => docs'[x] = docs[x]
  BY <1>1, DocParts
<1>5. ASSUME NEW r \in Readers
      PROVE  \/ at'[r] = at[r] /\ mine'[r] = mine[r]
             \/ at'[r] \in {"in", "sealing"}
  BY <1>1 DEF Inside
<1>6. \A s \in Sends : ~ Decides(s)' /\ at'[s] \notin {"deciding", "stamped"}
  <2>1. \A s \in Sends : ~ Decides(s)
    BY <1>2, DecidesIsCounted, ConnsAreReaders
  <2> QED BY <1>5, <2>1, ConnsAreReaders DEF Decides
<1>7. OneDecides' /\ SealHolds'
  BY <1>1, <1>2, <1>3, <1>4, <1>6 DEF OneDecides, WordInv, SealHolds
<1>8. TypedKnown'
  <2>1. \A c \in Conns : at'[c] \in Typing => at[c] \in Typing
    BY <1>5, ConnsAreReaders DEF Typing
  <2> QED BY <1>1, <2>1 DEF WordInv, TypedKnown
<1>9. ASSUME NEW x \in Docs
      PROVE  /\ docs'[x].acceptances = docs[x].acceptances /\ docs'[x].store = docs[x].store
             /\ docs'[x].saving = docs[x].saving
             /\ docs'[x].words = docs[x].words \/ (x = d /\ docs'[x].words = row.words)
  BY <1>3, <1>4
<1>10. IdsKnown'
  <2>1. ASSUME NEW x \in Docs
        PROVE  /\ \A id \in docs'[x].acceptances : fate'[id] # "untyped"
               /\ Writing(docs[x])' => \A id \in docs'[x].store.own : fate'[id] # "untyped"
    BY <1>1, <1>9 DEF WordInv, IdsKnown, Writing
  <2> QED BY <2>1 DEF IdsKnown
<1>11. ASSUME NEW w \in Words, fate'[w] \in {"untyped", "sent"} PROVE Absent(w)'
  <2>1. Absent(w)
    BY <1>1, <1>11 DEF WordInv, WordsSafe
  <2>2. ASSUME NEW x \in Docs PROVE w \notin docs'[x].words /\ w \notin Storing(docs[x])'
    BY <1>9, <2>1 DEF Absent, Storing
  <2> QED BY <1>1, <2>1, <2>2 DEF Absent
<1>12. ASSUME NEW w \in Words, fate'[w] = "taken" PROVE Safe(w)'
  <2>1. Safe(w)
    BY <1>1, <1>12 DEF WordInv, WordsSafe
  <2>2. w \in row.words /\ InStep(w)
    BY <1>1, <1>2, <2>1, InTheRow
  <2>3. ASSUME NEW x \in Docs, docs'[x].saving # <<>>
        PROVE  /\ w \in docs'[x].words
               /\ docs'[x].store.at = "encoded" /\ ~ row'.sent => w \in docs'[x].store.words
    BY <1>1, <1>9, <2>2, <2>3 DEF InStep
  <2>4. InStep(w)'
    BY <1>1, <1>2, <1>3, <1>4, <2>2, <2>3 DEF InStep
  <2> QED BY <1>1, <2>2, <2>4 DEF Safe
<1> QED BY <1>7, <1>8, <1>10, <1>11, <1>12 DEF WordInv, WordsSafe

LEMMA BuildFailsWords ==
    ASSUME DocInv, DocInv', WordInv, NEW d \in Docs, BuildFails(d) PROVE WordInv'
<1> DEFINE new == [docs[d] EXCEPT !.at = "gone"]
<1>1. /\ docs[d].at = "building" /\ docs' = [docs EXCEPT ![d] = new] /\ live' = Nil
      /\ at' = [r \in Readers |-> IF r \in Waiting(d) THEN "left" ELSE at[r]]
      /\ UNCHANGED <<row, mine, word, by, fate, bytes>>
  BY DEF BuildFails, Change
<1>2. live = d /\ live # Nil /\ docs[d] \in DocRows
  BY <1>1, BeingRead
<1>3. /\ new.words = docs[d].words /\ new.acceptances = docs[d].acceptances
      /\ new.store = docs[d].store /\ new.saving = docs[d].saving
  BY <1>2 DEF DocRows, DocFields
<1> HIDE DEF new
<1>4. docs'[d] = new /\ \A x \in Docs : x # d => docs'[x] = docs[x]
  BY <1>1, DocParts
<1>5. ASSUME NEW x \in Docs
      PROVE  /\ docs'[x].acceptances = docs[x].acceptances /\ docs'[x].store = docs[x].store
             /\ docs'[x].saving = docs[x].saving /\ docs'[x].words = docs[x].words
  BY <1>3, <1>4
<1>6. OneDecides' /\ SealHolds'
  <2>1. \A s \in Sends : ~ Decides(s)'
    BY <1>1, NobodyDecides
  <2> QED BY <1>1, <2>1, SealGone DEF WordInv
<1>7. TypedKnown'
  <2>1. \A c \in Conns : at'[c] \in Typing => at[c] \in Typing
    BY <1>1, ConnsAreReaders DEF Typing
  <2> QED BY <1>1, <2>1 DEF WordInv, TypedKnown
<1>8. IdsKnown'
  <2>1. ASSUME NEW x \in Docs
        PROVE  /\ \A id \in docs'[x].acceptances : fate'[id] # "untyped"
               /\ Writing(docs[x])' => \A id \in docs'[x].store.own : fate'[id] # "untyped"
    BY <1>1, <1>5 DEF WordInv, IdsKnown, Writing
  <2> QED BY <2>1 DEF IdsKnown
<1>9. ASSUME NEW w \in Words, fate'[w] \in {"untyped", "sent"} PROVE Absent(w)'
  <2>1. Absent(w)
    BY <1>1, <1>9 DEF WordInv, WordsSafe
  <2>2. ASSUME NEW x \in Docs PROVE w \notin docs'[x].words /\ w \notin Storing(docs[x])'
    BY <1>5, <2>1 DEF Absent, Storing
  <2> QED BY <1>1, <2>1, <2>2 DEF Absent
<1>10. ASSUME NEW w \in Words, fate'[w] = "taken" PROVE Safe(w)'
  <2>1. Safe(w)
    BY <1>1, <1>10 DEF WordInv, WordsSafe
  <2>2. w \in row.words /\ InStep(w)
    BY <1>1, <1>2, <2>1, InTheRow
  <2>3. InStep(w)'
    BY <1>1, <1>5, <2>2 DEF InStep
  <2> QED BY <1>1, <2>2, <2>3 DEF Safe
<1> QED BY <1>6, <1>7, <1>8, <1>9, <1>10 DEF WordInv, WordsSafe

-----------------------------------------------------------------------------
(* Only AskAccepted asks, and it takes the writers with the acceptances.   *)
LEMMA AskedStays ==
    ASSUME DocInv, AskedKnown, NEW d \in Docs, NEW new, docs' = [docs EXCEPT ![d] = new],
           \/ new.store = docs[d].store
           \/ new.store.at # "asked"
           \/ new.store.names = {} => new.store.ids = {}
    PROVE  AskedKnown'
<1>1. docs'[d] = new /\ \A x \in Docs : x # d => docs'[x] = docs[x]
  BY DocParts
<1> QED BY <1>1 DEF AskedKnown

LEMMA AskedSame == ASSUME AskedKnown, UNCHANGED docs PROVE AskedKnown'
BY DEF AskedKnown

LEMMA ReadersAsked ==
    ASSUME DocInv, AskedKnown, NEW r \in Readers, Leave(r) \/ Open(r) \/ Release(r)
    PROVE  AskedKnown'
<1>1. CASE Leave(r)
  <2>1. of[r] \in Docs /\ docs[of[r]] \in DocFields
    BY <1>1, DocParts DEF DocInv, PlacesKept, Leave, Leaves
  <2>2. CASE UNCHANGED docs
    BY <2>2, AskedSame
  <2>3. CASE Dropped(r, of[r], docs[of[r]])
    <3>1. [docs[of[r]] EXCEPT !.at = "gone"].store = docs[of[r]].store
      BY <2>1 DEF DocFields
    <3> QED BY <2>1, <2>3, <3>1, AskedStays DEF Dropped, Change
  <2> QED BY <1>1, <2>2, <2>3 DEF Leave
<1>2. CASE Open(r)
  <2>1. CASE UNCHANGED docs
    BY <2>1, AskedSame
  <2>2. ASSUME NEW d \in Docs, Change(d, Building) PROVE AskedKnown'
    <3>1. Building.store.at # "asked"
      BY DEF Building, NoStore
    <3> QED BY <2>2, <3>1, AskedStays DEF Change
  <2>3. CASE live # Nil /\ Change(live, [docs[live] EXCEPT !.readers = @ + 1])
    <3>1. live \in Docs /\ [docs[live] EXCEPT !.readers = @ + 1].store = docs[live].store
      BY <2>3, DocParts DEF DocFields
    <3> QED BY <2>3, <3>1, AskedStays DEF Change
  <2> QED BY <1>2, <2>1, <2>2, <2>3 DEF Open
<1>3. CASE Release(r)
  <2>1. CASE UNCHANGED docs
    BY <2>1, AskedSame
  <2>2. CASE live # Nil
    <3> DEFINE less == [docs[live] EXCEPT !.readers = @ - 1]
               still == [less EXCEPT !.timer = FALSE]
               last == Flushing(still, r)
               gone == [still EXCEPT !.at = "gone"]
    <3>1. live \in Docs /\ docs[live] \in DocFields
      BY <2>2, DocParts
    <3>2. less \in DocFields /\ less.store = docs[live].store
      BY <3>1 DEF DocFields
    <3>3. still \in DocFields /\ still.store = docs[live].store
      <4> HIDE DEF less
      <4> QED BY <3>2 DEF DocFields
    <3>4. last.store = docs[live].store /\ gone.store = docs[live].store
      <4> HIDE DEF still
      <4> QED BY <3>3 DEF DocFields, Flushing
    <3>5. CASE docs' = [docs EXCEPT ![live] = less]
      BY <3>1, <3>2, <3>5, AskedStays
    <3>6. CASE docs' = [docs EXCEPT ![live] = last]
      BY <3>1, <3>4, <3>6, AskedStays
    <3>7. CASE docs' = [docs EXCEPT ![live] = gone]
      BY <3>1, <3>4, <3>7, AskedStays
    <3> QED BY <1>3, <2>2, <3>5, <3>6, <3>7 DEF Release, Change, Dropped
  <2> QED BY <1>3, <2>1, <2>2 DEF Release
<1> QED BY <1>1, <1>2, <1>3

LEMMA TakenAsked ==
    ASSUME DocInv, AskedKnown, NEW c \in Conns, NEW d \in Docs, NEW doc \in DocFields,
           doc.store = docs[d].store, Taken(c, d, doc)
    PROVE  AskedKnown'
<1>1. [doc EXCEPT !.words = @ \cup {word[c]}, !.dirty = TRUE, !.timer = TRUE,
                  !.writers = @ \cup {WriterOf[c]}, !.late = row.sent].store = docs[d].store
  BY DEF DocFields
<1> QED BY <1>1, AskedStays DEF Taken, Change

LEMMA ConnsAsked ==
    ASSUME DocInv, AskedKnown, NEW c \in Conns,
           Type(c) \/ Apply(c) \/ Accept(c) \/ AcceptFails(c) \/ Accepted(c) \/ Resume(c)
    PROVE  AskedKnown'
<1>1. CASE Type(c) \/ Accept(c) \/ Resume(c)
  BY <1>1, AskedSame DEF Type, Accept, Resume
<1>2. CASE Apply(c) \/ AcceptFails(c) \/ Accepted(c)
  <2>1. live \in Docs /\ docs[live] \in DocFields /\ live # Nil /\ of[c] \in {live, Nil}
        /\ (at[c] \in {"accepting", "accepted"} => of[c] = live)
    BY <1>2, ConnIsIn, DocParts DEF Apply, AcceptFails, Accepted, Typing
  <2>2. CASE Apply(c)
    <3>1. [docs[live] EXCEPT !.accepted = @ \cup {WriterOf[c]}].store = docs[live].store
      BY <2>1 DEF DocFields
    <3> QED BY <2>1, <2>2, <3>1, AskedStays, TakenAsked DEF Apply, Change
  <2>3. CASE AcceptFails(c)
    <3>1. [docs[live] EXCEPT !.accepted = @ \ {WriterOf[c]}].store = docs[live].store
      BY <2>1 DEF DocFields
    <3> QED BY <2>1, <2>3, <3>1, AskedStays DEF AcceptFails, Change
  <2>4. CASE Accepted(c)
    <3> DEFINE doc == [docs[live] EXCEPT !.acceptances = @ \cup {word[c]}]
    <3>1. word[c] \in Words
      BY <2>4, DocParts DEF Accepted, Typing
    <3>2. doc \in DocFields /\ doc.store = docs[live].store
      BY <2>1, <3>1 DEF DocFields
    <3> HIDE DEF doc
    <3> QED BY <2>1, <2>4, <3>2, TakenAsked DEF Accepted, doc
  <2> QED BY <1>2, <2>2, <2>3, <2>4
<1> QED BY <1>1, <1>2

LEMMA SendsAsked ==
    ASSUME DocInv, AskedKnown, NEW s \in Sends, Sealed(s) \/ SealDoc(s) \/ Stamp(s) \/ Settle(s)
    PROVE  AskedKnown'
<1>1. CASE UNCHANGED docs
  BY <1>1, AskedSame
<1>2. CASE (Sealed(s) \/ Settle(s)) /\ ~ UNCHANGED docs
  <2>1. of[s] \in Docs /\ docs[of[s]] \in DocFields
    BY <1>2, SendIsIn, DocParts DEF Sealed, Settle, Decides
  <2>2. /\ [docs[of[s]] EXCEPT !.deciding = FALSE].store = docs[of[s]].store
        /\ [docs[of[s]] EXCEPT !.sealed = TRUE, !.dirty = FALSE, !.timer = FALSE,
                               !.deciding = FALSE].store = docs[of[s]].store
    BY <2>1 DEF DocFields
  <2>3. CASE docs' = [docs EXCEPT ![of[s]] = [docs[of[s]] EXCEPT !.deciding = FALSE]]
    BY <2>1, <2>2, <2>3, AskedStays
  <2>4. CASE docs' = [docs EXCEPT ![of[s]] =
                          [docs[of[s]] EXCEPT !.sealed = TRUE, !.dirty = FALSE, !.timer = FALSE,
                                              !.deciding = FALSE]]
    BY <2>1, <2>2, <2>4, AskedStays
  <2> QED BY <1>2, <2>3, <2>4 DEF Sealed, Settle, Change
<1>3. CASE SealDoc(s) /\ ~ UNCHANGED docs
  <2> DEFINE new == [docs[live] EXCEPT !.deciding = TRUE,
                             !.saving = Append(@, [who |-> s, store |-> docs[live].dirty])]
  <2>1. live \in Docs /\ docs[live] \in DocFields
    BY <1>3, DocParts DEF SealDoc
  <2>2. new.store = docs[live].store /\ docs' = [docs EXCEPT ![live] = new]
    BY <1>3, <2>1 DEF DocFields, SealDoc, Change
  <2> HIDE DEF new
  <2> QED BY <2>1, <2>2, AskedStays
<1>4. CASE Stamp(s)
  BY <1>4, AskedSame DEF Stamp
<1> QED BY <1>1, <1>2, <1>3, <1>4

LEMMA StoresAsked ==
    ASSUME DocInv, AskedKnown, NEW d \in Docs,
           \/ Build(d) \/ BuildFails(d) \/ Timer(d) \/ NothingToStore(d)
           \/ AskAccepted(d) \/ AskFails(d) \/ Name(d) \/ Encode(d) \/ Write(d)
           \/ WriteRefused(d) \/ WriteFails(d)
    PROVE  AskedKnown'
<1>1. /\ docs[d] \in DocFields
      /\ docs[d].saving # <<>> => /\ Finished(docs[d]) \in DocFields
                                 /\ Finished(docs[d]).store.at = "none"
  BY DocParts, FinishedDoc DEF DocRows, NoStore
<1>2. CASE Build(d) \/ BuildFails(d)
  <2>1. /\ [docs[d] EXCEPT !.at = "open", !.words = row.words, !.sealed = row.sent,
                           !.readers = Cardinality(Waiting(d))].store = docs[d].store
        /\ [docs[d] EXCEPT !.at = "gone"].store = docs[d].store
    BY <1>1 DEF DocFields
  <2> QED BY <1>2, <2>1, AskedStays DEF Build, BuildFails, Change
<1>3. CASE Timer(d)
  <2>1. ASSUME NEW x \in Docs PROVE docs'[x].store = docs[x].store
    <3> DEFINE doc == IF x = d THEN [docs[x] EXCEPT !.timer = FALSE] ELSE docs[x]
    <3>1. docs'[x] = IF x = live THEN Flushing(doc, "timer") ELSE doc
      BY <1>3 DEF Timer
    <3>2. doc \in DocFields /\ doc.store = docs[x].store
      BY DocParts DEF DocFields
    <3> HIDE DEF doc
    <3>3. Flushing(doc, "timer").store = doc.store
      BY <3>2 DEF Flushing, DocFields
    <3> QED BY <3>1, <3>2, <3>3
  <2> QED BY <2>1 DEF AskedKnown
<1>4. CASE NothingToStore(d) \/ AskFails(d)
  <2>1. docs[d].saving # <<>>
    BY <1>4 DEF NothingToStore, AskFails, Starts
  <2> QED BY <1>1, <1>4, <2>1, AskedStays DEF NothingToStore, AskFails, Change
<1>5. CASE AskAccepted(d)
  <2> DEFINE st == [at |-> "asked", ids |-> {a.id : a \in accepts},
                    names |-> {a.writer : a \in accepts}, local |-> {}, own |-> {},
                    words |-> {}]
             new == [docs[d] EXCEPT !.store = st]
  <2>1. st.names = {} => st.ids = {}
    OBVIOUS
  <2>2. docs' = [docs EXCEPT ![d] = new]
    BY <1>5 DEF AskAccepted, Change
  <2> HIDE DEF st
  <2>3. new.store = st
    BY <1>1 DEF DocFields
  <2> HIDE DEF new
  <2> QED BY <2>1, <2>2, <2>3, AskedStays
<1>6. CASE Name(d)
  <2> DEFINE st == docs[d].store
             told == IF docs[d].acceptances \subseteq st.ids THEN docs[d].unsaved ELSE "lost"
             done == Finished(docs[d])
             left == [done EXCEPT
                    !.unsaved = told, !.acceptances = {}, !.writers = {}, !.dirty = FALSE,
                    !.accepted = @ \ docs[d].writers]
             sn == [st EXCEPT !.at = "writing", !.local = docs[d].writers \cap st.names,
                              !.own = docs[d].acceptances \cap st.ids]
             new == [docs[d] EXCEPT
                    !.unsaved = told, !.acceptances = {}, !.writers = {}, !.accepted = {},
                    !.dirty = FALSE, !.store = sn]
  <2>1. docs' = [docs EXCEPT ![d] = left] \/ docs' = [docs EXCEPT ![d] = new]
    BY <1>6 DEF Name, Change
  <2>2. left.store.at = "none"
    <3>1. done \in DocFields /\ done.store.at = "none"
      BY <1>1, <1>6, DocParts DEF Name
    <3> HIDE DEF done
    <3> QED BY <3>1 DEF DocFields
  <2>3. sn.at = "writing"
    <3>1. st.at = "asked" /\ st \in Stores \ {NoStore}
      BY <1>6, DocParts DEF Name, NoStore
    <3> HIDE DEF st
    <3> QED BY <3>1 DEF Stores
  <2>4. new.store = sn
    <3> HIDE DEF sn, told
    <3> QED BY <1>1 DEF DocFields
  <2> HIDE DEF new, left, sn
  <2> QED BY <2>1, <2>2, <2>3, <2>4, AskedStays
<1>7. CASE Encode(d)
  <2> DEFINE st == [docs[d].store EXCEPT !.at = "encoded", !.words = docs[d].words]
             new == [docs[d] EXCEPT !.store = st]
  <2>1. st.at = "encoded"
    <3>1. docs[d].store.at = "writing" /\ docs[d].store \in Stores \ {NoStore}
      BY <1>7, DocParts DEF Encode, NoStore
    <3> QED BY <3>1 DEF Stores
  <2>2. [docs[d] EXCEPT !.store = [@ EXCEPT !.at = "encoded", !.words = docs[d].words]] = new
    BY <1>1 DEF DocFields
  <2>3. docs' = [docs EXCEPT ![d] = new] /\ new.store = st
    <3>1. docs' = [docs EXCEPT ![d] = new]
      BY <1>7, <2>2 DEF Encode, Change
    <3> HIDE DEF st
    <3>2. new.store = st
      BY <1>1 DEF DocFields
    <3> QED BY <3>1, <3>2
  <2> HIDE DEF new, st
  <2> QED BY <2>1, <2>3, AskedStays
<1>8. CASE Write(d) \/ WriteRefused(d) \/ WriteFails(d)
  <2> DEFINE done == Finished(docs[d])
             kept == [done EXCEPT !.unsaved = "no"]
             over == [done EXCEPT !.sealed = TRUE, !.unsaved = IF docs[d].late THEN "lost" ELSE @]
             again == [done EXCEPT
                !.dirty = TRUE, !.acceptances = @ \cup docs[d].store.own,
                !.accepted = @ \cup docs[d].store.local, !.writers = @ \cup docs[d].store.local,
                !.unsaved = IF @ = "no" THEN "unsaved" ELSE @,
                !.timer = docs[d].readers > 0]
  <2>1. \/ docs' = [docs EXCEPT ![d] = kept] \/ docs' = [docs EXCEPT ![d] = over]
        \/ docs' = [docs EXCEPT ![d] = again]
    BY <1>8 DEF Write, WriteRefused, WriteFails, Change
  <2>2. kept.store.at = "none" /\ over.store.at = "none" /\ again.store.at = "none"
    <3>1. done \in DocFields /\ done.store.at = "none"
      BY <1>1, <1>8, DocParts DEF Write, WriteRefused, WriteFails
    <3> HIDE DEF done
    <3> QED BY <3>1 DEF DocFields
  <2> HIDE DEF kept, over, again
  <2> QED BY <2>1, <2>2, AskedStays
<1> QED BY <1>2, <1>3, <1>4, <1>5, <1>6, <1>7, <1>8

-----------------------------------------------------------------------------
LEMMA WordInvInit == ProseInit => WordInv /\ AskedKnown
<1> SUFFICES ASSUME ProseInit PROVE WordInv /\ AskedKnown
  OBVIOUS
<1>1. /\ Unbuilt.words = {} /\ Unbuilt.acceptances = {} /\ Unbuilt.store.at = "none"
      /\ Unbuilt.saving = <<>>
  BY DEF Unbuilt, Building, NoStore
<1>2. /\ \A d \in Docs : docs[d] = Unbuilt
      /\ \A r \in Readers : at[r] = "away"
      /\ \A w \in Words : fate[w] = "untyped"
      /\ row = [words |-> {}, sent |-> FALSE] /\ \A s \in Sends : bytes[s] = {}
  BY DEF ProseInit
<1>3. \A d \in Docs : docs[d].words = {} /\ Storing(docs[d]) = {} /\ ~ Writing(docs[d])
                      /\ docs[d].acceptances = {}
  BY <1>1, <1>2 DEF Storing, Writing
<1>4. WordsSafe
  <2>1. \A w \in Words : w \notin row.words
    BY <1>2
  <2>2. ASSUME NEW w \in Words PROVE Absent(w)
    <3>1. \A d \in Docs : w \notin docs[d].words /\ w \notin Storing(docs[d])
      BY <1>3
    <3>2. \A s \in Sends : w \notin bytes[s]
      BY <1>2
    <3> QED BY <2>1, <3>1, <3>2 DEF Absent
  <2> QED BY <1>2, <2>2 DEF WordsSafe
<1>5. TypedKnown /\ IdsKnown
  BY <1>2, <1>3, ConnsAreReaders DEF TypedKnown, IdsKnown, Typing
<1>6. OneDecides /\ SealHolds
  BY <1>2, ConnsAreReaders DEF OneDecides, SealHolds, Decides
<1>7. AskedKnown
  BY <1>1, <1>2 DEF AskedKnown
<1> QED BY <1>4, <1>5, <1>6, <1>7 DEF WordInv

LEMMA WordInvStep ==
    DocInv /\ WordInv /\ AskedKnown /\ ~ ousted' /\ [ProseNext]_proseVars
        => WordInv' /\ AskedKnown'
<1> SUFFICES ASSUME DocInv, WordInv, AskedKnown, ~ ousted', [ProseNext]_proseVars
             PROVE  WordInv' /\ AskedKnown'
  OBVIOUS
<1>0. DocInv'
  BY DocInvStep
<1>1. ASSUME NEW r \in Readers, Leave(r) \/ Open(r) \/ Release(r) PROVE WordInv' /\ AskedKnown'
  BY <1>0, <1>1, LeaveWords, OpenWords, ReleaseWords, ReadersAsked
<1>2. ASSUME NEW c \in Conns,
             Type(c) \/ Apply(c) \/ Accept(c) \/ AcceptFails(c) \/ Accepted(c) \/ Resume(c)
      PROVE  WordInv' /\ AskedKnown'
  BY <1>2, TypeWords, ApplyWords, AcceptWords, AcceptFailsWords, AcceptedWords, ResumeWords,
     ConnsAsked
<1>3. ASSUME NEW s \in Sends, Sealed(s) \/ SealDoc(s) \/ Stamp(s) \/ Settle(s)
      PROVE  WordInv' /\ AskedKnown'
  BY <1>3, SealedWords, SealDocWords, StampWords, SettleWords, SendsAsked
<1>4. ASSUME NEW d \in Docs,
             \/ Build(d) \/ BuildFails(d) \/ Timer(d) \/ NothingToStore(d)
             \/ AskAccepted(d) \/ AskFails(d) \/ Name(d) \/ Encode(d) \/ Write(d)
             \/ WriteRefused(d) \/ WriteFails(d)
      PROVE  WordInv' /\ AskedKnown'
  BY <1>0, <1>4, BuildWords, BuildFailsWords, TimerWords, NothingToStoreWords, AskAcceptedWords,
     AskFailsWords, NameWords, EncodeWords, WriteWords, WriteRefusedWords, WriteFailsWords,
     StoresAsked
<1>5. CASE UNCHANGED proseVars
  <2>1. UNCHANGED <<row, docs, live, at, mine, word, by, fate, bytes>>
    BY <1>5 DEF proseVars
  <2>2. Steady /\ StillAbsent
    <3>1. Steady
      BY <2>1 DEF Steady
    <3>2. StillAbsent
      BY <2>1 DEF StillAbsent
    <3> QED BY <3>1, <3>2
  <2>3. WordsSafe' /\ TypedKnown' /\ IdsKnown'
    BY <2>1, <2>2, WordsStay
  <2>4. OneDecides' /\ SealHolds' /\ AskedKnown'
    BY <2>1, SealStays, AskedSame DEF WordInv, Decides
  <2> QED BY <2>3, <2>4 DEF WordInv
<1> QED BY <1>1, <1>2, <1>3, <1>4, <1>5 DEF ProseNext

LEMMA WordInvShows ==
    ASSUME DocInv, WordInv PROVE SureWordsAreKept /\ SentHoldsWhatWasTaken
<1>1. ASSUME NEW w \in Words, fate[w] = "taken" PROVE Kept(w)
  <2>1. Safe(w)
    BY <1>1 DEF WordInv, WordsSafe
  <2>2. CASE w \in row.words
    BY <2>2 DEF Kept
  <2>3. CASE w \notin row.words /\ live # Nil
    <3>1. ToStore(docs[live], w) /\ live \in Docs
      BY <2>1, <2>3, DocParts DEF Safe, InHand
    <3> QED BY <2>3, <3>1 DEF Kept, InMap, ToStore
  <2>4. CASE w \notin row.words /\ live = Nil
    BY <2>1, <2>4 DEF Safe, InHand, Kept
  <2> QED BY <2>2, <2>3, <2>4
<1>2. row.sent => \A w \in Words : fate[w] = "taken" => w \in row.words
  BY DEF WordInv, SealHolds
<1> QED BY <1>1, <1>2 DEF SureWordsAreKept, SentHoldsWhatWasTaken

ProseKept == ousted \/ (DocInv /\ WordInv /\ AskedKnown)

LEMMA ProseIsKept == ProseSpec => []ProseKept
<1>1. ProseInit => ProseKept
  BY DocInvInit, WordInvInit DEF ProseKept
<1>2. ProseKept /\ [ProseNext]_proseVars => ProseKept'
  BY DocInvStep, WordInvStep, OustedStays DEF ProseKept, proseVars
<1> QED BY <1>1, <1>2, PTL DEF ProseSpec

(* A word accepted by the application, but one it took at risk, is stored  *)
(* or held by a document that still has it to store, until a leave takes   *)
(* another document than its own out of the map (live/spec.md;             *)
(* prose.service.ts store(), release()).                                   *)
THEOREM SureWordsStay == ProseSpec => []SureWordsAreKept
<1>1. ProseKept => SureWordsAreKept
  BY WordInvShows DEF ProseKept, SureWordsAreKept
<1> QED BY <1>1, ProseIsKept, PTL

(* What was accepted before a report was sent, but a word taken at risk,   *)
(* is in what was sent, however stores, sends and frames overlap           *)
(* (report/spec.md; prose.service.ts seal(), settle()).                    *)
THEOREM SentReportsHoldTheirWords == ProseSpec => []SentHoldsWhatWasTaken
<1>1. ProseKept => SentHoldsWhatWasTaken
  BY WordInvShows DEF ProseKept, SentHoldsWhatWasTaken
<1> QED BY <1>1, ProseIsKept, PTL
=============================================================================
