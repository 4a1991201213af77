--------------------------- MODULE CaseRowsProps ---------------------------
(***************************************************************************)
(* What the writes of CaseRows keep true, and the two sentences of the     *)
(* source that they do not.                                                *)
(***************************************************************************)
EXTENDS CaseRows

Entry == [op : {"insert", "update", "delete"}, version : 1..MaxVersion]

Feeds == Seq(Entry)

(* The types of the variables; no version passes the bound.                *)
TypeOK ==
    /\ rows \in [Rows -> Values \cup {Absent}]
    /\ \A r \in Present : rows[r].version <= MaxVersion
    /\ feed \in [Rows -> Feeds]
    /\ \A u \in Analysts :
          /\ Written(u) \subseteq Rows
          /\ \A r \in Written(u) : tx[u][r] \in Values \cup {Absent}
          /\ Named(u) \subseteq Rows
    /\ screen \in [Analysts -> [Rows -> Values \cup {Absent}]]
    /\ told \in [Analysts -> {"no", "told", "missed"}]
    /\ asked \in [Analysts -> 0..MaxRequests]

(* mutate.ts: the version and its feed row are one transaction.  A row's   *)
(* feed is its insert, one update per version and the delete at the        *)
(* version the row held - whichever door wrote it, and whatever failed or  *)
(* crashed on the way.                                                     *)
History(last) == [i \in 1..last |-> [op |-> IF i = 1 THEN "insert" ELSE "update", version |-> i]]

FeedTells(row, entries) ==
    IF row # Absent THEN entries = History(row.version)
    ELSE \/ entries = <<>>
         \/ \E n \in 1..MaxVersion : entries = Append(History(n), [op |-> "delete", version |-> n])

FeedTellsEveryVersion == \A r \in Rows : FeedTells(rows[r], feed[r])

(* mutate.ts, collection.service.ts: no row moves or goes under anyone     *)
(* who has not read the very version it held - over checks, locks and      *)
(* waits that another analyst's commit can fall between.                   *)
WasRead ==
    \A r \in Rows :
        (rows[r] # Absent /\ (rows'[r] = Absent \/ rows'[r].version # rows[r].version))
            => \E u \in Analysts : r \in Named(u) /\ req[u].sent[r] = rows[r].version

WritesOnlyWhatWasRead == [][WasRead]_vars

(* collection.service.ts removeMany: one moved row refuses the whole       *)
(* selection, so a commit of it leaves none of the rows it named.          *)
SelectionGoesWhole ==
    [][\A u \in Analysts :
         (req[u].op = "removeMany" /\ req[u].at = "commit" /\ req'[u].at = "announce")
            => \A r \in Named(u) : rows'[r] = Absent]_vars

-----------------------------------------------------------------------------
(* The inductive strengthening: what the requests in flight and their open *)
(* transactions are, so that whatever commits next keeps the feed true.    *)

(* A value r may take over from the committed one, by u's leave.           *)
MayBecome(u, r, new) ==
    IF rows[r] = Absent
    THEN feed[r] = <<>> /\ r \in req[u].born /\ new # Absent /\ new.version = 1
    ELSE \/ new # Absent /\ new.version = rows[r].version
         \/ /\ r \in Named(u) /\ req[u].sent[r] = rows[r].version
            /\ new = Absent \/ (new.version = rows[r].version + 1 /\ new.version <= MaxVersion)

RowsOK ==
    /\ rows \in [Rows -> Values \cup {Absent}]
    /\ \A r \in Rows : rows[r] # Absent => rows[r].version <= MaxVersion
    /\ feed \in [Rows -> Feeds]
    /\ FeedTellsEveryVersion

ScreensOK ==
    /\ screen \in [Analysts -> [Rows -> Values \cup {Absent}]]
    /\ told \in [Analysts -> {"no", "told", "missed"}]
    /\ asked \in [Analysts -> 0..MaxRequests]

(* What u has written and not committed follows on from the committed rows. *)
WritesOK(u) ==
    /\ Written(u) \subseteq Rows
    /\ \A r \in Written(u) : tx[u][r] \in Values \cup {Absent} /\ MayBecome(u, r, tx[u][r])

(* What u's request carries, by where it has got to.                       *)
RequestOK(u) ==
    /\ req[u] = [op |-> req[u].op, at |-> req[u].at, sent |-> req[u].sent,
                 patch |-> req[u].patch, order |-> req[u].order, todo |-> req[u].todo,
                 born |-> req[u].born, refused |-> req[u].refused]
    /\ Named(u) \subseteq Rows /\ req[u].born \subseteq Rows
    /\ req[u].at \notin {"delete", "lock", "commit"} => Written(u) = {}
    /\ req[u].at \in {"check", "insert"} \/ (req[u].at = "write" /\ req[u].op # "remove")
          => req[u].patch \in Patches
    /\ req[u].at \in {"check", "write", "names", "lock"} /\ req[u].op # "remove"
          => \A r \in Named(u) : req[u].sent[r] < MaxVersion
    /\ req[u].at \in {"names", "lock"}
          => /\ req[u].op = "reorder"
             /\ \A r \in Named(u) : \E i \in 1..Len(req[u].order) : req[u].order[i] = r
    /\ req[u].at = "insert" => \A r \in req[u].born : feed[r] = <<>>
    /\ req[u].at \in {"check", "write", "counts", "delete", "names", "lock"} => req[u].born = {}
    /\ req[u].at = "lock" => \A r \in Written(u) : tx[u][r] = rows[r]

(* mutate.ts and PostgreSQL's row locks: no two transactions hold one row, *)
(* and no two requests insert one id.                                      *)
Apart ==
    \A u, v \in Analysts : u # v =>
        Written(u) \cap Written(v) = {} /\ req[u].born \cap req[v].born = {}

IInv ==
    /\ RowsOK /\ ScreensOK /\ Apart
    /\ tx = [u \in Analysts |-> tx[u]] /\ req = [u \in Analysts |-> req[u]]
    /\ \A u \in Analysts : WritesOK(u) /\ RequestOK(u)

-----------------------------------------------------------------------------
(* write-guards.ts: the rule that spans two fields holds of every stored   *)
(* row, though update judges it in a transaction before the one it writes  *)
(* in, and stands aside from a row that moved.                             *)
StoredRowsAreLegal == \A r \in Present : Legal(rows[r])

(* What that rests on.  A version, once written, keeps the fields the rule *)
(* spans, so a patch judged against a version can only be stored over it;  *)
(* and no version anyone has read is ahead of its row.                     *)
SameFields(row, other) == row.kind = other.kind /\ row.scoped = other.scoped

Lawful(r, new) ==
    new # Absent =>
        /\ Legal(new)
        /\ (rows[r] # Absent /\ new.version = rows[r].version) => SameFields(new, rows[r])

Seen(r, version) ==
    /\ version \in Nat /\ feed[r] # <<>>
    /\ rows[r] # Absent => version <= rows[r].version

(* A patch that passed the rule, of the rows that have not moved since.    *)
Judged(u) ==
    \A r \in Named(u) :
        (rows[r] # Absent /\ rows[r].version = req[u].sent[r])
            => Legal(Patched(rows[r], req[u].patch))

RequestIsLawful(u) ==
    /\ \A r \in Named(u) : Seen(r, req[u].sent[r])
    /\ req[u].at = "insert" => Legal(Patched(Blank, req[u].patch))
    /\ (req[u].at = "write" /\ req[u].op # "remove") => Judged(u)

(* A screen has seen the versions it shows.                                *)
ScreenIsSeen(u) ==
    \A r \in Rows : screen[u][r] # Absent => Seen(r, screen[u][r].version)

WritesAreLawful(u) == \A r \in Written(u) : Lawful(r, tx[u][r])

LawInv ==
    /\ StoredRowsAreLegal
    /\ \A u \in Analysts : ScreenIsSeen(u) /\ WritesAreLawful(u) /\ RequestIsLawful(u)

(* act.ts, collection.service.ts: a screen that shows an old version has   *)
(* been told to read again, or the request that wrote has its announcement *)
(* still to make; nobody is told before there is something to read.        *)
(* Excepted are the screens a failed publish was for, until the next one.  *)
Version(row) == IF row = Absent THEN 0 ELSE row.version

StaleScreenIsTold ==
    \A u \in Analysts :
        (\E r \in Rows : Version(screen[u][r]) # Version(rows[r]))
            => \/ told[u] \in {"told", "missed"}
               \/ \E v \in Analysts : req[v].at = "announce"

(* collection.service.ts reorder: locking a scope in id order, two         *)
(* reorders of it queue and never wait for each other.                     *)
ReordersQueue ==
    \A u, v \in Analysts :
        req[u].op = "reorder" /\ req[v].op = "reorder" => ~ Deadlocked(u, v)

(* What that rests on: every row a reorder holds comes before every row it *)
(* has still to take.                                                      *)
QueueOK(u) ==
    /\ req[u].op = "reorder" => req[u].at \in {"names", "lock", "announce"}
    /\ req[u].at = "lock" =>
          /\ req[u].todo \subseteq Rows
          /\ \A r \in Written(u), s \in req[u].todo : r < s

QueueInv == \A u \in Analysts : QueueOK(u)

(* What SelectionGoesWhole rests on: until one is refused, the rows of the *)
(* collections gone through are gone, in the request's own view.           *)
GoneThrough(u) ==
    \A r \in Named(u) : CollectionOf[r] \in req[u].todo \/ View(u)[r] = Absent

SelectionOK(u) ==
    req[u].op = "removeMany" =>
        /\ req[u].at \in {"counts", "delete", "commit", "announce"}
        /\ req[u].at # "announce" => req[u].refused \/ GoneThrough(u)
        /\ req[u].at = "commit" => req[u].todo = {}

SelectionInv == \A u \in Analysts : SelectionOK(u)

(* The live specification: a write reaches every open screen.  With the    *)
(* requests at an end, every screen comes to show the case as it is.       *)
ScreensCatchUp ==
    <>[](\A u \in Analysts : \A r \in Rows : Version(screen[u][r]) = Version(rows[r]))

(* Every request is answered, however statements wait for one another.     *)
RequestsAreAnswered == \A u \in Analysts : (req[u] # Idle) ~> (req[u] = Idle)

(* collection.service.ts:773 says a referenced row deleted between the     *)
(* check and the write leaves the reference null.  A list of references is *)
(* no foreign key, and keeps naming the row that went.                     *)
ListReferencesResolve ==
    \A r \in Present : rows[r].many \subseteq Present

(* bulk-delete.controller.ts:9 says it refuses rather than orphaning: what *)
(* a bulk delete removes, no remaining row named by foreign key.           *)
BulkDeleteOrphansNothing ==
    [][\A u \in Analysts, h \in Rows :
         (req[u].op = "removeMany" /\ req[u].at = "commit" /\ req'[u].at = "announce"
             /\ rows[h] # Absent /\ rows'[h] # Absent)
            => rows'[h].one = rows[h].one]_vars
=============================================================================
