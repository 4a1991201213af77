# IncidentCompanion: specifications and proofs

IncidentCompanion keeps incident cases for several analysts at once: a NestJS
server over PostgreSQL and Redis, and a React interface. This directory holds
TLA+ models of the parts of it that run concurrently, the TLC runs that check
them on small instances, and proofs about them for every size.

Each definition is translated from the source. `PROJECT.json` gives, for every
one of them, the lines it stands for. Its `hazards` are the places this code is
hard to test at, and the properties that watch each.

Paths below are relative to the repository; `server/` is `server/src/`, `ui/`
is `ui/src/`.

- [What the system is made of](#what-the-system-is-made-of)
- [The models](#the-models)
- [The runs](#the-runs)
- [What is proved](#what-is-proved)
- [Where the code and its words part](#where-the-code-and-its-words-part)
- [What is not modelled](#what-is-not-modelled)
- [The plan](#the-plan)
- [Running it](#running-it)

## What the system is made of

One server process serves the requests of many analysts; nothing forbids a
second one, and Redis carries what they tell each other. An analyst may have
several tabs. State lives in four places: PostgreSQL rows, a directory of
artefacts for each case, Redis keys that expire, and memory.

| Component | State it keeps | What changes it | What makes it hard | What makes it correct |
|---|---|---|---|---|
| **Case rows** `server/collections`, `server/db/mutate.ts` | rows with a version and a position; `change_feed` | create, update, bulk update, remove, bulk remove, reorder | checks in one transaction and the write in another; row locks taken in different orders | no row moves under an analyst who has not read it; every version is in the feed; a refused selection leaves all of it |
| **Merge reviews** `server/collections/conflicts.service.ts` | refused saves, one for each analyst and row | a save answered 409, reading the review, answering it | records, rows and deletes are three transactions, and any of them can follow a newer refusal | a refused edit is kept until it is answered |
| **Prose** `server/prose`, `server/live/live.gateway.ts` | a CRDT document per open report or note, its readers, the queue of its stores, acceptances in the database | open, a frame typed, a timer, the last reader leaving, a report being sent | every step awaits; open, store, leave and send overlap | one document for one record; accepted words are stored or their writer is told; what is sent is what was accepted |
| **Report lifecycle** `server/report` | stage, sections, the frozen figures, the successor | send, supersede, restore sections, reorder | a send renders between sealing the prose and the stamp | a sent report never changes; it has at most one successor |
| **Evidence** `server/evidence`, `server/report/artefacts-named.ts` | bytes by digest, a queue of acts per case | attach, replace, remove, delete the case, read an archive in, send a report | bytes and rows cannot be written in one transaction | bytes a record names are held; those nothing names go |
| **Row drafts** `ui/api/rowDraft.ts`, `rowWrite.ts` | the hold of each field, a lane of writes per record | typing, leaving a field, an answer, a record read again | answers and reads overtake one another, and may be lost | a write replaces only what its analyst had read |
| **Case screens** `ui/api/useCaseChanges.ts` | cached reads, whether the screen is behind | an announcement, a drop, a reconnect | what was announced while the socket was down is gone | a screen that calls itself current is |
| **Live channel** `server/live` | rosters and claims in Redis, subscriptions in memory | join, leave, claim, release, heartbeat, expiry | several commands for one act, a process that dies, two instances | a claim has one live holder; every member hears every announcement |
| **Copies** `docker/backup.sh` | the dump, the archive of the evidence, the running install | take, verify, restore | two moments, with analysts working between them | a restored case holds what its records name |
| **Case archive** `server/case-archive`, `server/archive` | none of its own | export, import | rows and files are read at two moments | what is read in is what was written out |
| **Incident import** `server/incident-import` | none of its own | preview, commit of what was approved | the case is read, then written in two transactions | running it again adds nothing twice |
| **Spreadsheets** `server/exports` | none of its own | import, export | matching by what identifies a row | all of a file or none |
| **Access** `server/access`, `server/db/reach.sql` | groups, their members and customers | grant, revoke, hold, release | reach is lost while an act is under way | nothing out of reach is read or written |
| **Accounts and sign-in** `server/auth`, `server/accounts` | users, sessions in PostgreSQL and Redis, lockouts, the claim of the install | claim, sign in, roles, disabling, passwords | sessions live in two stores; roles are checked then written | the last administrator stays; an install is claimed once |
| **Customers** `server/customers` | customers, the facts they hold | onboarding, merge, default | a merge moves cases and groups under requests | no case and no reach is lost in a merge |
| **Install audit** `server/install-activity`, `server/install-audit` | numbered lines, a delivery cursor | record, deliver, prune | numbers are given before the commit that shows them | a line is let go only once delivered |
| **Compliance, library, preferences, recent cases, policy** | one row, or one list, each | single-statement writes | little | what the schemas say |
| **Health, demos, throttling, deployment** | counters, seed rows | reads; one-shot scripts | little | |

How they meet:

- A write of a **case row** commits, then announces its scopes on the **live
  channel**; **case screens** read again; a **row draft** is judged against the
  record that comes.
- A save refused by the version check becomes a **merge review** of its analyst.
- Sending a **report** seals its **prose**, freezes its figures from the
  **evidence**, and stamps the row only if none of its parts moved.
- Removing a row, replacing an attachment, deleting a case and importing an
  **archive** queue on one lane per case before they touch the **evidence**.
- A **copy** reads the database and then the evidence directory, beside all of
  this.
## The models

A module models whole handlers. What runs between two awaits is one step; a
query takes effect in one step, and its answer is used in another wherever
something can come between. Bounds are named constants (`Max…`) and only limit
how often the *clients* act or the *environment* fails; nothing the server does
is cut short by one, with two exceptions: `MaxDocs` and `MaxVersion` refuse the
request that would pass them.

### CaseRows, CaseRowsProps: the rows of one case

A request is a record in `req`, at one of the statements of its handler. What
it has written and not committed is `tx[u]`, and a row in its domain is locked.
`BlockedBy` says what a statement waits for: the holder of a row, and, through
a foreign key, the deleter of the row it names. Two requests waiting for each
other make `Deadlocked`, whose victim PostgreSQL aborts. `Crash` ends every
request at once. An analyst's `screen` is the rows as last read; a request
states the versions found there. `told` is what became of the announcement of
what a screen lacks: none yet, delivered, or `missed`, since a publish that fails
is logged and the write stays (`case-channel.service.ts:170-172`).

| Action | Code |
|---|---|
| `Ask…` actions, `Check`, `Update` | `collection.service.ts` update, `write-guards.ts`, `mutate.ts` updateVersioned |
| `UpdateMany` | one UPDATE of all named rows, refused if one moved |
| `Remove`, `Counts`, `DeleteGroup` | remove, bulk remove table by table, with the count of references before it |
| `ReorderNames`, `ReorderLock`, `ReorderWrite` | the names read, the rows a `FOR UPDATE` statement finds then (also one created since) locked in id order, the positions written |
| `Insert`, `Commit`, `Announce`, `Abort` | the statements every door shares, `act.ts` for the order of commit and announcement |
| `Refresh`, `Crash` | a screen reads again; the process dies |

### MergeReviews: the refused saves

`save` is a versioned UPDATE, and `Record` keeps a refused one in another
transaction. `pending` reads the records, then the rows (`Judge`), then deletes
those found settled (`Drop`). `resolve` reads the records and, for "mine",
overwrites row by row and then deletes them (`ClearCase`/`Clear`). Two history
variables: `owed` is the edit an analyst was told was refused and has not
answered; `between` the rows whose last refusal was recorded while another tab of
that analyst had read the records and not yet deleted (`Reading`).

### HeldProse: a report's prose in memory

One record on one instance. A document is a set of words merged by union, which
is what the CRDT promises about two updates. `docs` holds every document ever
built, so that one dropped from the map with a store in flight is still there;
`live` is the one the map has. `saving` is the promise chain of its stores,
`fate` what came of each word typed. The acceptance of a first word of a writer
(`Apply`, `Accept`, `Resume`) is a query a send can overtake. `Sends` run
`seal`, `Stamp` and `settle` beside the connections. A store encodes the
document in one step and commits what it encoded in another (`Encode`, `Write`).
`by`, `fate`, `named` and `ousted` are no state of the code: `ousted` says that a
leave which waited for a store took a document opened meanwhile out of the map,
and a word is `risked` in `fate` when it is taken with no acceptance of its
writer held, or while another document of the record is being stored.

### RowDraft: the form and the lane of one record

`log` is the record at each version with the tab that wrote it. A hold is
`rowDraft.ts`'s own record: what the field held when it was begun, the version
read, the analyst's value, whether it is out, refused, or pressed again. `Draw`
is a render with its effect, which sends what is owed. A request in `queue`
names one version for all its fields (`Request`), and goes on from versions the
tab's own answers moved it past (`Advances`). `Fails` loses a request or its
answer, and a request lost to its tab may still reach the server (`stray`).

### ArtefactStore: bytes, records and reports

`lane[c]` is the queue `EvidenceStore.exclusive` makes for a case; only its
first act runs (`Turn`), one file-system call or transaction at a time. Bytes
arrive outside the lane (`arriving`, `Lands`) as uploads do. `Ask` reads what
the case still names, `Forget` removes the rest. `Send`, `Figures`, `Stamp` are
the report's send as far as its figure goes. `Import` reads an archive in.
`Withdraw` takes reach from everybody with an act under way, who then sees no
row. `Fail` and `Crash` may come at any step.

### InstallCopy: copies of a running install

EXTENDS ArtefactStore, which goes on working (`Work`) while `backup.sh` dumps
the database in one statement, archives the directory case by case, verifies,
and restores the database and then the directory. `left` remembers the digests
that left a case after the dump.

### ReportLifecycle: reports and their sections, implementing FiledReports

Every request that writes a report or one section, as the sequence of its
statements (writes of several sections at once, that is reorder, `updateMany` and
bulk delete, are not modelled): `req[u].at` is the next one, `locks[u]` what the transaction has
taken. A section's row is taken by its UPDATE before the trigger of
`store-guards.ts` share-locks the report it leaves, and the one it joins; a
write of a report takes the report alone; a delete cascades to the sections and
to the report that corrects it; the unique index makes a second successor wait
for the first (`WaitsFor`). A ring of waits is broken by an abort of one in it
(`Ring`, `InRing`, `Aborted`). A request changes nothing another sees before its last
step, so a commit is one step.

| Action | Code |
|---|---|
| `AskEdit`, `AskRemove`, `AskAdd`, `AskOfReport` | the doors of `entities.controller.ts` and `report.controller.ts` |
| `TakeRow`, `LeaveReport`, `JoinReport` | `updateVersioned`, `refuse_a_part_of_a_sent_report` before and after the write |
| `CheckUnsent`, `DrawReport`, `DrawParts`, `CannotDraw` | `send` and the two reads of `render` without a lock |
| `HoldReport`, `Compare`, `CommitReport` | `FOR UPDATE`, `movedSince`, the stamp |
| `ShareReport`, `InsertSuccessor`, `CommitSuccessor` | `supersede` |
| `ReadLayout`, `Compare`, `CommitRestore` | `restoreSections` |
| `Cascade`, `CommitDelete` | the delete of a report, by its foreign keys |

`FiledReports` is what the tier promises whoever was sent a report, in four
variables and two actions: a draft changes in any way, a send preserves exactly
what the report holds at that moment, and what was sent never changes again.
`Filed == INSTANCE FiledReports WITH …` maps the committed rows to it:
`held` is the sections of each report, `stage` whether it is unborn, draft, sent
or gone, `document` the column of the figures, `corrects` the foreign key.

### LiveScreens: from a commit to the screens that are open

The case is its number of writes. `room`, `promise`, `listeners`, `leaving` are
`CaseChannel` and `PresenceStore.subscribe`; `cmds` and `wire` are the one
connection to Redis, which executes and pushes in order; `frames` are the
announcements on their way to a tab. A subscription is named by the connection
that asked for it. `tab[s]` is the record of `Link` and `useCaseChanges`:
whether it is down, how many drops it has seen, the timer, the read under way
and the drops that read may call the screen current for (`watch`). A connection
breaks under both ends, and each learns of it later. A tab asks for its read as
its socket opens, and nothing waits for the gateway to have joined the connection
by then; a publish may fail (`AnnounceFails`). `unheard[c]` is no state of the
code: how much was written that nothing tells connection `c` of.

### PresenceClaims: who is on a case and who is editing which row

`key` and `claim` are the two things Redis keeps with an expiry. Everything one
connection does waits behind what it did before: `order[c]` is that chain, and
`at[c]` where its head is and what it has read. A claim is one script; a release
reads the holder and deletes in two commands; an announcement reads the claims,
asks who is alive, and deletes the stranded ones in three (`Look`, `Alive`,
`Sweep`). `Revalidate` is the sweep over admitted connections. `Lapse`, `Fail`
and `Crash` share a bound of faults: heartbeats that fail until the key is gone,
a rejected command that may still have been done, a process killed. What lapses
with a key are the rows that no other connection's heartbeat refreshes
(`Refreshed`). Its definitions are named so that `LiveProofs` can extend it beside
`LiveScreens` (`PresenceSpec`, `Peers`, `JoinRoster`).

### AuditTrail, InstallAccounts: who administers, and what the trail says of it

`trail` is the lines by number. A line is `open` from its insert to its commit,
then `stored` or `void`; it is `late` when a higher number had been picked for
delivery by then. Each server has a round (`Begin`, `Select`, `Accept` or
`Refuse`, `Mark`) and a sweep (`Bound`, `Prune`, its commit or its failure), and
they share the mark `cursor`.

`InstallAccounts` EXTENDS it with the acts that write lines. An account act
waits in its process's queue (`turns[s]`), then for the database's `lock`, asks
again whether its caller administers (`Still`), reads the administrators
(`Everyone`), the target (`Target`), writes, records its line and lets the
library write once more (`Library`). A claim of the install passes the count, the
sign-up's own refusal, the choice of role and the insert before the claim row
settles it (`Take`, `TakeBack`). `Stop` kills a process anywhere in this.

### CustomerReach: customers, groups, and who reaches which case

EXTENDS `InstallAccounts`, whose roles its requests ask. `behind` is the
customer of each case, `held` and `member` the two tables of groups, and
`Reaches` the answer of `db/reach.sql`. A merge is one transaction of nine
statements. What it has done and not committed is in `doing[p]`: the cases it
moved, the edges it copied and deleted. Those rows are locked, and so is the
customer they name (`Pinned`, `Dropping`, `Claimed`); it becomes visible in
`Delete`. Every other act is one write, then its announcement. `unheard` is the
analysts a write cut off from a case, until they are told.

| Action | Code |
|---|---|
| `Merge`, `Read`, `Compare`, `Move`, `Edges`, `Copy`, `Drop`, `Settle`, `Delete` | `customers.service.ts` merge, with `ic_references_shared` and `ic_move_cases` |
| `RollBack` | a statement that fails, or the victim of a deadlock |
| `Remove` | `customers.service.ts` remove |
| `Hold`, `Release`, `Grant`, `Announce` | `groups.service.ts`, the members read after the write |
| `Attribute` | `cases.service.ts` attribute |
| `AccountStep` | a step of `InstallAccounts`; a removed account takes its memberships along |

## The runs

A run is one question. Every passing run ends with all reachable states seen.

| Run | Instance | What it shows |
|---|---|---|
| `rows_doors` | 3 rows and one to be created in two collections, one a reference of another; 2 analysts with a request each, of every operation; versions up to 3; fair | Two requests at the same rows, made on what the screens show before or after the other's write is read. No write of what was not read, the feed complete, the two-field rule true of what is stored though it is judged one transaction early, reorders that queue instead of deadlocking; a selection goes whole or not at all, a stale screen has been told or will be unless the publish failed, and every request is answered however its statements wait. |
| `reviews_kept` | 2 rows, 2 fields, 2 tabs of one analyst with 3 and 1 requests, and one of another analyst with 1 | Two refusals, a review of both and an answer, beside the other tab's refusals and the other analyst's edits: nothing refused is dropped unanswered but what was recorded between another tab's read and its delete, and "mine" is dropped only when every row was written. |
| `prose_held` | 2 tabs of one analyst, 2 sends, 2 words, the document built twice, 3 words and sends in all, one failed statement; fair | The record opened anew while it may still be stored. One document, until a leave takes another than its own out of the map; every word surely taken is stored, still to be stored, or its writer told; a sent report holds every such word; no frame and no send waits for ever, on any path of seal and settle. |
| `prose_reopened` | 2 analysts, 2 words, the document built twice | *Violated*: see below. |
| `draft_writes` | 2 tabs, 2 fields, 3 values, 2 changes, one loss; fair | Fields read at different versions leave in one request and replace only what was read; with nothing lost, a tab is refused for another's write only; a change that was left never waits for ever. |
| `artefact_held` | 1 case, read in from an archive, 2 records, 2 digests, 2 acts on it, one failure, crash or withdrawal; fair | Bytes a record names are held; those nothing names go; a sent report's figure is not let go after the stamp; the acts of a lane all end. |
| `copy_taken` | 2 cases, one of them read in, 2 acts, one failure, crash or withdrawal, one copy and restore | A copy lacks only what left while it was taken; a restored install holds what its records name, but for that; and the store keeps what is named meanwhile, in two cases. |
| `reports_filed` | 3 analysts, 3 requests of every kind on a case of one report; 3 report and 3 section ids | The refinement of `FiledReports`; one successor; no orphan section; a restore puts a section back once; transactions never wait in a ring, but for a delete and the edits that meet it. |
| `screens_current` | 1 tab with 3 connections, 1 write, a publish that may fail, 1 failed read; fair | The room goes on hearing while its members change; from the first write published after its connection joined, a screen is current, about to be told, or says it is behind; it says so until it has read what was written while it was down; it catches up with what it was told of. |
| `screens_early` | 1 tab, 1 connection, 1 write, nothing fails | *Violated*: see below. |
| `presence_told` | 2 connections on 2 servers, 1 row, 2 frames, one change of level, one fault of any kind; fair | A claim that is refreshed is not taken; who is over leaves the roster; who fell below write comes to hold nothing. |
| `reach_kept` | 2 servers, 2 accounts, 2 requests at once, 3 lines, batches of 2, one server stopping; six installs (`Installs`), two of them with a directory of 2 customers and the default one, 2 groups, 2 cases of one reference and 3 requests; fair | The install keeps an administrator; claims that race leave one account; changes are made by who administers at that moment; the newest line about an account tells its state; every line not late is delivered, and none goes before it is. No case or hold is left with a customer that is gone, and no customer has a reference twice; who reached either of two merged customers reaches the one that stays; who is cut off is told. |

Invariants that are one statement in several parts are checked as one:
`DocumentsKept`, `PartsKept`, `RoomsKept`, `AccountsKept`, `PrunesKept`,
`DirectoryKept` and `CopyKept` (a copy lacks only what left, a restored install
holds what it names, the store keeps what is named meanwhile) each name theirs;
`WorkIsDone` is the liveness of requests and of delivery.

**Why these bounds are enough to mean something.** Each hazard takes two actors
and at most two steps of each: a stale version needs one write after one read; a
deadlock two requests over two rows; a store overtaken by another two
documents; a removal under an upload two acts and two records of one digest; a
send that misses an edit one edit between two reads; a subscription lost to its
own teardown one leaving and one joining connection, and so a tab that comes
back; a stale mark a full batch and one line more; a merge that races another
two customers and a third act. Every instance has that, and
the mutants named in `PROJECT.json` show the case does happen: each property is
broken by a plausible bug under the same configuration. What a larger instance
could add is a third actor. `OneDocument` shows why that can matter (below); where
there is a theorem it closes the gap. `MaxAsks` bounds words and sends together,
and since words differ only in who typed them and when, and sends only in when,
the next of each is any (`MayType`, `MayAsk`).

`CHECK_DEADLOCK FALSE` everywhere: with its bounded requests made, an install
does stop. That nothing stops *too early* is what the liveness properties say.

**Fairness, and what justifies it.**

- `CaseRows`: weak fairness of each request's next statement, of the deadlock
  victim's abort, and of a told screen's read. PostgreSQL answers, times out after `lock_timeout`, or aborts a
  victim. No fairness of asking or crashing.
- `HeldProse`: weak fairness of the steps that are continuations (`Continue`):
  promises settle, timers fire, queries answer or fail. None of a connection's
  typing, opening or leaving, nor of a failure.
- `RowDraft`: weak fairness of each tab's writes, and of reads that were asked
  for. None of an analyst's change, and none of a loss.
- `ArtefactStore`: weak fairness of the lane of each case: the file system and
  the database answer or fail.
- `ReportLifecycle`: none. That every request is answered says nothing of this
  code while PostgreSQL aborts one of every ring; who can be in one is safety.
- `LiveScreens`: weak fairness of Redis executing and pushing, of an announcement
  being published or failing, of the server's
  continuations, and of each thing a tab does by itself (its timers, its
  reconnecting, its reads being served). None of breaking, failing, or pressing
  "read again".
- `PresenceClaims`: weak fairness of a connection's chain, of the scheduled
  sweep, and of expiry. None of opening, closing, frames or faults.
- `AuditTrail`: weak fairness of beginning a round (a ten-second interval),
  reading and marking; strong fairness of `Accept`: a destination asked again and
  again takes a batch some time. It is assumed of delivery only, and nothing else
  rests on it. `InstallAccounts`: weak fairness of each request's statements;
  who waits for the lock is given it or told of the timeout.
- `CustomerReach`: that of `InstallAccounts`. None of its own: what is checked of
  the directory is safety.

## What is proved

The theorems hold for every value of the constants the named assumptions allow:
any number of analysts, tabs, servers, rows, fields, digests, customers, groups,
requests, failures. Those assumptions say that constants have their types, that the
"nothing" values are none of the values, and, for `InstallAccounts`, that an
install with an account has an administrator. No theorem has a hypothesis besides.
Where the code does not keep what it means to, the property names the exception,
and the next section says what happens there.

**CaseRowsProofs.** `IInv` of CaseRowsProps is inductive (`AlwaysSound`). Feed
completeness says nothing of a transaction still open, so it is not inductive
alone: `IInv` adds that what a request has written follows on from the committed
row *by the version its client read* (`MayBecome`), that no two transactions
hold one row (`Apart`), and where in its handler a request may hold anything at
all (`RequestOK`). One lemma per action, over `QuietStep` and `CommitStep` for the
two kinds of step. From it: `Types`, `FeedIsComplete`, `NobodyOverwritesUnread`,
and, with a lemma that every step that moves a version leaves its announcement
to be made, `NoScreenIsForgotten`.

Three more go beside it, each over an invariant of its own. `LawInv`: a version,
once written, keeps its two fields (`Lawful`), so a patch that passed the rule on
the version its client read stays judged (`Judged`) until it is stored over that
version or refused. It needs that no client's version is ahead of the row and
that a row removed does not come back (`Seen`), since a version number that
returned with other fields would carry a judgement that was never made. That is
`RowsAreLegal`. `QueueInv`: the rows a reorder holds come before those it has to
take. `NoReordersDeadlock` follows: each row a waiting reorder held would come
before one it waits for, and of the rows they wait for there is a first.
`SelectionInv`: of what a bulk delete named, a row is gone from its view, or its
collection is still to be gone through. That survives others' commits because
rows do not come back, and `SelectionsGoWhole` is what it says at the commit.

**MergeReviewsProofs.** Any number of tabs for each analyst. What a tab read of a
row is what is held for it, unless that was recorded in between (`ReadIsCurrent`);
and an id that was read names no other record, since a record keeps its id as long
as it is there and no id is given twice (`IdsAreUnique`), so that a delete by id
reaches only the row that was judged. `RefusedEditsAreKept` is `RefusedEditIsKept`
and `ReviewTypes` the types, from the same invariant. For `MineIsWritten`: of the
records an answer "mine" read, each is still to be looked at, is about to be
written, was written over or was found gone (`AnswerGoesThrough`).

**RowDraftProofs.** `StateOK`: a hold says what the field held at the version it
read; a request in a lane says the same of each of its fields; every version a
lane moved past was written by that tab. `OnlyTheReadIsReplaced` follows, with
any number of losses. `OnlyOthersRefuse` adds `NoneLost`: with no loss, a tab's
answers moved it on from every version it wrote, but for one whose answer is on
its way (`LaneKnows`), and nothing behind the first write of its lane has left.
A refused write states a version no answer moved the tab on from, so the one
after it is another tab's.

**ArtefactStoreProofs.** `StateOK`: in a lane, only the first act is past its
wait; so between an act's asking what is named and its removing the rest, no
record comes to name those bytes, and bytes that arrived stay until their
record names them. `WhatIsNamedIsHeld` follows. The converse, `UnnamedBytesGo`,
needs `NamesInv`: whatever is held is named, or on its way to be, or the first
act has it in hand to let go; and an attachment that read a record no act has
changed since (`OldOK`, `RowsMove`) lets go of just what that record named.
`FiguresOfSentReportsStay` adds what the report's send read of its figure to
`StateOK`. The proof asked for one assumption that was not written down: that
the names read from an archive are not the value for "no name".

**InstallCopyProofs.** While the install runs, `StateOK` holds of it. From the
dump on, bytes that leave a case are remembered, so what it has had only grows;
that gives `CopyLacksOnlyWhatLeft`. A restored install may lack bytes its records name,
and `StateOK` does not hold of it: `RestoredOK` says instead that a record names,
an act has landed and an archive brought only bytes the case has had. How its
lanes and records fit together comes from the proofs of the store, taken of the
same install as if one act more had lost reach (`Later`), of which `StateOK` says nothing
about bytes. `CopiesAreKept` is all three parts of `CopyKept`.

**ReportProofs: the report.** The invariant says that two transactions never hold
what excludes one another (`Apart`); which requests hold which report and row at
each step (`TookReports`, `HasTaken`); that what a send or a restore read after
taking the report is still what the report holds (`SinceRead`, `HasRead`), since
every write of a part takes a share of its report first; and that a commit
writes only what its request took (`WritesWhatItTook`). The refinement then goes
by the kind of the step: every step but a commit leaves what the mapping reads
alone, a commit other than a send's is `Filed!Draft`, because it touches no
report it could not take unsent, and a send's is `Filed!Send`, because what was
compared is what is held. That is `SentReportsAreFiled`; `PartsAreKept` and
`RestoresAreOnce` come from the same invariant. `OnlyDeletesDeadlock` adds at which
steps a request holds anything of each kind (`HoldsOnly`): who waits for a report
taken alone waits, with no delete in the ring, for a request that waits for
nobody, and so on backwards through the other kinds of lock.

**ReportProofs: its prose.** `DocInv` is about who has which document. A
document once let go of is nobody's; the one that is live is built by one reader
for all who wait (`OneLive`, `WaitingWait`); everybody past that wait holds it and
is counted (`CountedHold`, `ReadersCounted`), and whoever waits for a store is in
its queue once (`QueueKept`). The invariant is `ousted \/ DocInv`, and
`OneDocumentIsKept` is what it says: a leave that takes the document it waited
for out of the map keeps all of it, and one that takes another is the exception
(`prose_reopened` shows what follows from it). The proof asked that connections
and sends be finite and no reader be both, and that the value for "no document"
be none of them. What becomes of words is only model-checked.

**LiveProofs: the screens.** A room's subscription goes round three states: `Silent`,
`Asking` (the command, then its acknowledgement, is between the server and Redis)
and `Hearing`. Nobody leaves while it is asked for, since a connection ends after
its own join, so there is one owner and one acknowledgement at a time (`RoomInv`,
`MemberInv`); who is leaving is who listens and is not the owner. That is
`RoomsAreKept`. For a tab, what a read may call current was asked for since the
link came up and holds what was written until then (`WatchOK`): `BehindIsCleared`.
And once something was published after a tab's connection joined (`Heard`), what
its screen or its read lacks is on its way (`Reading`, `ReadInv`), which gives
`ScreensAreTold`: `JoinedIsTold` with any number of tabs, writes and failed
publishes. An announcement on the wire is a pair as an acknowledgement is, since
that a string is no pair cannot be proved; and that `None` is no connection had
not been written down (`NoneAssumption`).

**LiveProofs: the claims.** A connection joins once: whoever has joined never
comes back to the roster (`Past`). `ClaimsInv` says that every connection a claim
names, or was read to name, is one of those, so that a stranded claim's holder is
still gone when the sweep deletes it; that a release at its delete read its own
connection as the holder; that no claim comes behind a leave in a chain, so that
who may yet claim has a heartbeat (`MayClaim`), and what a heartbeat refreshes does
not expire. `ClaimsStay`, the action property, follows. As the model stood it was
false: a connection that had lost its claim to somebody else's late delete went on
refreshing the row, and its own outage took the claim of the next holder, though
that one refreshed it too. It takes three connections, which no run has. `Lapse`
now lets a row go only when nobody else refreshes it, as the expiry in Redis does.

**CustomerReachProofs: the accounts.** The lemmas about the trail come first, one per action,
so that what follows need only say what its own steps do to it. For the trail:
what lies behind the mark was taken or is late, and so is what a round has picked
once the destination took it (`DeliveredBehind`, `RoundOK`); what a sweep deletes
lies behind a mark it read earlier, which only grows (`SweepOK`); the line of a
deletion has a higher number than what it deletes, which is why a chain of
deletions ends in a line that is stored. For the accounts: the lock is held by one
act, which is the head of its queue (`LockOK`), so what it read about the
administrators still holds when it writes (`ActOK`, `SignedIn`), and claims before
the claim row leave at most the accounts of requests under way (`ClaimsOK`). From
these: `AccountsAreKept`, `PrunesAreKept` and `OnlyAdministratorsDo`.

`LinesTell` (that an account's newest line says what it is) needs `TellInv`
besides: an act that has changed an account and not yet told it has its change
among the untold, its line is the newest there is of any account, and what the
library writes once more is what the account already is (`Tells`). Most steps go
by one lemma, `TellStays`: a step that stores no line of an account except one
whose change stays untold, and changes only accounts of claims under way, keeps
all of it. The proof asked for an assumption that was not written down, that `""`
is nobody's address (`AddressAssumption`): the lines of sweeps and of other parts
carry it. On a fresh
install where a server stopped, somebody may administer before the claim row is
there (`Unclaimed`): the property excepts it, and so does the invariant.

**CustomerReachProofs: the directory.** `DirectoryKept` is inductive as it stands: beside what
it says of customers, cases and holds, it says of each merge under way what its
locks give it (`RequestKept`), and of each two that they are `Apart`. One lemma per
statement; `Delete`, which commits, is where both are spent. The action property
`MergesMoveReach` follows from what `copied` and `found` say of the edges at the
time of the commit; as first stated it did not name the request whose commit it
is, and was false: two requests that end in one customer's removal could have
swapped it. `LosersOfReachAreTold` needs that who was cut off by an edge was a
member of its group when the members are read, or has a request of their own
that took them out of it and has yet to announce it.

Only model-checked, and why: everything under fairness, since the prover has no
`ENABLED`. That is `RequestsAreAnswered`, `NothingWaitsForEver`, `ChangesSettle`,
`ActsEnd`, `ScreensCatchUp`, `GoneIsForgotten`, `BelowWriteYields` and
`WorkIsDone`. And `SureWordsAreKept` and `SentHoldsWhatWasTaken`: which words a
document still means to store was followed by an invariant for one document and
one tab of each analyst, which is not what the code assures; without those
conditions it has to speak of the documents let go of as well, and that is not
done (see the plan). Every other property of a passing run has a theorem.
`LawInv`, `QueueInv`, `SelectionInv`, `NoneLost`, `TellInv`, `AnswersGoThrough`
and `DocInv` held in TLC on small instances before they were proved.

## Where the code and its words part

Two runs end in a violation, one of what a comment in the source says and one of
what the project's own requirements say.

- `prose_reopened` violates `WordsAreKeptOrTold`. The last reader leaves while a
  store is in flight; `server/prose/prose.service.ts:558` finds nothing *asked*
  to be stored, and drops the document. Opened again, the record is built from
  the row before that store, and its own next store writes over it. Line 352
  of the same file says why there must be one document.

- `screens_early` violates `CurrentOrTold`. A tab asks for its read as its socket
  opens (`ui/api/useCaseChanges.ts:279`), and nothing holds the socket back until
  the gateway has joined the connection to its room (`server/live/live.gateway.ts:539`).
  What is written and published between the read and the join is never announced
  to it, and the screen goes on as current; `openspec/specs/live/spec.md:208` says
  that a screen is not presented as current when it cannot be known to be. What
  does hold is `JoinedIsTold`, from the first write published after the join.

Other sentences are stated in the modules and refuted by TLC on the instances
below, which no configuration here repeats. They are kept because a change to
the code may make them true.

| Property | Says | Refuted with |
|---|---|---|
| `RefusedEditIsKept` without `between` (MergeReviews) | a refused edit is kept until it is answered (`conflicts.service.ts:203-206`) | the instance of `reviews_kept`: one tab's `pending` finds a record settled, the other has a save refused, which keeps the record's id, and the delete at line 259 removes it |
| `ListReferencesResolve`, `BulkDeleteOrphansNothing` (CaseRowsProps) | references and their counts hold when the write lands | `LinkPatches`, 3 rows, 1 request each |
| `AnswerDropsOnlyWhatItRead` (MergeReviews) | an answer deletes the edits it was about | two tabs of one analyst, 3 requests each |
| `OverwritesWhatWasShown` (MergeReviews) | "mine" overwrites the version shown | a tab each, `MaxVersion = 4`, 3 requests each |
| `WordsAreKeptOrTold` (HeldProse) | a word taken is stored, about to be, or its writer told | besides `prose_reopened`: 2 tabs of one analyst, 2 words, 1 document, 1 failed statement (below) |
| `AcceptedWordsAreKept` (HeldProse) | as `WordsAreKeptOrTold`, for words whose writer was told they are unsaved too | 2 connections, 2 words, 1 document |
| `LostIsTrue` (HeldProse) | words are called lost only when the report was sent | the same |
| `StoredWordsAreNamed` (HeldProse) | who wrote stored words is named in the record of changes | the same |
| `DroppedIsStored` (HeldProse) | nothing is dropped unstored | 2 tabs of one analyst, 2 words, 1 document |
| `OneDocument` (HeldProse) | one document, whoever opens and leaves | 3 tabs of one analyst, 2 documents: two leaves wait for one store, a third tab opens between them, and the second leave drops what it holds |
| `DrawnIsServed` (RowDraft) | an untouched field shows what is served once all is answered | 1 field, 3 values, 2 changes |
| `SentFiguresAreDrawn` (ArtefactStore) | a sent report still has each figure | 5 acts, no failure: the figure was picked to be let go before the stamp |
| `NamedIsHeld` without `withdrawn = 0` (ArtefactStore) | bytes named are held | 4 acts, one withdrawal: who lost reach sees nothing named |
| `CopyIsWhole`, `CheckedCopyIsWhole`, `FailedRestoreChangesNothing` (InstallCopy) | a copy has what its dump names; a verified one does; a failed command changes nothing | 2 or 3 acts; for the second 2 cases and digests shared between them; for the third one failure |

How two tabs of one analyst lose a word: a tab's words wait for their acceptance to
be recorded, and its analyst is already among the accepted
(`prose.service.ts:651`). A frame of the other tab is taken on that. The insert
fails (669), the first tab is told, and the next store finds no acceptance that
names anyone, so that the document has nothing to store (867-872). The other
tab's word is neither stored nor told of.

`OneDocument` holds until a leave that waited for a store takes a document opened
meanwhile out of the map (`ousted`, which `DocumentsKept` excepts). `NamedIsHeld`
and `SentFiguresStay` are stated for acts whose analysts keep their reach.

Some properties that are checked hold because they name an exception, and the
exceptions are what the code does otherwise:

- `RefusedEditIsKept` excepts an edit refused after another tab of the same
  analyst read the records and before it deletes them (`between`).
- `SureWordsAreKept` and `SentHoldsWhatWasTaken` speak of words taken with an
  acceptance of their writer held and with no other document of the record being
  stored. The others are `risked`: those of `prose_reopened`, and those of the two
  tabs above.
- `StaleScreenIsTold`, `JoinedIsTold` and `ScreensCatchUp` except what a failed
  publish leaves unsaid: it is logged and swallowed (`case-channel.service.ts:170-172`),
  and nothing tells the screens later. The latter two except what was published
  before the connection joined, too.
- `DeadlocksNeedADelete` excepts the delete of a report, which takes the report
  and then each section of it, while an edit holds its section and waits for the
  report (`store-guards.ts:80`). PostgreSQL aborts one of the two.
- `LivingClaimsStay` allows a delete decided while the row was another's.
  Between a sweep's reading that a holder is gone and its delete
  (`presence.store.ts:304-317`) the row may be claimed, and that new claim is
  deleted. The comment at 296-303 speaks of the readers of the roster only. The
  next heartbeat refreshes a field that is not there and does not make it again.
- `BelowWriteYields` excepts a rejected command: `live.gateway.ts:596` forgets a
  row before it asks Redis to release it, so one that failed is not tried again
  and lasts as long as the heartbeat of who holds it.
- A member key that lapsed under failing heartbeats is not made again
  (`Lapse`): the connection stays open and off the roster, which
  `openspec/specs/live/spec.md:53` does not expect.
- `MergeMovesReach` excepts analysts of a group whose hold of either customer
  changed after the merge read it (`customers.service.ts:291`): the hold of the
  losing customer that was added is deleted and not moved, and one released meanwhile
  is copied all the same. Neither the merge nor a removal announces anything.
- `PrunesKept` and `WorkIsDone` (of delivery) except *late* lines. Numbers are given at
  insert and lines are seen at commit, so one whose transaction ends after a
  higher number was picked lies behind the mark, is not delivered, and may be
  pruned as if it had been (`install-audit/design.md:97-111` argues from the
  number alone).
- `OneClaimStands` and `LinesTellTheAccounts` except a server that stopped in a
  claim: the account it inserted stays, with the role of a first account, beside
  the one that claims next (`auth/claim.ts:36`, "stays claimable with nothing to
  clean up").

## What is not modelled

- **The relay between instances** (`HeldProse`): one instance is modelled.
  Neither are the removal of a section while a report is open, a row that is gone
  when its prose is stored (`prose.service.ts:960-965`), acceptances that lapse
  after a day, and shutdown.
- **Writes of several sections in one request** (`ReportLifecycle`): reorder,
  `updateMany` and the bulk delete of `report_blocks`. `CaseRows` has those doors,
  for rows without the report's locks and triggers.
- **Forms that send all fields at once, and requests naming several records**
  (`RowDraft`).
- **Scopes** (`LiveScreens`): every announcement is about all a screen shows, so
  a read of one scope beside a read of another is not seen. Nor is a Redis
  connection that drops and comes back without the pushes between.
- **Admission, limits on frames and connections, and the order announcements of
  presence arrive in** (`PresenceClaims`).
- **The account lock lost with its database connection while the act goes on**
  (`InstallAccounts`); what the library answers to an address that is taken, which
  is modelled as a refusal (with `autoSignIn` off, `auth.config.ts:913`, it may be a
  success that names nobody, and is not decided by this repository); accounts created, reset or removed; sessions, lockouts and
  sign-in, which are a library's. A claim is taken to sign its account in only
  after winning, as `setup.controller.ts` does.
- **Reach as rows see it.** `CustomerReach` models the answer, not the row
  policies that ask it. Requests in the other models reach their case;
  `ArtefactStore` alone lets reach go, and `PresenceClaims` lets a level change.
- **What an organisation answers** (`CustomerReach`): a merge refused for it ends
  in `Read`. Two merges of each other's customer, with nothing behind either,
  leave neither; nothing promises otherwise. Announcements are in one process: a
  connection to another server learns by its sweep, every 15 seconds. Opening a
  case, groups made or removed, changes of role, and a server that stops between a
  write and its announcement are left out. The comment at
  `customers.service.ts:245` ("no uniqueness is enforced on the reference
  anywhere") is behind `db/schema/case.ts:140`, which does enforce it, and which
  `Move` models.
- **Creating references in bulk, import doors and demos**: one creation in
  `CaseRows` stands for them.
- **Rendering, parsing, mappings, vocabularies**: functions of what was read.
- **External code**: PostgreSQL is its row locks, foreign keys, triggers, unique
  index and READ COMMITTED; Redis is one command, script or MULTI at a time, in
  the order of a connection; the CRDT is union; TanStack Query delivers a read
  in the order it was begun for one tab.

Most of the repository is not of this kind. Of its lines, about half are the
interface's screens and components, which draw what the modelled hooks hold;
most of the rest are demo content, vocabularies, tables of what a regulator
asks, converters of a provider's payload or a spreadsheet, and the painters of a
report, all of them functions of their input. What is left, the code that keeps
state between two awaits, is what the components above are.

## The plan

Done: CaseRows, MergeReviews, HeldProse, RowDraft, ArtefactStore with
InstallCopy, ReportLifecycle with FiledReports, LiveScreens, PresenceClaims,
AuditTrail with InstallAccounts, CustomerReach. Next, in this order:

| Module | Models | Abstract specification | To check | To prove |
|---|---|---|---|---|
| **ProseRelay** | two instances of HeldProse's document over one row and one channel | HeldProse with both instances' readers | 2 instances, 2 words: words reach both, or the next build | |
| **TabLanes** | `writeRows` over several lanes beside `writeRow`; composed with RowDraft | lanes as one queue per record | 3 records, 2 requests: no deadlock of lanes, versions right after a partly moved answer | that each lane stays a queue |
| **ArchiveAndImport** | export's two reads; preview and commit | | 2 imports of one incident | |

Abstract specifications worth stating of what exists: a *versioned register* per
row, which `CaseRows` implements with each commit a compare-and-set, and which
`RowDraft`'s `Handle` then uses as its server; an *inbox* of refused edits for
`MergeReviews`; `CaseRows`' `screen` and `told`, which `LiveScreens` details.

Theorems next: `SureWordsAreKept` and `SentHoldsWhatWasTaken`, by an invariant
that follows a word through every document that is still being stored and lets a
document hold words it no longer means to store; and that `CaseRows` implements the versioned register, by the same division of steps as `SentReportsAreFiled`.

## Running it

    tlc -config CaseRows_doors.cfg MCCaseRows
    tlapm CaseRowsProofs.tla

Each `X_name.cfg` belongs to `MCX.tla`; a run takes from ten seconds to a few
minutes, and so does each proof.
