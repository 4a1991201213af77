--------------------------- MODULE CaseRowsProofs ---------------------------
(***************************************************************************)
(* Proofs about CaseRows, for every set of analysts, rows and patches:     *)
(* the types, the change feed, that no row is written by anyone who has    *)
(* not read it, that no screen is forgotten, that stored rows are legal,   *)
(* that reorders queue and that a selection goes whole.                    *)
(***************************************************************************)
EXTENDS CaseRowsProps, SequenceTheorems, FiniteSetTheorems, WellFoundedInduction, TLAPS

-----------------------------------------------------------------------------
(* The feed of one row.                                                    *)
(* The history of n versions is a sequence of n entries.                   *)
LEMMA HistoryType ==
    ASSUME NEW n \in 1..MaxVersion
    PROVE  /\ History(n) \in Seq(Entry) /\ Len(History(n)) = n
           /\ \A i \in 1..n : History(n)[i] =
                 [op |-> IF i = 1 THEN "insert" ELSE "update", version |-> i]
<1>1. n \in Nat
  BY RowsAssumption
<1>2. History(n) \in [1..n -> Entry]
  BY RowsAssumption DEF History, Entry
<1>3. History(n) \in Seq(Entry)
  BY <1>1, <1>2, SeqDef
<1>4. DOMAIN History(n) = 1..n
  BY DEF History
<1>5. Len(History(n)) = n
  BY <1>1, <1>3, <1>4, LenProperties
<1> QED
  BY <1>3, <1>5 DEF History

(* One more update is one more version of history.                         *)
LEMMA HistoryGrows ==
    ASSUME NEW n \in 1..MaxVersion, n + 1 <= MaxVersion
    PROVE  History(n) \o <<[op |-> "update", version |-> n + 1]>> = History(n + 1)
<1> DEFINE e == [op |-> "update", version |-> n + 1]
<1>1. n \in Nat /\ n + 1 \in 1..MaxVersion /\ e \in Entry
  BY RowsAssumption DEF Entry
<1> HIDE DEF e
<1>2. /\ History(n) \in Seq(Entry) /\ Len(History(n)) = n
      /\ History(n + 1) \in Seq(Entry) /\ Len(History(n + 1)) = n + 1
      /\ \A i \in 1..n : History(n)[i] =
             [op |-> IF i = 1 THEN "insert" ELSE "update", version |-> i]
      /\ \A i \in 1..(n + 1) : History(n + 1)[i] =
             [op |-> IF i = 1 THEN "insert" ELSE "update", version |-> i]
  BY <1>1, HistoryType
<1>3. /\ Append(History(n), e) \in Seq(Entry)
      /\ Len(Append(History(n), e)) = n + 1
      /\ \A i \in 1..n : Append(History(n), e)[i] = History(n)[i]
      /\ Append(History(n), e)[n + 1] = e
      /\ Append(History(n), e) = History(n) \o <<e>>
  BY <1>1, <1>2, AppendProperties, AppendIsConcat
<1>4. ASSUME NEW i \in 1..(n + 1)
      PROVE  Append(History(n), e)[i] = History(n + 1)[i]
  <2>1. CASE i \in 1..n
    BY <1>2, <1>3, <2>1
  <2>2. CASE i = n + 1
    BY <1>1, <1>2, <1>3, <2>2 DEF e
  <2>3. n \in Nat
    BY <1>1
  <2>4. i \in 1..n \/ i = n + 1
    BY <2>3
  <2> QED
    BY <2>1, <2>2, <2>4
<1>5. Append(History(n), e) = History(n + 1)
  BY <1>2, <1>3, <1>4, SeqEqual
<1> QED
  BY <1>3, <1>5 DEF e

(* A row that is inserted has a history of one version.                    *)
LEMMA HistoryStarts == <<>> \o <<[op |-> "insert", version |-> 1]>> = History(1)
<1> DEFINE e == [op |-> "insert", version |-> 1]
<1>1. 1 \in 1..MaxVersion /\ e \in Entry
  BY RowsAssumption DEF Entry
<1>2. <<e>> \in Seq(Entry) /\ Len(<<e>>) = 1 /\ <<e>>[1] = e
  BY <1>1
<1>3. /\ History(1) \in Seq(Entry) /\ Len(History(1)) = 1
      /\ History(1)[1] = e
  <2>1. 1 \in 1..1
    OBVIOUS
  <2> QED
    BY <1>1, <2>1, HistoryType
<1>4. <<e>> = History(1)
  BY <1>2, <1>3, SeqEqual
<1> QED
  BY <1>2, <1>4, ConcatEmptySeq

(* What a row may be followed by, whoever writes it.                       *)
Follows(old, entries, new) ==
    IF old = Absent
    THEN entries = <<>> /\ new # Absent /\ new.version = 1
    ELSE \/ new = Absent
         \/ new.version = old.version
         \/ new.version = old.version + 1 /\ new.version <= MaxVersion

(* Written with the entry it owes, a row and its feed agree again.         *)
LEMMA FeedFollows ==
    ASSUME NEW old \in Values \cup {Absent}, NEW new \in Values \cup {Absent},
           NEW entries \in Seq(Entry),
           old # Absent => old.version <= MaxVersion,
           FeedTells(old, entries), Follows(old, entries, new)
    PROVE  /\ entries \o Entries(old, new) \in Seq(Entry)
           /\ FeedTells(new, entries \o Entries(old, new))
           /\ new # Absent => new.version <= MaxVersion
<1>0. MaxVersion \in Nat \ {0}
  BY RowsAssumption
<1>1. CASE old = Absent
  <2>1. /\ entries = <<>> /\ new # Absent /\ new.version = 1
        /\ Entries(old, new) = <<[op |-> "insert", version |-> 1]>>
    BY <1>1 DEF Follows, Entries
  <2>2. entries \o Entries(old, new) = History(1)
    BY <2>1, HistoryStarts
  <2> QED
    BY <1>0, <2>1, <2>2, HistoryType DEF FeedTells
<1>2. CASE old # Absent /\ new = Absent
  <2> DEFINE n == old.version
             e == [op |-> "delete", version |-> n]
  <2>1. n \in 1..MaxVersion
    BY <1>0, <1>2 DEF Values
  <2>2. entries = History(n) /\ Entries(old, new) = <<e>> /\ e \in Entry
    BY <1>2, <2>1 DEF FeedTells, Entries, Entry
  <2>3. /\ Append(entries, e) = entries \o Entries(old, new)
        /\ Append(entries, e) \in Seq(Entry)
    BY <2>2, AppendIsConcat, AppendProperties
  <2>4. entries \o Entries(old, new) = Append(History(n), e)
    BY <2>2, <2>3
  <2> QED
    BY <1>2, <2>1, <2>3, <2>4 DEF FeedTells
<1>3. CASE old # Absent /\ new # Absent /\ new.version = old.version
  <2>1. Entries(old, new) = <<>>
    BY <1>3 DEF Entries
  <2>2. entries \o Entries(old, new) = entries
    BY <2>1, ConcatEmptySeq
  <2> QED
    BY <1>3, <2>2 DEF FeedTells
<1>4. CASE old # Absent /\ new # Absent /\ new.version = old.version + 1
                                        /\ new.version <= MaxVersion
  <2> DEFINE n == old.version
  <2>1. n \in 1..MaxVersion /\ n + 1 <= MaxVersion /\ n + 1 # n
    BY <1>0, <1>4 DEF Values
  <2>2. /\ entries = History(n)
        /\ Entries(old, new) = <<[op |-> "update", version |-> n + 1]>>
    BY <1>4, <2>1 DEF FeedTells, Entries
  <2>3. entries \o Entries(old, new) = History(n + 1)
    BY <2>1, <2>2, HistoryGrows
  <2>4. n + 1 \in 1..MaxVersion
    BY <1>0, <2>1
  <2> QED
    BY <1>4, <2>3, <2>4, HistoryType DEF FeedTells
<1> QED
  BY <1>1, <1>2, <1>3, <1>4 DEF Follows

-----------------------------------------------------------------------------
(* The values a write makes.                                               *)
LEMMA PatchedIsAValue ==
    ASSUME NEW row \in Values, NEW p \in Patches
    PROVE  Patched(row, p) \in Values /\ Patched(row, p).version = row.version
  BY PatchesAssumption DEF Patched, Values

LEMMA PlacedIsAValue ==
    ASSUME NEW row \in Values, NEW n \in Nat
    PROVE  /\ Patched(row, [pos |-> n]) \in Values
           /\ Patched(row, [pos |-> n]).version = row.version
  BY DEF Patched, Values

LEMMA BlankIsAValue == Blank \in Values /\ Blank.version = 1
  BY DEF Blank, Values

LEMMA BumpedIsAValue ==
    ASSUME NEW r \in Rows, rows[r] \in Values, NEW p,
           Patched(rows[r], p) \in Values, Patched(rows[r], p).version = rows[r].version
    PROVE  Bumped(r, p) \in Values /\ Bumped(r, p).version = rows[r].version + 1
  BY DEF Bumped, Values

-----------------------------------------------------------------------------
(* A row that is there has a feed.                                         *)
LEMMA PresentIsTold ==
    ASSUME RowsOK, NEW r \in Rows, feed[r] = <<>>
    PROVE  rows[r] = Absent
<1> SUFFICES ASSUME rows[r] # Absent PROVE FALSE
  OBVIOUS
<1>1. rows[r].version \in 1..MaxVersion
  BY RowsAssumption DEF RowsOK, Values
<1>2. feed[r] = History(rows[r].version)
  BY DEF RowsOK, FeedTellsEveryVersion, FeedTells
<1>3. Len(History(rows[r].version)) = rows[r].version
  BY <1>1, HistoryType
<1>4. Len(feed[r]) = 0
  OBVIOUS
<1> QED
  BY <1>1, <1>2, <1>3, <1>4

(* What waits for nobody touches nothing another transaction holds.        *)
LEMMA NobodyHolds ==
    ASSUME NEW u, NEW T, NEW D, NEW N, BlockedBy(u, T, D, N) = {}
    PROVE  \A v \in Analysts \ {u} : T \cap Written(v) = {}
  BY DEF BlockedBy

(* Committing rows that may each follow the committed one keeps rows and   *)
(* feeds in step.                                                          *)
LEMMA CommitKeepsRows ==
    ASSUME RowsOK, NEW w, DOMAIN w \subseteq Rows, Commit(w),
           \A r \in DOMAIN w : w[r] \in Values \cup {Absent}
                               /\ Follows(rows[r], feed[r], w[r])
    PROVE  RowsOK'
<1>1. ASSUME NEW r \in Rows
      PROVE  /\ rows'[r] \in Values \cup {Absent}
             /\ rows'[r] # Absent => rows'[r].version <= MaxVersion
             /\ feed'[r] \in Seq(Entry)
             /\ FeedTells(rows'[r], feed'[r])
  <2>1. CASE r \in DOMAIN w
    <3>1. /\ rows'[r] = w[r] /\ feed'[r] = feed[r] \o Entries(rows[r], w[r])
      BY <2>1 DEF Commit
    <3>2. /\ rows[r] \in Values \cup {Absent} /\ feed[r] \in Seq(Entry)
          /\ rows[r] # Absent => rows[r].version <= MaxVersion
          /\ FeedTells(rows[r], feed[r])
      BY DEF RowsOK, Feeds, FeedTellsEveryVersion
    <3> QED
      BY <2>1, <3>1, <3>2, FeedFollows
  <2>2. CASE r \notin DOMAIN w
    BY <2>2 DEF Commit, RowsOK, Feeds, FeedTellsEveryVersion
  <2> QED
    BY <2>1, <2>2
<1>2. rows' = [r \in Rows |-> rows'[r]] /\ feed' = [r \in Rows |-> feed'[r]]
  BY DEF Commit
<1>3. rows' \in [Rows -> Values \cup {Absent}] /\ feed' \in [Rows -> Feeds]
  BY <1>1, <1>2 DEF Feeds
<1>4. \A r \in Rows : FeedTells(rows[r], feed[r])'
  BY <1>1 DEF FeedTells, History
<1> QED
  BY <1>1, <1>3, <1>4 DEF RowsOK, FeedTellsEveryVersion

(* A step of u that leaves alone what the others hold leaves their writes  *)
(* and requests sound.                                                     *)
LEMMA OthersStaySound ==
    ASSUME IInv, NEW v \in Analysts,
           tx'[v] = tx[v], req'[v] = req[v],
           \A r \in Rows : (r \in Written(v) \/ (req[v].at = "insert" /\ r \in req[v].born))
                => rows'[r] = rows[r] /\ feed'[r] = feed[r]
    PROVE  WritesOK(v)' /\ RequestOK(v)'
<1>1. WritesOK(v) /\ RequestOK(v)
  BY DEF IInv
<1>2. Written(v)' = Written(v) /\ Named(v)' = Named(v)
  BY DEF Written, Named
<1>3. ASSUME NEW r \in Written(v)
      PROVE  tx'[v][r] \in Values \cup {Absent} /\ MayBecome(v, r, tx[v][r])'
  BY <1>1, <1>2 DEF WritesOK, MayBecome
<1>4. WritesOK(v)'
  BY <1>1, <1>2, <1>3 DEF WritesOK
<1>5. RequestOK(v)'
  BY <1>1, <1>2 DEF RequestOK, WritesOK
<1> QED
  BY <1>4, <1>5

(* A step of u alone: its own transaction and request are sound after it,  *)
(* and it has taken nothing another holds.                                 *)
StepOf(u) ==
    /\ tx' = [tx EXCEPT ![u] = tx'[u]]
    /\ req' = [req EXCEPT ![u] = req'[u]]
    /\ ScreensOK'

LEMMA StepKeepsApart ==
    ASSUME IInv, NEW u \in Analysts, StepOf(u),
           \A v \in Analysts \ {u} : Written(u)' \cap Written(v) = {}
                                     /\ req'[u].born \cap req[v].born = {}
    PROVE  Apart' /\ tx' = [v \in Analysts |-> tx'[v]] /\ req' = [v \in Analysts |-> req'[v]]
<1>1. tx' = [v \in Analysts |-> tx'[v]] /\ req' = [v \in Analysts |-> req'[v]]
  BY DEF IInv, StepOf
<1>2. \A v \in Analysts \ {u} : Written(v)' = Written(v) /\ req'[v] = req[v]
  BY DEF IInv, StepOf, Written
<1> QED
  BY <1>1, <1>2 DEF IInv, Apart

LEMMA QuietStep ==
    ASSUME IInv, NEW u \in Analysts, StepOf(u), UNCHANGED <<rows, feed>>,
           WritesOK(u)', RequestOK(u)',
           \A v \in Analysts \ {u} : Written(u)' \cap Written(v) = {}
                                     /\ req'[u].born \cap req[v].born = {}
    PROVE  IInv' /\ WasRead
<1>1. RowsOK'
  BY DEF IInv, RowsOK, FeedTellsEveryVersion, FeedTells, History
<1>2. ASSUME NEW v \in Analysts \ {u} PROVE WritesOK(v)' /\ RequestOK(v)'
  <2>1. tx'[v] = tx[v] /\ req'[v] = req[v]
    BY DEF IInv, StepOf
  <2> QED
    BY <2>1, OthersStaySound
<1>3. WasRead
  BY DEF WasRead
<1> QED
  BY <1>1, <1>2, <1>3, StepKeepsApart DEF IInv, StepOf

(* An answer leaves an idle analyst and an empty transaction.              *)
LEMMA IdleIsSound ==
    ASSUME NEW u, req'[u] = Idle, Written(u)' = {}
    PROVE  WritesOK(u)' /\ RequestOK(u)' /\ req'[u].born = {}
<1>1. /\ req'[u].born = {} /\ req'[u].at = "idle" /\ req'[u].sent = <<>>
      /\ req'[u].op = "idle"
      /\ req'[u] = [op |-> req'[u].op, at |-> req'[u].at, sent |-> req'[u].sent,
                 patch |-> req'[u].patch, order |-> req'[u].order, todo |-> req'[u].todo,
                 born |-> req'[u].born, refused |-> req'[u].refused]
  BY DEF Idle, Request
<1>2. Named(u)' = {}
  BY <1>1 DEF Named
<1>3. WritesOK(u)'
  BY DEF WritesOK
<1>4. RequestOK(u)'
  BY <1>1, <1>2 DEF RequestOK
<1> QED
  BY <1>1, <1>3, <1>4

LEMMA AnswerStep ==
    ASSUME IInv, NEW u \in Analysts, StepOf(u), UNCHANGED <<rows, feed>>,
           req'[u] = Idle, Written(u)' = {}
    PROVE  IInv' /\ WasRead
<1>1. WritesOK(u)' /\ RequestOK(u)' /\ req'[u].born = {}
  BY IdleIsSound
<1> QED
  BY <1>1, QuietStep

(* u commits w and has its announcement to make, or is answered.           *)
LEMMA CommitStep ==
    ASSUME IInv, NEW u \in Analysts, StepOf(u),
           NEW w, DOMAIN w \subseteq Rows, Commit(w),
           \A r \in DOMAIN w : w[r] \in Values \cup {Absent} /\ MayBecome(u, r, w[r]),
           \A v \in Analysts \ {u} : DOMAIN w \cap Written(v) = {},
           Written(u)' = {},
           req'[u] = Idle \/ req'[u] = [req[u] EXCEPT !.at = "announce"]
    PROVE  IInv' /\ WasRead
<1>1. \A r \in DOMAIN w : Follows(rows[r], feed[r], w[r])
  BY DEF MayBecome, Follows
<1>2. RowsOK'
  BY <1>1, CommitKeepsRows DEF IInv
<1>3. ASSUME NEW v \in Analysts \ {u} PROVE WritesOK(v)' /\ RequestOK(v)'
  <2>1. tx'[v] = tx[v] /\ req'[v] = req[v]
    BY DEF IInv, StepOf
  <2>2. ASSUME NEW r \in Rows,
               r \in Written(v) \/ (req[v].at = "insert" /\ r \in req[v].born)
        PROVE  r \notin DOMAIN w
    <3>1. CASE r \in Written(v)
      BY <3>1
    <3>2. CASE req[v].at = "insert" /\ r \in req[v].born
      <4>1. feed[r] = <<>> /\ RowsOK
        BY <3>2 DEF IInv, RequestOK
      <4>2. rows[r] = Absent
        BY <4>1, PresentIsTold
      <4>3. r \notin req[u].born
        BY <3>2 DEF IInv, Apart
      <4> QED
        BY <4>2, <4>3 DEF MayBecome
    <3> QED
      BY <2>2, <3>1, <3>2
  <2>3. \A r \in Rows : r \notin DOMAIN w => rows'[r] = rows[r] /\ feed'[r] = feed[r]
    BY DEF Commit
  <2> QED
    BY <2>1, <2>2, <2>3, OthersStaySound
<1>4. WritesOK(u)' /\ RequestOK(u)' /\ req'[u].born \subseteq req[u].born
  <2>1. CASE req'[u] = Idle
    BY <2>1, IdleIsSound
  <2>2. CASE req'[u] = [req[u] EXCEPT !.at = "announce"]
    <3>1. RequestOK(u)
      BY DEF IInv
    <3>2. /\ req'[u].at = "announce" /\ req'[u].born = req[u].born
          /\ req'[u].sent = req[u].sent
          /\ req'[u] = [op |-> req'[u].op, at |-> req'[u].at, sent |-> req'[u].sent,
                 patch |-> req'[u].patch, order |-> req'[u].order, todo |-> req'[u].todo,
                 born |-> req'[u].born, refused |-> req'[u].refused]
      BY <2>2, <3>1 DEF RequestOK
    <3>3. Named(u)' = Named(u)
      BY <3>2 DEF Named
    <3>4. RequestOK(u)'
      BY <3>1, <3>2, <3>3 DEF RequestOK
    <3> QED
      BY <3>2, <3>4 DEF WritesOK
  <2> QED
    BY <2>1, <2>2
<1>5. Apart' /\ tx' = [v \in Analysts |-> tx'[v]] /\ req' = [v \in Analysts |-> req'[v]]
  BY <1>4, StepKeepsApart DEF IInv, Apart
<1>6. WasRead
  <2> SUFFICES ASSUME NEW r \in Rows, rows[r] # Absent,
                      rows'[r] = Absent \/ rows'[r].version # rows[r].version
               PROVE  r \in Named(u) /\ req[u].sent[r] = rows[r].version
    BY DEF WasRead
  <2>1. r \in DOMAIN w /\ rows'[r] = w[r]
    BY DEF Commit
  <2> QED
    BY <2>1 DEF MayBecome
<1> QED
  BY <1>2, <1>3, <1>4, <1>5, <1>6 DEF IInv, StepOf

-----------------------------------------------------------------------------
(* The requests an analyst may send.                                       *)
IsRequest(q) ==
    /\ q = [op |-> q.op, at |-> q.at, sent |-> q.sent, patch |-> q.patch,
            order |-> q.order, todo |-> q.todo, born |-> q.born, refused |-> q.refused]
    /\ DOMAIN q.sent \subseteq Rows /\ q.born \subseteq Rows
    /\ q.at \in {"check", "write", "counts", "names", "insert"}
    /\ q.at \in {"check", "insert"} => q.patch \in Patches
    /\ q.at = "write" => q.op = "remove"
    /\ q.at \in {"check", "names"} => \A r \in DOMAIN q.sent : q.sent[r] < MaxVersion
    /\ q.at = "names"
          => /\ q.op = "reorder"
             /\ \A r \in DOMAIN q.sent : \E i \in 1..Len(q.order) : q.order[i] = r
    /\ q.at = "insert" \/ q.born = {}
    /\ \A r \in q.born : feed[r] = <<>> /\ \A v \in Analysts : r \notin req[v].born

LEMMA AskStep ==
    ASSUME IInv, NEW u \in Analysts, NEW q, Ask(u, q), IsRequest(q)
    PROVE  IInv' /\ WasRead
<1>1. req'[u] = q /\ UNCHANGED <<rows, feed, tx, screen, told>>
  BY DEF Ask, IInv
<1>2. Written(u) = {} /\ Written(u)' = {}
  <2>1. req[u].at = "idle"
    BY DEF Ask, Idle, Request
  <2> QED
    BY <1>1, <2>1 DEF IInv, RequestOK, Written
<1>3. ScreensOK'
  <2>1. asked' \in [Analysts -> 0..MaxRequests]
    BY RowsAssumption DEF Ask, IInv, ScreensOK
  <2> QED
    BY <1>1, <2>1 DEF IInv, ScreensOK
<1>4. StepOf(u)
  BY <1>1, <1>3 DEF StepOf, IInv, Ask
<1>5. WritesOK(u)'
  BY <1>2 DEF WritesOK
<1>6. RequestOK(u)'
  <2>1. Named(u)' = DOMAIN q.sent
    BY <1>1 DEF Named
  <2> QED
    BY <1>1, <1>2, <2>1 DEF RequestOK, IsRequest
<1> QED
  BY <1>1, <1>2, <1>4, <1>5, <1>6, QuietStep DEF IsRequest

LEMMA AskKeeps ==
    ASSUME IInv, NEW u \in Analysts,
           \/ AskUpdate(u) \/ AskUpdateMany(u) \/ AskRemove(u) \/ AskRemoveMany(u)
           \/ AskReorder(u) \/ AskCreate(u)
    PROVE  IInv' /\ WasRead
<1>0. /\ Shown(u) \subseteq Rows /\ Writable(u) \subseteq Rows
      /\ \A r \in Writable(u) : screen[u][r].version < MaxVersion
  BY DEF Shown, Writable
<1>a. \A S : DOMAIN Reads(u, S) = S /\ \A r \in S : Reads(u, S)[r] = screen[u][r].version
  BY DEF Reads
<1>1. CASE AskUpdate(u)
  <2>1. PICK r \in Writable(u), p \in Patches :
            Ask(u, Request("update", "check", Reads(u, {r}), p, <<>>, {}, {}))
    BY <1>1 DEF AskUpdate
  <2> DEFINE q == Request("update", "check", Reads(u, {r}), p, <<>>, {}, {})
  <2>2. /\ q = [op |-> q.op, at |-> q.at, sent |-> q.sent, patch |-> q.patch,
                 order |-> q.order, todo |-> q.todo, born |-> q.born, refused |-> q.refused]
        /\ q.op = "update" /\ q.at = "check" /\ q.sent = Reads(u, {r})
        /\ q.patch = p /\ q.order = <<>> /\ q.born = {}
    BY DEF Request
  <2> HIDE DEF q
  <2>3. IsRequest(q)
    BY <1>0, <1>a, <2>2 DEF IsRequest
  <2> QED
    BY <2>1, <2>3, AskStep DEF q
<1>2. CASE AskUpdateMany(u)
  <2>1. PICK S \in SUBSET Writable(u), p \in Patches :
            Ask(u, Request("updateMany", "check", Reads(u, S), p, <<>>, {}, {}))
    BY <1>2 DEF AskUpdateMany
  <2> DEFINE q == Request("updateMany", "check", Reads(u, S), p, <<>>, {}, {})
  <2>2. /\ q = [op |-> q.op, at |-> q.at, sent |-> q.sent, patch |-> q.patch,
                 order |-> q.order, todo |-> q.todo, born |-> q.born, refused |-> q.refused]
        /\ q.op = "updateMany" /\ q.at = "check" /\ q.sent = Reads(u, S)
        /\ q.patch = p /\ q.order = <<>> /\ q.born = {}
    BY DEF Request
  <2> HIDE DEF q
  <2>3. IsRequest(q)
    BY <1>0, <1>a, <2>2 DEF IsRequest
  <2> QED
    BY <2>1, <2>3, AskStep DEF q
<1>3. CASE AskRemove(u)
  <2>1. PICK r \in Shown(u) :
            Ask(u, Request("remove", "write", Reads(u, {r}), <<>>, <<>>, {}, {}))
    BY <1>3 DEF AskRemove
  <2> DEFINE q == Request("remove", "write", Reads(u, {r}), <<>>, <<>>, {}, {})
  <2>2. /\ q = [op |-> q.op, at |-> q.at, sent |-> q.sent, patch |-> q.patch,
                 order |-> q.order, todo |-> q.todo, born |-> q.born, refused |-> q.refused]
        /\ q.op = "remove" /\ q.at = "write" /\ q.sent = Reads(u, {r})
        /\ q.patch = <<>> /\ q.order = <<>> /\ q.born = {}
    BY DEF Request
  <2> HIDE DEF q
  <2>3. IsRequest(q)
    BY <1>0, <1>a, <2>2 DEF IsRequest
  <2> QED
    BY <2>1, <2>3, AskStep DEF q
<1>4. CASE AskRemoveMany(u)
  <2>1. PICK S \in SUBSET Shown(u) :
            Ask(u, Request("removeMany", "counts", Reads(u, S), <<>>, <<>>,
                       {CollectionOf[r] : r \in S}, {}))
    BY <1>4 DEF AskRemoveMany
  <2> DEFINE q == Request("removeMany", "counts", Reads(u, S), <<>>, <<>>,
                       {CollectionOf[r] : r \in S}, {})
  <2>2. /\ q = [op |-> q.op, at |-> q.at, sent |-> q.sent, patch |-> q.patch,
                 order |-> q.order, todo |-> q.todo, born |-> q.born, refused |-> q.refused]
        /\ q.op = "removeMany" /\ q.at = "counts" /\ q.sent = Reads(u, S)
        /\ q.patch = <<>> /\ q.order = <<>> /\ q.born = {}
    BY DEF Request
  <2> HIDE DEF q
  <2>3. IsRequest(q)
    BY <1>0, <1>a, <2>2 DEF IsRequest
  <2> QED
    BY <2>1, <2>3, AskStep DEF q
<1>5. CASE AskReorder(u)
  <2>1. PICK c \in Collections :
          LET S == {r \in Shown(u) : CollectionOf[r] = c}
          IN  \E order \in [1..Cardinality(S) -> S] :
                /\ S # {} /\ S \subseteq Writable(u)
                /\ {order[i] : i \in DOMAIN order} = S
                /\ Ask(u, Request("reorder", "names", Reads(u, S), <<>>, order, {}, {}))
    BY <1>5 DEF AskReorder
  <2> DEFINE S == {r \in Shown(u) : CollectionOf[r] = c}
  <2>2. PICK order \in [1..Cardinality(S) -> S] :
                /\ S \subseteq Writable(u)
                /\ {order[i] : i \in DOMAIN order} = S
                /\ Ask(u, Request("reorder", "names", Reads(u, S), <<>>, order, {}, {}))
    BY <2>1
  <2>3. S \in SUBSET Rows /\ Cardinality(S) \in Nat
    BY <1>0, RowsAssumption, FS_Subset, FS_CardinalityType
  <2> HIDE DEF S
  <2>4. order \in Seq(S) /\ DOMAIN order = 1..Len(order)
    BY <2>2, <2>3, SeqDef, LenProperties
  <2>5. \A r \in S : \E i \in 1..Len(order) : order[i] = r
    BY <2>2, <2>4
  <2> DEFINE q == Request("reorder", "names", Reads(u, S), <<>>, order, {}, {})
  <2>6. /\ q = [op |-> q.op, at |-> q.at, sent |-> q.sent, patch |-> q.patch,
                 order |-> q.order, todo |-> q.todo, born |-> q.born, refused |-> q.refused]
        /\ q.op = "reorder" /\ q.at = "names" /\ q.sent = Reads(u, S)
        /\ q.patch = <<>> /\ q.order = order /\ q.born = {}
    BY DEF Request
  <2> HIDE DEF q
  <2>7. IsRequest(q)
    BY <1>0, <1>a, <2>2, <2>5, <2>6 DEF IsRequest
  <2> QED
    BY <2>2, <2>7, AskStep DEF q
<1>6. CASE AskCreate(u)
  <2>1. PICK S \in SUBSET {r \in Rows : feed[r] = <<>>
                                 /\ \A v \in Analysts : r \notin req[v].born},
             p \in Patches :
            Ask(u, Request("create", "insert", <<>>, p, <<>>, {}, S))
    BY <1>6 DEF AskCreate
  <2> DEFINE q == Request("create", "insert", <<>>, p, <<>>, {}, S)
  <2>2. /\ q = [op |-> q.op, at |-> q.at, sent |-> q.sent, patch |-> q.patch,
                 order |-> q.order, todo |-> q.todo, born |-> q.born, refused |-> q.refused]
        /\ q.op = "create" /\ q.at = "insert" /\ q.sent = <<>>
        /\ q.patch = p /\ q.order = <<>> /\ q.born = S
    BY DEF Request
  <2> HIDE DEF q
  <2>3. IsRequest(q)
    BY <2>1, <2>2 DEF IsRequest
  <2> QED
    BY <2>1, <2>3, AskStep DEF q
<1> QED
  BY <1>1, <1>2, <1>3, <1>4, <1>5, <1>6

-----------------------------------------------------------------------------
(* The steps of a request.                                                 *)
LEMMA GotoStep ==
    ASSUME IInv, NEW u \in Analysts, NEW at, Goto(u, at),
           UNCHANGED <<rows, feed, tx, screen, told, asked>>, RequestOK(u)'
    PROVE  IInv' /\ WasRead
<1>1. /\ req'[u].born = req[u].born /\ Named(u)' = Named(u)
      /\ req'[u] = [req[u] EXCEPT !.at = at]
  <2>1. req'[u] = [req[u] EXCEPT !.at = at] /\ RequestOK(u)
    BY DEF Goto, IInv
  <2> QED
    BY <2>1 DEF RequestOK, Named
<1>2. StepOf(u)
  BY DEF StepOf, Goto, IInv, ScreensOK
<1>3. Written(u)' = Written(u) /\ WritesOK(u)
  BY DEF Written, IInv
<1>4. WritesOK(u)'
  <2>1. req'[u].sent = req[u].sent
    BY <1>1 DEF IInv, RequestOK
  <2> QED
    BY <1>1, <1>3, <2>1 DEF WritesOK, MayBecome
<1>5. \A v \in Analysts \ {u} : Written(u)' \cap Written(v) = {}
                                /\ req'[u].born \cap req[v].born = {}
  BY <1>1, <1>3 DEF IInv, Apart
<1> QED
  BY <1>2, <1>4, <1>5, QuietStep

LEMMA GotoFields ==
    ASSUME IInv, NEW u \in Analysts, NEW at, Goto(u, at)
    PROVE  /\ req'[u].at = at /\ req'[u].op = req[u].op /\ req'[u].sent = req[u].sent
           /\ req'[u].patch = req[u].patch /\ req'[u].order = req[u].order
           /\ req'[u].born = req[u].born /\ Named(u)' = Named(u)
           /\ req'[u] = [op |-> req'[u].op, at |-> req'[u].at, sent |-> req'[u].sent,
                patch |-> req'[u].patch, order |-> req'[u].order, todo |-> req'[u].todo,
                born |-> req'[u].born, refused |-> req'[u].refused]
<1>1. req'[u] = [req[u] EXCEPT !.at = at] /\ RequestOK(u)
  BY DEF Goto, IInv
<1> QED
  BY <1>1 DEF RequestOK, Named

LEMMA AnswerInPlace ==
    ASSUME IInv, NEW u \in Analysts, Answer(u), UNCHANGED <<rows, feed, screen, told, asked>>,
           \/ UNCHANGED tx /\ Written(u) = {}
           \/ tx' = [tx EXCEPT ![u] = <<>>]
    PROVE  IInv' /\ WasRead
<1>1. req'[u] = Idle /\ Written(u)' = {}
  BY DEF Answer, IInv, Written
<1>2. StepOf(u)
  BY DEF StepOf, Answer, IInv, ScreensOK
<1> QED
  BY <1>1, <1>2, AnswerStep

LEMMA CheckKeeps ==
    ASSUME IInv, NEW u \in Analysts, Check(u)
    PROVE  IInv' /\ WasRead
<1>1. RequestOK(u) /\ req[u].at = "check" /\ Written(u) = {}
  BY DEF Check, IInv, RequestOK
<1>2. CASE Goto(u, "write")
  <2>1. UNCHANGED <<rows, feed, tx, screen, told, asked>> /\ Written(u)' = Written(u)
    BY DEF Check, Written
  <2>3. /\ req'[u].at = "write" /\ req'[u].op = req[u].op /\ req'[u].sent = req[u].sent
        /\ req'[u].patch = req[u].patch /\ req'[u].born = req[u].born
        /\ Named(u)' = Named(u)
        /\ req'[u] = [op |-> req'[u].op, at |-> req'[u].at, sent |-> req'[u].sent,
                patch |-> req'[u].patch, order |-> req'[u].order, todo |-> req'[u].todo,
                born |-> req'[u].born, refused |-> req'[u].refused]
    BY <1>2, GotoFields
  <2>2. RequestOK(u)'
    BY <1>1, <2>1, <2>3 DEF RequestOK
  <2> QED
    BY <1>2, <2>1, <2>2, GotoStep
<1>3. CASE Answer(u)
  BY <1>1, <1>3, AnswerInPlace DEF Check
<1> QED
  BY <1>2, <1>3 DEF Check

LEMMA CountsKeep ==
    ASSUME IInv, NEW u \in Analysts, ReferenceCounts(u)
    PROVE  IInv' /\ WasRead
<1>1. RequestOK(u) /\ req[u].at = "counts" /\ Written(u) = {}
  BY DEF ReferenceCounts, IInv, RequestOK
<1>2. CASE Goto(u, "delete")
  <2>1. UNCHANGED <<rows, feed, tx, screen, told, asked>> /\ Written(u)' = Written(u)
    BY DEF ReferenceCounts, Written
  <2>2. RequestOK(u)'
    BY <1>1, <1>2, <2>1, GotoFields DEF RequestOK
  <2> QED
    BY <1>2, <2>1, <2>2, GotoStep
<1>3. CASE Answer(u)
  BY <1>1, <1>3, AnswerInPlace DEF ReferenceCounts
<1> QED
  BY <1>2, <1>3 DEF ReferenceCounts

(* A patch of a row that has not moved since it was read.                  *)
LEMMA PatchFollows ==
    ASSUME IInv, NEW u \in Analysts, req[u].at = "write", req[u].op # "remove",
           NEW r \in Unmoved(u)
    PROVE  /\ r \in Rows
           /\ Bumped(r, req[u].patch) \in Values
           /\ MayBecome(u, r, Bumped(r, req[u].patch))
<1>1. RequestOK(u) /\ Written(u) = {} /\ r \in Named(u) /\ r \in Rows
  BY DEF IInv, RequestOK, Unmoved
<1>2. rows[r] \in Values /\ rows[r].version = req[u].sent[r] /\ rows[r] # Absent
  BY <1>1 DEF Unmoved, View, IInv, RowsOK
<1>3. /\ Bumped(r, req[u].patch) \in Values
      /\ Bumped(r, req[u].patch).version = rows[r].version + 1
  BY <1>1, <1>2, PatchedIsAValue, BumpedIsAValue DEF RequestOK
<1>4. rows[r].version + 1 <= MaxVersion
  BY <1>1, <1>2, RowsAssumption DEF RequestOK, Values
<1> QED
  BY <1>1, <1>2, <1>3, <1>4, AbsentAssumption DEF MayBecome

LEMMA UpdateKeeps ==
    ASSUME IInv, NEW u \in Analysts, Update(u)
    PROVE  IInv' /\ WasRead
<1>1. RequestOK(u) /\ req[u].at = "write" /\ req[u].op = "update" /\ Written(u) = {}
  BY DEF Update, IInv, RequestOK
<1>2. CASE Answer(u) /\ UNCHANGED <<rows, feed>>
  BY <1>1, <1>2, AnswerInPlace DEF Update
<1>3. CASE /\ Commit([r \in Unmoved(u) |-> Bumped(r, req[u].patch)])
           /\ Goto(u, "announce")
  <2> DEFINE w == [r \in Unmoved(u) |-> Bumped(r, req[u].patch)]
  <2>1. Commit(w) /\ DOMAIN w = Unmoved(u)
    BY <1>3
  <2>2. \A r \in DOMAIN w : /\ r \in Rows /\ w[r] \in Values
                            /\ MayBecome(u, r, w[r])
    BY <1>1, <2>1, PatchFollows
  <2>3. \A v \in Analysts \ {u} : DOMAIN w \cap Written(v) = {}
    BY <2>1, NobodyHolds DEF Update, UpdateWaitsFor
  <2>4. StepOf(u) /\ Written(u)' = {}
    BY <1>1, <1>3 DEF Update, StepOf, Goto, IInv, ScreensOK, Written
  <2>5. req'[u] = [req[u] EXCEPT !.at = "announce"]
    BY <1>3 DEF Goto, IInv
  <2> HIDE DEF w
  <2> QED
    BY <2>1, <2>2, <2>3, <2>4, <2>5, CommitStep
<1> QED
  BY <1>2, <1>3 DEF Update

(* A change of u's own transaction and request that commits nothing.       *)
LEMMA OpenStep ==
    ASSUME IInv, NEW u \in Analysts, StepOf(u), UNCHANGED <<rows, feed>>,
           NEW t, tx'[u] = t, DOMAIN t \subseteq Rows,
           req'[u].sent = req[u].sent, req'[u].born = req[u].born,
           \A r \in DOMAIN t : t[r] \in Values \cup {Absent} /\ MayBecome(u, r, t[r]),
           \A v \in Analysts \ {u} : DOMAIN t \cap Written(v) = {},
           RequestOK(u)'
    PROVE  IInv' /\ WasRead
<1>1. Written(u)' = DOMAIN t /\ Named(u)' = Named(u)
  BY DEF Written, Named
<1>2. WritesOK(u)'
  BY <1>1 DEF WritesOK, MayBecome
<1> QED
  BY <1>1, <1>2, QuietStep DEF IInv, Apart

LEMMA UpdateManyKeeps ==
    ASSUME IInv, NEW u \in Analysts, UpdateMany(u)
    PROVE  IInv' /\ WasRead
<1>1. RequestOK(u) /\ req[u].at = "write" /\ req[u].op = "updateMany" /\ Written(u) = {}
  BY DEF UpdateMany, IInv, RequestOK
<1>2. CASE Answer(u) /\ UNCHANGED tx
  BY <1>1, <1>2, AnswerInPlace DEF UpdateMany
<1>3. CASE /\ tx' = [tx EXCEPT ![u] = [r \in Unmoved(u) |-> Bumped(r, req[u].patch)]]
           /\ Goto(u, "commit")
  <2> DEFINE w == [r \in Unmoved(u) |-> Bumped(r, req[u].patch)]
  <2>1. tx'[u] = w /\ DOMAIN w = Unmoved(u)
    BY <1>3 DEF IInv
  <2>2. \A r \in DOMAIN w : /\ r \in Rows /\ w[r] \in Values
                            /\ MayBecome(u, r, w[r])
    BY <1>1, <2>1, PatchFollows
  <2>3. \A v \in Analysts \ {u} : DOMAIN w \cap Written(v) = {}
    BY <2>1, NobodyHolds DEF UpdateMany, UpdateWaitsFor
  <2>4. StepOf(u) /\ UNCHANGED <<rows, feed>>
    BY <1>3 DEF UpdateMany, StepOf, Goto, IInv, ScreensOK
  <2>5. /\ req'[u].at = "commit" /\ req'[u].sent = req[u].sent
        /\ req'[u].born = req[u].born /\ Named(u)' = Named(u)
        /\ req'[u] = [op |-> req'[u].op, at |-> req'[u].at, sent |-> req'[u].sent,
                patch |-> req'[u].patch, order |-> req'[u].order, todo |-> req'[u].todo,
                born |-> req'[u].born, refused |-> req'[u].refused]
    BY <1>3, GotoFields
  <2>6. RequestOK(u)'
    BY <1>1, <2>5 DEF RequestOK
  <2> HIDE DEF w
  <2> QED
    BY <2>1, <2>2, <2>3, <2>4, <2>5, <2>6, OpenStep
<1> QED
  BY <1>2, <1>3 DEF UpdateMany

(* What a DELETE writes: the rows gone, and the foreign keys naming them.  *)
LEMMA DeletedFollow ==
    ASSUME IInv, NEW u \in Analysts, req[u].at \in {"write", "delete"},
           NEW S \in SUBSET Unmoved(u)
    PROVE  /\ DOMAIN Deleted(u, S) = S \cup NamersOf(u, S)
           /\ DOMAIN Deleted(u, S) \subseteq Rows
           /\ \A r \in DOMAIN Deleted(u, S) :
                 /\ Deleted(u, S)[r] \in Values \cup {Absent}
                 /\ MayBecome(u, r, Deleted(u, S)[r])
<1>1. RequestOK(u) /\ WritesOK(u) /\ req[u].born = {}
  BY DEF IInv, RequestOK
<1>2. S \subseteq Rows /\ NamersOf(u, S) \subseteq Rows
  BY <1>1 DEF Unmoved, RequestOK, NamersOf
<1>3. DOMAIN Deleted(u, S) = S \cup NamersOf(u, S)
  BY DEF Deleted
<1>4. ASSUME NEW r \in Rows, View(u)[r] # Absent
      PROVE  /\ View(u)[r] \in Values /\ rows[r] # Absent /\ rows[r] \in Values
             /\ \/ View(u)[r].version = rows[r].version
                \/ /\ r \in Named(u) /\ req[u].sent[r] = rows[r].version
                   /\ View(u)[r].version = rows[r].version + 1
                   /\ View(u)[r].version <= MaxVersion
  <2>1. CASE r \in Written(u)
    <3>1. View(u)[r] = tx[u][r]
      BY <2>1 DEF View
    <3>2. tx[u][r] \in Values /\ MayBecome(u, r, tx[u][r])
      BY <1>1, <1>4, <2>1, <3>1 DEF WritesOK
    <3> QED
      BY <1>1, <1>4, <3>1, <3>2 DEF MayBecome, IInv, RowsOK
  <2>2. CASE r \notin Written(u)
    BY <1>4, <2>2 DEF View, IInv, RowsOK
  <2> QED
    BY <2>1, <2>2
<1>5. ASSUME NEW r \in S
      PROVE  Deleted(u, S)[r] = Absent /\ MayBecome(u, r, Absent)
  <2>1. /\ r \in Rows /\ r \in Named(u) /\ View(u)[r] # Absent
        /\ View(u)[r].version = req[u].sent[r]
    BY <1>2 DEF Unmoved
  <2>2. rows[r] # Absent /\ req[u].sent[r] = rows[r].version
    BY <1>4, <2>1 DEF Values
  <2> QED
    BY <2>1, <2>2 DEF Deleted, MayBecome
<1>6. ASSUME NEW r \in NamersOf(u, S)
      PROVE  Deleted(u, S)[r] \in Values /\ MayBecome(u, r, Deleted(u, S)[r])
  <2>1. r \in Rows /\ r \notin S /\ View(u)[r] # Absent
    BY DEF NamersOf
  <2>2. Deleted(u, S)[r] = [View(u)[r] EXCEPT !.one = None]
    BY <2>1 DEF Deleted
  <2>3. /\ Deleted(u, S)[r] \in Values
        /\ Deleted(u, S)[r].version = View(u)[r].version
    BY <1>4, <2>1, <2>2 DEF Values
  <2>4. Deleted(u, S)[r] # Absent
    BY <2>3, AbsentAssumption
  <2> QED
    BY <1>4, <2>1, <2>3, <2>4 DEF MayBecome
<1> QED
  BY <1>2, <1>3, <1>5, <1>6

LEMMA RemoveKeeps ==
    ASSUME IInv, NEW u \in Analysts, Remove(u)
    PROVE  IInv' /\ WasRead
<1>1. RequestOK(u) /\ req[u].at = "write" /\ Written(u) = {}
  BY DEF Remove, IInv, RequestOK
<1>2. CASE Answer(u) /\ UNCHANGED <<rows, feed>>
  BY <1>1, <1>2, AnswerInPlace DEF Remove
<1>3. CASE Commit(Deleted(u, Unmoved(u))) /\ Goto(u, "announce")
  <2> DEFINE w == Deleted(u, Unmoved(u))
  <2>1. /\ DOMAIN w = Unmoved(u) \cup NamersOf(u, Unmoved(u)) /\ DOMAIN w \subseteq Rows
        /\ \A r \in DOMAIN w : w[r] \in Values \cup {Absent} /\ MayBecome(u, r, w[r])
    BY <1>1, DeletedFollow
  <2>2. \A v \in Analysts \ {u} : DOMAIN w \cap Written(v) = {}
    BY <2>1, NobodyHolds DEF Remove, DeleteWaitsFor
  <2>3. StepOf(u) /\ Written(u)' = {}
    BY <1>1, <1>3 DEF Remove, StepOf, Goto, IInv, ScreensOK, Written
  <2>4. req'[u] = [req[u] EXCEPT !.at = "announce"]
    BY <1>3 DEF Goto, IInv
  <2>5. Commit(w)
    BY <1>3
  <2> HIDE DEF w
  <2> QED
    BY <2>1, <2>2, <2>3, <2>4, <2>5, CommitStep
<1> QED
  BY <1>2, <1>3 DEF Remove

(* Later statements of a transaction over earlier ones.                    *)
LEMMA MergeFollows ==
    ASSUME NEW u, WritesOK(u), NEW new, DOMAIN new \subseteq Rows,
           \A r \in DOMAIN new : new[r] \in Values \cup {Absent} /\ MayBecome(u, r, new[r])
    PROVE  /\ DOMAIN Merge(tx[u], new) = Written(u) \cup DOMAIN new
           /\ \A r \in DOMAIN Merge(tx[u], new) :
                 /\ r \in Rows
                 /\ Merge(tx[u], new)[r] \in Values \cup {Absent}
                 /\ MayBecome(u, r, Merge(tx[u], new)[r])
  BY DEF Merge, Written, WritesOK

LEMMA DeleteGroupKeeps ==
    ASSUME IInv, NEW u \in Analysts, DeleteGroup(u)
    PROVE  IInv' /\ WasRead
<1>1. PICK c \in req[u].todo :
        LET gone == {r \in Unmoved(u) : CollectionOf[r] = c}
            left == {r \in Named(u) \ gone : CollectionOf[r] = c}
        IN  /\ req[u].at = "delete"
            /\ DeleteWaitsFor(u, gone) = {}
            /\ tx' = [tx EXCEPT ![u] = Merge(@, Deleted(u, gone))]
            /\ req' = [req EXCEPT
                   ![u].todo = @ \ {c},
                   ![u].refused = @ \/ \E r \in left : View(u)[r] # Absent,
                   ![u].at = IF req[u].todo = {c} THEN "commit" ELSE @]
            /\ UNCHANGED <<rows, feed, screen, told, asked>>
  BY DEF DeleteGroup
<1> DEFINE gone == {r \in Unmoved(u) : CollectionOf[r] = c}
           w == Deleted(u, gone)
           t == Merge(tx[u], w)
<1>2. RequestOK(u) /\ WritesOK(u) /\ req[u].at = "delete" /\ u \in DOMAIN req
  BY <1>1 DEF IInv
<1>3. /\ DOMAIN w = gone \cup NamersOf(u, gone) /\ DOMAIN w \subseteq Rows
      /\ \A r \in DOMAIN w : w[r] \in Values \cup {Absent} /\ MayBecome(u, r, w[r])
  BY <1>2, DeletedFollow
<1>4. /\ DOMAIN t = Written(u) \cup DOMAIN w
      /\ \A r \in DOMAIN t : /\ r \in Rows /\ t[r] \in Values \cup {Absent}
                             /\ MayBecome(u, r, t[r])
  <2> HIDE DEF w
  <2> QED
    BY <1>2, <1>3, MergeFollows
<1>5. \A v \in Analysts \ {u} : DOMAIN t \cap Written(v) = {}
  <2>1. \A v \in Analysts \ {u} : DOMAIN w \cap Written(v) = {}
    BY <1>1, <1>3, NobodyHolds DEF DeleteWaitsFor
  <2> QED
    BY <1>4, <2>1 DEF IInv, Apart
<1>6. /\ tx' = [tx EXCEPT ![u] = t] /\ tx'[u] = t
  BY <1>1 DEF IInv
<1>7. /\ req' = [req EXCEPT ![u] = req'[u]]
      /\ req'[u].sent = req[u].sent /\ req'[u].born = req[u].born
      /\ req'[u].at \in {"delete", "commit"} /\ req'[u].order = req[u].order
      /\ req'[u] = [op |-> req'[u].op, at |-> req'[u].at, sent |-> req'[u].sent,
            patch |-> req'[u].patch, order |-> req'[u].order, todo |-> req'[u].todo,
            born |-> req'[u].born, refused |-> req'[u].refused]
  <2>1. PICK td, rf, at : /\ req' = [req EXCEPT ![u].todo = td, ![u].refused = rf, ![u].at = at]
                          /\ at \in {"delete", "commit"}
    BY <1>1, <1>2 DEF RequestOK
  <2>2. req'[u] = [op |-> req[u].op, at |-> at, sent |-> req[u].sent,
                   patch |-> req[u].patch, order |-> req[u].order, todo |-> td,
                   born |-> req[u].born, refused |-> rf]
    BY <1>2, <2>1 DEF RequestOK
  <2>3. req' = [req EXCEPT ![u] = req'[u]]
    BY <1>2, <2>1 DEF IInv
  <2>4. at \in {"delete", "commit"}
    BY <2>1
  <2>5. /\ req'[u].sent = req[u].sent /\ req'[u].born = req[u].born
        /\ req'[u].at = at /\ req'[u].order = req[u].order
        /\ req'[u] = [op |-> req'[u].op, at |-> req'[u].at, sent |-> req'[u].sent,
              patch |-> req'[u].patch, order |-> req'[u].order, todo |-> req'[u].todo,
              born |-> req'[u].born, refused |-> req'[u].refused]
    BY <2>2
  <2> QED
    BY <2>3, <2>4, <2>5
<1> HIDE DEF t
<1>8. StepOf(u) /\ UNCHANGED <<rows, feed>>
  BY <1>1, <1>6, <1>7 DEF StepOf, IInv, ScreensOK
<1>9. RequestOK(u)'
  <2>1. Named(u)' = Named(u)
    BY <1>7 DEF Named
  <2> QED
    BY <1>2, <1>7, <2>1 DEF RequestOK
<1> QED
  BY <1>4, <1>5, <1>6, <1>7, <1>8, <1>9, OpenStep

LEMMA ReorderNamesKeeps ==
    ASSUME IInv, NEW u \in Analysts, ReorderNames(u)
    PROVE  IInv' /\ WasRead
<1>1. RequestOK(u) /\ req[u].at = "names" /\ Written(u) = {} /\ u \in DOMAIN req
  BY DEF ReorderNames, IInv, RequestOK
<1>2. CASE Answer(u)
  BY <1>1, <1>2, AnswerInPlace DEF ReorderNames
<1>3. CASE ~ Answer(u)
  <2>1. PICK td : /\ req' = [req EXCEPT ![u].at = "lock", ![u].todo = td]
                  /\ UNCHANGED <<rows, feed, tx, screen, told, asked>>
    BY <1>3 DEF ReorderNames
  <2>2. req'[u] = [op |-> req[u].op, at |-> "lock", sent |-> req[u].sent,
                   patch |-> req[u].patch, order |-> req[u].order, todo |-> td,
                   born |-> req[u].born, refused |-> req[u].refused]
    BY <1>1, <2>1 DEF RequestOK
  <2>3. StepOf(u)
    BY <1>1, <2>1 DEF IInv, StepOf, ScreensOK
  <2>4. Written(u)' = {} /\ Named(u)' = Named(u)
    BY <1>1, <2>1, <2>2 DEF Written, Named
  <2>5. req'[u].at = "lock" /\ req'[u].op = req[u].op /\ req'[u].sent = req[u].sent
        /\ req'[u].order = req[u].order /\ req'[u].born = req[u].born
        /\ req'[u] = [op |-> req'[u].op, at |-> req'[u].at, sent |-> req'[u].sent,
            patch |-> req'[u].patch, order |-> req'[u].order, todo |-> req'[u].todo,
            born |-> req'[u].born, refused |-> req'[u].refused]
    BY <2>2
  <2>6. RequestOK(u)'
    BY <1>1, <2>4, <2>5 DEF RequestOK
  <2>7. tx'[u] = tx[u] /\ DOMAIN tx[u] = {}
    BY <1>1, <2>1 DEF Written
  <2> QED
    BY <2>1, <2>3, <2>5, <2>6, <2>7, OpenStep
<1> QED
  BY <1>2, <1>3

LEMMA ReorderLockKeeps ==
    ASSUME IInv, NEW u \in Analysts, ReorderLock(u)
    PROVE  IInv' /\ WasRead
<1>1. RequestOK(u) /\ WritesOK(u) /\ req[u].at = "lock" /\ u \in DOMAIN req
  BY DEF ReorderLock, IInv
<1> DEFINE w == [r \in {NextToLock(u)} \cap Present |-> rows[r]]
           t == Merge(tx[u], w)
<1>2. /\ DOMAIN w = {NextToLock(u)} \cap Present /\ DOMAIN w \subseteq Rows
      /\ \A r \in DOMAIN w : w[r] = rows[r] /\ rows[r] # Absent
  BY DEF Present
<1>3. \A r \in DOMAIN w : w[r] \in Values \cup {Absent} /\ MayBecome(u, r, w[r])
  BY <1>2 DEF IInv, RowsOK, MayBecome
<1>4. /\ DOMAIN t = Written(u) \cup DOMAIN w
      /\ \A r \in DOMAIN t : /\ r \in Rows /\ t[r] \in Values \cup {Absent}
                             /\ MayBecome(u, r, t[r])
      /\ \A r \in DOMAIN t : t[r] = rows[r]
  <2>1. \A r \in DOMAIN t : t[r] = rows[r]
    BY <1>1, <1>2 DEF Merge, RequestOK, Written
  <2> HIDE DEF w
  <2> QED
    BY <1>1, <1>2, <1>3, <2>1, MergeFollows
<1>5. \A v \in Analysts \ {u} : DOMAIN t \cap Written(v) = {}
  <2>1. \A v \in Analysts \ {u} : DOMAIN w \cap Written(v) = {}
    BY <1>2, NobodyHolds DEF ReorderLock
  <2> QED
    BY <1>4, <2>1 DEF IInv, Apart
<1>6. tx' = [tx EXCEPT ![u] = t] /\ tx'[u] = t
  BY DEF ReorderLock, IInv
<1>7. req'[u] = [op |-> req[u].op, at |-> "lock", sent |-> req[u].sent,
                 patch |-> req[u].patch, order |-> req[u].order,
                 todo |-> req[u].todo \ {NextToLock(u)},
                 born |-> req[u].born, refused |-> req[u].refused]
  BY <1>1 DEF ReorderLock, RequestOK
<1>8. /\ req'[u].at = "lock" /\ req'[u].op = req[u].op /\ req'[u].sent = req[u].sent
      /\ req'[u].order = req[u].order /\ req'[u].born = req[u].born
      /\ req'[u] = [op |-> req'[u].op, at |-> req'[u].at, sent |-> req'[u].sent,
            patch |-> req'[u].patch, order |-> req'[u].order, todo |-> req'[u].todo,
            born |-> req'[u].born, refused |-> req'[u].refused]
      /\ Named(u)' = Named(u)
  BY <1>7 DEF Named
<1> HIDE DEF t
<1>9. StepOf(u) /\ UNCHANGED <<rows, feed>>
  BY <1>1, <1>6 DEF ReorderLock, StepOf, IInv, ScreensOK
<1>10. RequestOK(u)'
  BY <1>1, <1>4, <1>6, <1>8, <1>9 DEF RequestOK, Written
<1> QED
  BY <1>4, <1>5, <1>6, <1>8, <1>9, <1>10, OpenStep

LEMMA ReorderWriteKeeps ==
    ASSUME IInv, NEW u \in Analysts, ReorderWrite(u)
    PROVE  IInv' /\ WasRead
<1> DEFINE at(r) == (CHOOSE i \in 1..Len(req[u].order) : req[u].order[i] = r) - 1
           moved == {r \in Named(u) : rows[r].pos # at(r)}
           w == [r \in moved |-> Bumped(r, [pos |-> at(r)])]
<1>1. /\ RequestOK(u) /\ WritesOK(u) /\ req[u].at = "lock" /\ req[u].op = "reorder"
      /\ tx' = [tx EXCEPT ![u] = <<>>] /\ UNCHANGED <<screen, told, asked>>
  BY DEF ReorderWrite, IInv, RequestOK
<1>2. CASE Answer(u) /\ UNCHANGED <<rows, feed>>
  BY <1>1, <1>2, AnswerInPlace
<1>3. CASE /\ \A r \in Named(u) : r \in Written(u) /\ tx[u][r].version = req[u].sent[r]
           /\ Commit(w) /\ Goto(u, "announce")
  <2>1. ASSUME NEW r \in Named(u)
        PROVE  /\ r \in Rows /\ rows[r] \in Values /\ rows[r].version = req[u].sent[r]
               /\ req[u].sent[r] < MaxVersion /\ at(r) \in Nat /\ rows[r] # Absent
    <3>1. r \in Rows /\ r \in Written(u) /\ tx[u][r] = rows[r] /\ rows[r] # Absent
      BY <1>1, <1>3 DEF RequestOK, WritesOK, MayBecome
    <3>2. \E i \in 1..Len(req[u].order) : req[u].order[i] = r
      BY <1>1 DEF RequestOK
    <3> DEFINE k == CHOOSE i \in 1..Len(req[u].order) : req[u].order[i] = r
    <3>3. k \in 1..Len(req[u].order)
      BY <3>2
    <3>4. at(r) \in Nat
      <4> HIDE DEF k
      <4>1. k - 1 \in Nat
        BY <3>3
      <4> QED
        BY <4>1 DEF k
    <3> QED
      BY <1>1, <1>3, <3>1, <3>4 DEF IInv, RowsOK, RequestOK
  <2>2. ASSUME NEW r \in moved
        PROVE  /\ r \in Rows /\ Bumped(r, [pos |-> at(r)]) \in Values
               /\ MayBecome(u, r, Bumped(r, [pos |-> at(r)]))
    <3> HIDE DEF at
    <3>1. /\ Bumped(r, [pos |-> at(r)]) \in Values
          /\ Bumped(r, [pos |-> at(r)]).version = rows[r].version + 1
      BY <2>1, PlacedIsAValue, BumpedIsAValue
    <3>2. rows[r].version + 1 <= MaxVersion
      BY <2>1, RowsAssumption DEF Values
    <3> QED
      BY <2>1, <3>1, <3>2, AbsentAssumption DEF MayBecome
  <2>3. DOMAIN w = moved /\ DOMAIN w \subseteq Written(u) /\ DOMAIN w \subseteq Rows
    BY <1>3, <2>1
  <2>4. \A r \in DOMAIN w : w[r] \in Values \cup {Absent} /\ MayBecome(u, r, w[r])
    BY <2>2
  <2>5. \A v \in Analysts \ {u} : DOMAIN w \cap Written(v) = {}
    BY <2>3 DEF IInv, Apart
  <2>6. StepOf(u) /\ Written(u)' = {} /\ req'[u] = [req[u] EXCEPT !.at = "announce"]
    BY <1>1, <1>3 DEF StepOf, Goto, IInv, ScreensOK, Written
  <2>7. Commit(w)
    BY <1>3
  <2> HIDE DEF w
  <2> QED
    BY <2>3, <2>4, <2>5, <2>6, <2>7, CommitStep
<1> QED
  BY <1>2, <1>3 DEF ReorderWrite

LEMMA InsertKeeps ==
    ASSUME IInv, NEW u \in Analysts, Insert(u)
    PROVE  IInv' /\ WasRead
<1>1. RequestOK(u) /\ WritesOK(u) /\ req[u].at = "insert" /\ Written(u) = {}
  BY DEF Insert, IInv, RequestOK
<1>2. CASE Answer(u) /\ UNCHANGED tx
  BY <1>1, <1>2, AnswerInPlace DEF Insert
<1>3. CASE /\ tx' = [tx EXCEPT ![u] = [r \in req[u].born |-> Patched(Blank, req[u].patch)]]
           /\ Goto(u, "commit")
  <2> DEFINE w == [r \in req[u].born |-> Patched(Blank, req[u].patch)]
  <2>1. tx'[u] = w /\ DOMAIN w = req[u].born
    BY <1>3 DEF IInv
  <2>2. ASSUME NEW r \in req[u].born
        PROVE  /\ r \in Rows /\ rows[r] = Absent /\ feed[r] = <<>>
               /\ w[r] \in Values /\ w[r].version = 1
    <3>1. r \in Rows /\ feed[r] = <<>> /\ RowsOK
      BY <1>1 DEF RequestOK, IInv
    <3>2. rows[r] = Absent
      BY <3>1, PresentIsTold
    <3>3. w[r] \in Values /\ w[r].version = 1
      BY <1>1, BlankIsAValue, PatchedIsAValue DEF RequestOK
    <3> QED
      BY <3>1, <3>2, <3>3
  <2>3. \A r \in DOMAIN w : w[r] \in Values \cup {Absent} /\ MayBecome(u, r, w[r])
    BY <2>1, <2>2, AbsentAssumption DEF MayBecome
  <2>4. ASSUME NEW v \in Analysts \ {u} PROVE DOMAIN w \cap Written(v) = {}
    <3> SUFFICES ASSUME NEW r \in req[u].born, r \in Written(v) PROVE FALSE
      BY <2>1
    <3>1. r \in req[v].born
      BY <2>2 DEF IInv, WritesOK, MayBecome
    <3> QED
      BY <3>1 DEF IInv, Apart
  <2>5. StepOf(u) /\ UNCHANGED <<rows, feed>>
    BY <1>3 DEF Insert, StepOf, Goto, IInv, ScreensOK
  <2>6. /\ req'[u].at = "commit" /\ req'[u].sent = req[u].sent
        /\ req'[u].born = req[u].born /\ Named(u)' = Named(u)
        /\ req'[u] = [op |-> req'[u].op, at |-> req'[u].at, sent |-> req'[u].sent,
                patch |-> req'[u].patch, order |-> req'[u].order, todo |-> req'[u].todo,
                born |-> req'[u].born, refused |-> req'[u].refused]
    BY <1>3, GotoFields
  <2>7. RequestOK(u)'
    BY <1>1, <2>6 DEF RequestOK
  <2>8. DOMAIN w \subseteq Rows
    BY <2>1, <2>2
  <2> HIDE DEF w
  <2> QED
    BY <2>1, <2>3, <2>4, <2>5, <2>6, <2>7, <2>8, OpenStep
<1> QED
  BY <1>2, <1>3 DEF Insert

LEMMA CommitRequestKeeps ==
    ASSUME IInv, NEW u \in Analysts, CommitRequest(u)
    PROVE  IInv' /\ WasRead
<1>1. /\ WritesOK(u) /\ tx' = [tx EXCEPT ![u] = <<>>] /\ UNCHANGED <<screen, told, asked>>
  BY DEF CommitRequest, IInv
<1>2. CASE Answer(u) /\ UNCHANGED <<rows, feed>>
  BY <1>1, <1>2, AnswerInPlace
<1>3. CASE Commit(tx[u]) /\ (Answer(u) \/ Goto(u, "announce"))
  <2>1. /\ DOMAIN tx[u] \subseteq Rows
        /\ \A r \in DOMAIN tx[u] : tx[u][r] \in Values \cup {Absent}
                                   /\ MayBecome(u, r, tx[u][r])
        /\ \A v \in Analysts \ {u} : DOMAIN tx[u] \cap Written(v) = {}
    BY <1>1 DEF WritesOK, Written, IInv, Apart
  <2>2. StepOf(u) /\ Written(u)' = {}
    BY <1>1, <1>3 DEF StepOf, Goto, Answer, IInv, ScreensOK, Written
  <2>3. req'[u] = Idle \/ req'[u] = [req[u] EXCEPT !.at = "announce"]
    BY <1>3 DEF Goto, Answer, IInv
  <2> QED
    BY <1>3, <2>1, <2>2, <2>3, CommitStep
<1> QED
  BY <1>2, <1>3 DEF CommitRequest

LEMMA AnnounceKeeps ==
    ASSUME IInv, NEW u \in Analysts, Announce(u)
    PROVE  IInv' /\ WasRead
<1>1. RequestOK(u) /\ Written(u) = {}
  BY DEF Announce, IInv, RequestOK
<1>2. req'[u] = Idle /\ Written(u)' = {} /\ UNCHANGED <<rows, feed>>
  BY <1>1 DEF Announce, Answer, IInv, Written
<1>3. StepOf(u)
  BY DEF Announce, StepOf, Answer, IInv, ScreensOK
<1> QED
  BY <1>2, <1>3, AnswerStep

LEMMA AbortKeeps ==
    ASSUME IInv, NEW u \in Analysts, Abort(u)
    PROVE  IInv' /\ WasRead
  BY AnswerInPlace DEF Abort

LEMMA RefreshKeeps ==
    ASSUME IInv, NEW u \in Analysts, Refresh(u)
    PROVE  IInv' /\ WasRead
<1>1. UNCHANGED <<rows, feed, tx, req>> /\ ScreensOK'
  BY DEF Refresh, IInv, RowsOK, ScreensOK
<1>2. \A v \in Analysts : req'[v] = req[v] /\ tx'[v] = tx[v]
  BY <1>1
<1>3. \A v \in Analysts : WritesOK(v)' /\ RequestOK(v)'
  BY <1>1, <1>2, OthersStaySound
<1>4. RowsOK' /\ Apart' /\ WasRead
  BY <1>1 DEF IInv, RowsOK, FeedTellsEveryVersion, FeedTells, History, Apart, Written, WasRead
<1> QED
  BY <1>1, <1>3, <1>4 DEF IInv

LEMMA CrashKeeps ==
    ASSUME IInv, Crash
    PROVE  IInv' /\ WasRead
<1>1. /\ UNCHANGED <<rows, feed, screen, asked>>
      /\ tx' = [u \in Analysts |-> <<>>] /\ req' = [u \in Analysts |-> Idle]
      /\ told' = [u \in Analysts |-> "told"]
  BY DEF Crash
<1>2. \A u \in Analysts : Written(u)' = {} /\ req'[u] = Idle
  BY <1>1 DEF Written
<1>3. \A u \in Analysts : WritesOK(u)' /\ RequestOK(u)' /\ req'[u].born = {}
  BY <1>2, IdleIsSound
<1>4. RowsOK' /\ ScreensOK' /\ WasRead
  BY <1>1 DEF IInv, RowsOK, FeedTellsEveryVersion, FeedTells, History, ScreensOK, WasRead
<1>5. Apart'
  BY <1>2, <1>3 DEF Apart
<1> QED
  BY <1>1, <1>3, <1>4, <1>5 DEF IInv

LEMMA StartsSound == Init => IInv
<1> SUFFICES ASSUME Init PROVE IInv
  OBVIOUS
<1>1. \A u \in Analysts : Written(u) = {} /\ req[u] = Idle
  BY DEF Init, Written
<1>2. \A u \in Analysts : WritesOK(u) /\ RequestOK(u)
  BY <1>1 DEF WritesOK, RequestOK, Named, Idle, Request
<1>3. Apart
  BY <1>1 DEF Apart, Idle, Request
<1>4. ASSUME NEW r \in Rows
      PROVE  /\ rows[r] \in Values \cup {Absent}
             /\ rows[r] # Absent => rows[r].version <= MaxVersion
             /\ feed[r] \in Seq(Entry)
             /\ FeedTells(rows[r], feed[r])
  <2>1. CASE r \in Existing
    <3> DEFINE n == Cardinality({s \in Existing : s < r})
    <3>1. n \in Nat
      <4>1. IsFiniteSet({s \in Existing : s < r})
        BY RowsAssumption, FS_Subset
      <4> QED
        BY <4>1, FS_CardinalityType
    <3>2. rows[r] = [Blank EXCEPT !.pos = n] /\ feed[r] = Entries(Absent, Blank)
      BY <2>1 DEF Init
    <3> HIDE DEF n
    <3>3. rows[r] \in Values /\ rows[r].version = 1 /\ rows[r] # Absent
      <4>1. rows[r] \in Values /\ rows[r].version = 1
        BY <3>1, <3>2, BlankIsAValue DEF Values
      <4> QED
        BY <4>1, AbsentAssumption
    <3>4. feed[r] = <<[op |-> "insert", version |-> 1]>>
      BY <3>2 DEF Entries, Blank
    <3>5. /\ <<[op |-> "insert", version |-> 1]>> \in Seq(Entry)
          /\ <<>> \o <<[op |-> "insert", version |-> 1]>> = <<[op |-> "insert", version |-> 1]>>
      <4>1. [op |-> "insert", version |-> 1] \in Entry
        BY RowsAssumption DEF Entry
      <4>2. <<[op |-> "insert", version |-> 1]>> \in Seq(Entry)
        BY <4>1
      <4> QED
        BY <4>2, ConcatEmptySeq
    <3> QED
      BY <3>3, <3>4, <3>5, HistoryStarts, RowsAssumption DEF FeedTells
  <2>2. CASE r \notin Existing
    BY <2>2 DEF Init, FeedTells
  <2> QED
    BY <2>1, <2>2
<1>5. rows = [r \in Rows |-> rows[r]] /\ feed = [r \in Rows |-> feed[r]]
  BY DEF Init
<1>6. RowsOK
  BY <1>4, <1>5 DEF RowsOK, Feeds, FeedTellsEveryVersion
<1>7. ScreensOK
  <2>1. rows \in [Rows -> Values \cup {Absent}] /\ 0 \in 0..MaxRequests
    BY <1>6, RowsAssumption DEF RowsOK
  <2>2. /\ screen = [u \in Analysts |-> rows] /\ told = [u \in Analysts |-> "no"]
        /\ asked = [u \in Analysts |-> 0]
    BY DEF Init
  <2> QED
    BY <2>1, <2>2 DEF ScreensOK
<1> QED
  BY <1>2, <1>3, <1>6, <1>7 DEF IInv, Init

LEMMA StepKeeps ==
    ASSUME IInv, [Next]_vars
    PROVE  IInv' /\ WasRead
<1>1. CASE UNCHANGED vars
  <2>1. UNCHANGED <<rows, feed, tx, req, screen, told, asked>>
    BY <1>1 DEF vars
  <2>2. \A v \in Analysts : WritesOK(v)' /\ RequestOK(v)'
    BY <2>1, OthersStaySound
  <2>3. RowsOK' /\ Apart' /\ ScreensOK' /\ WasRead
    BY <2>1 DEF IInv, RowsOK, FeedTellsEveryVersion, FeedTells, History, Apart, Written,
                ScreensOK, WasRead
  <2> QED
    BY <2>1, <2>2, <2>3 DEF IInv
<1>2. CASE Crash
  BY <1>2, CrashKeeps
<1>3. ASSUME NEW u \in Analysts,
             \/ AskUpdate(u) \/ AskUpdateMany(u) \/ AskRemove(u) \/ AskRemoveMany(u)
             \/ AskReorder(u) \/ AskCreate(u)
      PROVE  IInv' /\ WasRead
  BY <1>3, AskKeeps
<1>4. ASSUME NEW u \in Analysts, Serve(u) \/ Abort(u) \/ Refresh(u)
      PROVE  IInv' /\ WasRead
  BY <1>4, CheckKeeps, UpdateKeeps, UpdateManyKeeps, RemoveKeeps, CountsKeep,
     DeleteGroupKeeps, ReorderNamesKeeps, ReorderLockKeeps, ReorderWriteKeeps,
     InsertKeeps, CommitRequestKeeps, AnnounceKeeps, AbortKeeps, RefreshKeeps DEF Serve
<1> QED
  BY <1>1, <1>2, <1>3, <1>4 DEF Next

-----------------------------------------------------------------------------
(* The strengthening holds of every reachable state: mutate.ts's rule and  *)
(* the row locks, over every request in flight.                            *)
THEOREM AlwaysSound == Spec => []IInv
<1>1. Init => IInv
  BY StartsSound
<1>2. IInv /\ [Next]_vars => IInv'
  BY StepKeeps
<1> QED
  BY <1>1, <1>2, PTL DEF Spec

(* The types of the variables, for every case and any number of analysts.  *)
THEOREM Types == Spec => []TypeOK
<1>1. IInv => TypeOK
  BY DEF IInv, TypeOK, RowsOK, ScreensOK, WritesOK, RequestOK, Present
<1> QED
  BY <1>1, AlwaysSound, PTL

(* mutate.ts: whatever interleaves, fails or crashes, a row's feed is its  *)
(* insert, one update for every version and its delete.                    *)
THEOREM FeedIsComplete == Spec => []FeedTellsEveryVersion
<1>1. IInv => FeedTellsEveryVersion
  BY DEF IInv, RowsOK
<1> QED
  BY <1>1, AlwaysSound, PTL

(* updateVersioned, removeMany, reorder: no row is changed or removed by a *)
(* request that did not name the version it held.                          *)
THEOREM NobodyOverwritesUnread == Spec => WritesOnlyWhatWasRead
<1>1. IInv /\ [Next]_vars => [WasRead]_vars
  BY StepKeeps
<1> QED
  BY <1>1, AlwaysSound, PTL DEF Spec, WritesOnlyWhatWasRead

-----------------------------------------------------------------------------
(* A step that moves a version leaves an announcement to be made, and an   *)
(* announcement is not lost before every screen is told, or its publish    *)
(* failed for those not told before.                                       *)
Owed(v) == told[v] \in {"told", "missed"}

Loud ==
    /\ \/ UNCHANGED rows
       \/ \E v \in Analysts : req'[v].at = "announce"
    /\ \A v \in Analysts :
          /\ req[v].at = "announce"
                => req'[v].at = "announce" \/ \A s \in Analysts : Owed(s)'
          /\ Owed(v) => Owed(v)' \/ screen'[v] = rows'
          /\ screen'[v] = screen[v] \/ screen'[v] = rows'

LEMMA RequestIsLoud ==
    ASSUME IInv, NEW u \in Analysts, req' = [req EXCEPT ![u] = req'[u]],
           req[u].at # "announce", UNCHANGED <<screen, told>>,
           UNCHANGED rows \/ req'[u].at = "announce"
    PROVE  Loud
<1>1. \A v \in Analysts \ {u} : req'[v] = req[v]
  BY DEF IInv
<1> QED
  BY <1>1 DEF Loud, Owed

LEMMA SilentRequest ==
    ASSUME IInv, NEW u \in Analysts, UNCHANGED <<rows, screen, told>>,
           req[u].at # "announce",
           Answer(u) \/ \E at : Goto(u, at)
    PROVE  Loud
<1>1. req' = [req EXCEPT ![u] = req'[u]]
  BY DEF IInv, Answer, Goto
<1> QED
  BY <1>1, RequestIsLoud

LEMMA CommittedRequest ==
    ASSUME IInv, NEW u \in Analysts, UNCHANGED <<screen, told>>,
           req[u].at # "announce", Goto(u, "announce")
    PROVE  Loud
<1>1. req' = [req EXCEPT ![u] = req'[u]] /\ req'[u].at = "announce"
  BY GotoFields DEF IInv, Goto
<1> QED
  BY <1>1, RequestIsLoud

LEMMA AskIsLoud ==
    ASSUME IInv, NEW u \in Analysts,
           \/ AskUpdate(u) \/ AskUpdateMany(u) \/ AskRemove(u) \/ AskRemoveMany(u)
           \/ AskReorder(u) \/ AskCreate(u)
    PROVE  Loud
<1>1. PICK q : Ask(u, q)
  BY DEF AskUpdate, AskUpdateMany, AskRemove, AskRemoveMany, AskReorder, AskCreate
<1>2. req' = [req EXCEPT ![u] = req'[u]] /\ req[u].at = "idle"
  BY <1>1 DEF Ask, IInv, Idle, Request
<1> QED
  BY <1>1, <1>2, RequestIsLoud DEF Ask

LEMMA ServeIsLoud ==
    ASSUME IInv, NEW u \in Analysts, Serve(u)
    PROVE  Loud
<1>1. CASE Check(u) \/ ReferenceCounts(u) \/ Insert(u) \/ UpdateMany(u)
  BY <1>1, SilentRequest DEF Check, ReferenceCounts, Insert, UpdateMany
<1>2. CASE Update(u) \/ Remove(u) \/ ReorderWrite(u)
  BY <1>2, SilentRequest, CommittedRequest DEF Update, Remove, ReorderWrite
<1>3. CASE DeleteGroup(u)
  <2>1. /\ req' = [req EXCEPT ![u] = req'[u]] /\ req[u].at = "delete"
        /\ UNCHANGED <<rows, screen, told>>
    BY <1>3 DEF DeleteGroup, IInv
  <2> QED
    BY <2>1, RequestIsLoud
<1>4. CASE ReorderNames(u)
  <2>1. req' = [req EXCEPT ![u] = req'[u]] /\ req[u].at = "names"
        /\ UNCHANGED <<rows, screen, told>>
    BY <1>4 DEF ReorderNames, Answer, IInv
  <2> QED
    BY <2>1, RequestIsLoud
<1>5. CASE ReorderLock(u)
  <2>1. req' = [req EXCEPT ![u] = req'[u]] /\ req[u].at = "lock"
        /\ UNCHANGED <<rows, screen, told>>
    BY <1>5 DEF ReorderLock, IInv
  <2> QED
    BY <2>1, RequestIsLoud
<1>6. CASE CommitRequest(u)
  <2>1. req[u].at = "commit" /\ UNCHANGED <<screen, told>>
    BY <1>6 DEF CommitRequest
  <2>2. CASE Answer(u) /\ UNCHANGED rows
    BY <2>1, <2>2, SilentRequest
  <2>3. CASE Goto(u, "announce")
    BY <2>1, <2>3, CommittedRequest
  <2>4. CASE Commit(tx[u]) /\ Written(u) = {} /\ Answer(u)
    <3>1. rows' = rows
      BY <2>4 DEF Commit, Written, IInv, RowsOK
    <3> QED
      BY <2>1, <2>4, <3>1, SilentRequest
  <2> QED
    BY <1>6, <2>2, <2>3, <2>4 DEF CommitRequest
<1>7. CASE Announce(u)
  BY <1>7 DEF Announce, Loud, Owed
<1> QED
  BY <1>1, <1>2, <1>3, <1>4, <1>5, <1>6, <1>7 DEF Serve

LEMMA StepIsLoud ==
    ASSUME IInv, [Next]_vars
    PROVE  Loud
<1>1. CASE UNCHANGED vars
  BY <1>1 DEF vars, Loud, Owed
<1>2. CASE Crash
  BY <1>2 DEF Crash, Loud, Owed
<1>3. ASSUME NEW u \in Analysts, Abort(u) PROVE Loud
  <2>1. req[u].at # "announce" /\ Answer(u) /\ UNCHANGED <<rows, screen, told>>
    BY <1>3 DEF Abort
  <2> QED
    BY <2>1, SilentRequest
<1>4. ASSUME NEW u \in Analysts, Refresh(u) PROVE Loud
  BY <1>4 DEF Refresh, Loud, Owed, IInv, ScreensOK
<1>5. ASSUME NEW u \in Analysts,
             \/ AskUpdate(u) \/ AskUpdateMany(u) \/ AskRemove(u) \/ AskRemoveMany(u)
             \/ AskReorder(u) \/ AskCreate(u)
      PROVE  Loud
  BY <1>5, AskIsLoud
<1> QED
  BY <1>1, <1>2, <1>3, <1>4, <1>5, ServeIsLoud DEF Next

(* act.ts: a screen behind the case has been told, or is about to be.      *)
THEOREM NoScreenIsForgotten == Spec => []StaleScreenIsTold
<1>1. Init => StaleScreenIsTold
  BY DEF Init, StaleScreenIsTold, Version
<1>2. IInv /\ StaleScreenIsTold /\ [Next]_vars => StaleScreenIsTold'
  <2> SUFFICES ASSUME IInv, StaleScreenIsTold, [Next]_vars,
                      NEW u \in Analysts, NEW r \in Rows,
                      Version(screen'[u][r]) # Version(rows'[r])
               PROVE  Owed(u)' \/ \E v \in Analysts : req'[v].at = "announce"
    BY DEF StaleScreenIsTold, Version, Owed
  <2>1. Loud
    BY StepIsLoud
  <2>2. screen'[u] = screen[u]
    BY <2>1 DEF Loud
  <2>3. CASE UNCHANGED rows
    <3>1. Owed(u) \/ \E v \in Analysts : req[v].at = "announce"
      BY <2>2, <2>3 DEF StaleScreenIsTold, Owed
    <3> QED
      BY <2>1, <3>1 DEF Loud
  <2>4. CASE \E v \in Analysts : req'[v].at = "announce"
    BY <2>4
  <2> QED
    BY <2>1, <2>3, <2>4 DEF Loud
<1> QED
  BY <1>1, <1>2, AlwaysSound, PTL DEF Spec

-----------------------------------------------------------------------------
(* The rule that spans two fields.  How a row goes on in one step: as it   *)
(* was, begun, gone, or at the next version; a version keeps its fields.   *)
RowGoesOn(r) ==
    \/ rows'[r] = rows[r] /\ feed'[r] = feed[r]
    \/ /\ feed'[r] # <<>>
       /\ \/ rows[r] = Absent /\ feed[r] = <<>>
          \/ rows[r] # Absent /\ rows'[r] = Absent
          \/ /\ rows[r] # Absent /\ rows'[r] # Absent
             /\ \/ rows'[r].version = rows[r].version /\ SameFields(rows'[r], rows[r])
                \/ rows'[r].version = rows[r].version + 1

RowsGoOn == \A r \in Rows : RowGoesOn(r) /\ (rows'[r] # Absent => Legal(rows'[r]))

(* The rule asks only for the two fields.                                  *)
LEMMA FieldsDecide ==
    ASSUME NEW row, NEW other, SameFields(row, other), NEW p
    PROVE  /\ Legal(row) <=> Legal(other)
           /\ Legal(Patched(row, p)) <=> Legal(Patched(other, p))
<1>1. /\ Patched(row, p).kind = Patched(other, p).kind
      /\ Patched(row, p).scoped = Patched(other, p).scoped
  BY DEF Patched, SameFields
<1> QED
  BY <1>1 DEF SameFields, Legal

LEMMA BumpedIsLegal ==
    ASSUME NEW r, NEW p, Legal(Patched(rows[r], p))
    PROVE  Legal(Bumped(r, p))
  BY DEF Bumped, Patched, Legal

LEMMA PlacedIsLegal ==
    ASSUME NEW r, NEW n, Legal(rows[r])
    PROVE  Legal(Patched(rows[r], [pos |-> n]))
<1>1. /\ Patched(rows[r], [pos |-> n]).kind = rows[r].kind
      /\ Patched(rows[r], [pos |-> n]).scoped = rows[r].scoped
  BY DEF Patched
<1> QED
  BY <1>1 DEF Legal

LEMMA SeenStays ==
    ASSUME IInv, RowsGoOn, NEW r \in Rows, NEW n, Seen(r, n)
    PROVE  feed'[r] # <<>> /\ (rows'[r] # Absent => n <= rows'[r].version)
<1>1. rows[r] # Absent => rows[r].version \in Nat
  BY DEF IInv, RowsOK, Values
<1>2. RowGoesOn(r)
  BY DEF RowsGoOn
<1> QED
  BY <1>1, <1>2 DEF RowGoesOn, Seen

(* A row that has gone does not come back.                                 *)
LEMMA GoneStays ==
    ASSUME RowsGoOn, NEW r \in Rows, rows[r] = Absent, feed[r] # <<>>
    PROVE  rows'[r] = Absent
  BY DEF RowsGoOn, RowGoesOn

LEMMA OthersStayLawful ==
    ASSUME IInv, LawInv, RowsGoOn, NEW v \in Analysts,
           req'[v] = req[v], tx'[v] = tx[v],
           \A r \in Written(v) : rows'[r] = rows[r]
    PROVE  WritesAreLawful(v)' /\ RequestIsLawful(v)'
<1>1. /\ WritesAreLawful(v) /\ RequestIsLawful(v) /\ RequestOK(v)
      /\ Written(v)' = Written(v) /\ Named(v)' = Named(v)
  BY DEF LawInv, IInv, Written, Named
<1>2. WritesAreLawful(v)'
  BY <1>1 DEF WritesAreLawful, Lawful
<1>3. ASSUME NEW r \in Named(v)
      PROVE  /\ req[v].sent[r] \in Nat /\ feed'[r] # <<>> /\ r \in Rows
             /\ rows'[r] # Absent => req[v].sent[r] <= rows'[r].version
             /\ Seen(r, req[v].sent[r])
  <2>1. r \in Rows /\ Seen(r, req[v].sent[r])
    BY <1>1 DEF RequestIsLawful, RequestOK
  <2> QED
    BY <2>1, SeenStays DEF Seen
<1>4. ASSUME Judged(v), NEW r \in Named(v),
             rows'[r] # Absent, rows'[r].version = req[v].sent[r]
      PROVE  Legal(Patched(rows'[r], req[v].patch))
  <2>1. r \in Rows /\ RowGoesOn(r) /\ Seen(r, req[v].sent[r])
    BY <1>3 DEF RowsGoOn
  <2>2. rows[r] # Absent
    BY <1>4, <2>1 DEF RowGoesOn, Seen
  <2>3. rows[r].version \in Nat
    BY <2>1, <2>2 DEF IInv, RowsOK, Values
  <2>4. rows[r].version = req[v].sent[r] /\ SameFields(rows'[r], rows[r])
    BY <1>4, <2>1, <2>2, <2>3 DEF RowGoesOn, Seen, SameFields
  <2>5. Legal(Patched(rows[r], req[v].patch))
    BY <1>4, <2>2, <2>4 DEF Judged
  <2> QED
    BY <2>4, <2>5, FieldsDecide
<1>5. RequestIsLawful(v)'
  BY <1>1, <1>3, <1>4 DEF RequestIsLawful, Seen, Judged
<1> QED
  BY <1>2, <1>5

(* A step of u alone.                                                      *)
LEMMA LawStep ==
    ASSUME IInv, LawInv, RowsGoOn, NEW u \in Analysts, StepOf(u), UNCHANGED screen,
           \A v \in Analysts \ {u} : \A r \in Written(v) : rows'[r] = rows[r],
           WritesAreLawful(u)', RequestIsLawful(u)'
    PROVE  LawInv' /\ RowsGoOn
<1>1. StoredRowsAreLegal'
  BY DEF RowsGoOn, StoredRowsAreLegal, Present
<1>2. ASSUME NEW v \in Analysts PROVE ScreenIsSeen(v)'
  <2>1. ASSUME NEW r \in Rows, screen'[v][r] # Absent
        PROVE  /\ screen'[v][r].version \in Nat /\ feed'[r] # <<>>
               /\ rows'[r] # Absent => screen'[v][r].version <= rows'[r].version
    <3>1. Seen(r, screen[v][r].version) /\ screen'[v][r] = screen[v][r]
      BY <2>1 DEF LawInv, ScreenIsSeen
    <3> QED
      BY <3>1, SeenStays DEF Seen
  <2> QED
    BY <2>1 DEF ScreenIsSeen, Seen
<1>3. ASSUME NEW v \in Analysts PROVE WritesAreLawful(v)' /\ RequestIsLawful(v)'
  <2>1. CASE v = u
    BY <2>1
  <2>2. CASE v # u
    <3>1. req'[v] = req[v] /\ tx'[v] = tx[v]
      BY <2>2 DEF StepOf, IInv
    <3> QED
      BY <2>2, <3>1, OthersStayLawful
  <2> QED
    BY <2>1, <2>2
<1> QED
  BY <1>1, <1>2, <1>3 DEF LawInv

LEMMA NothingMoves ==
    ASSUME IInv, LawInv, UNCHANGED <<rows, feed>>
    PROVE  RowsGoOn
  BY DEF RowsGoOn, RowGoesOn, LawInv, StoredRowsAreLegal, Present

LEMMA LawQuiet ==
    ASSUME IInv, LawInv, NEW u \in Analysts, StepOf(u), UNCHANGED <<rows, feed, screen>>,
           WritesAreLawful(u)', RequestIsLawful(u)'
    PROVE  LawInv' /\ RowsGoOn
  BY NothingMoves, LawStep

(* An answered request and an empty transaction are lawful.                *)
LEMMA IdleIsLawful ==
    ASSUME NEW u, req'[u] = Idle, Written(u)' = {}
    PROVE  WritesAreLawful(u)' /\ RequestIsLawful(u)'
<1>1. req'[u].at = "idle" /\ req'[u].sent = <<>>
  BY DEF Idle, Request
<1>2. Named(u)' = {}
  BY <1>1 DEF Named
<1> QED
  BY <1>1, <1>2 DEF WritesAreLawful, RequestIsLawful

LEMMA LawAnswer ==
    ASSUME IInv, LawInv, NEW u \in Analysts, Answer(u),
           UNCHANGED <<rows, feed, screen, told, asked>>,
           \/ UNCHANGED tx /\ Written(u) = {}
           \/ tx' = [tx EXCEPT ![u] = <<>>]
    PROVE  LawInv' /\ RowsGoOn
<1>1. req'[u] = Idle /\ Written(u)' = {}
  BY DEF Answer, IInv, Written
<1>2. StepOf(u)
  BY DEF StepOf, Answer, IInv, ScreensOK
<1> QED
  BY <1>1, <1>2, IdleIsLawful, LawQuiet

(* Writes that are lawful take the rows on.                                *)
LEMMA CommitGoesOn ==
    ASSUME IInv, LawInv, NEW u \in Analysts, NEW w, DOMAIN w \subseteq Rows, Commit(w),
           \A r \in DOMAIN w : w[r] \in Values \cup {Absent} /\ MayBecome(u, r, w[r])
                               /\ Lawful(r, w[r])
    PROVE  RowsGoOn
<1> SUFFICES ASSUME NEW r \in Rows
             PROVE  RowGoesOn(r) /\ (rows'[r] # Absent => Legal(rows'[r]))
  BY DEF RowsGoOn
<1>1. CASE r \notin DOMAIN w
  BY <1>1 DEF Commit, RowGoesOn, LawInv, StoredRowsAreLegal, Present
<1>2. CASE r \in DOMAIN w
  <2>1. /\ rows'[r] = w[r] /\ feed'[r] = feed[r] \o Entries(rows[r], w[r])
        /\ w[r] \in Values \cup {Absent} /\ MayBecome(u, r, w[r]) /\ Lawful(r, w[r])
    BY <1>2 DEF Commit
  <2>2. /\ rows[r] \in Values \cup {Absent} /\ feed[r] \in Seq(Entry)
        /\ rows[r] # Absent => rows[r].version <= MaxVersion
        /\ FeedTells(rows[r], feed[r]) /\ Follows(rows[r], feed[r], w[r])
    BY <2>1 DEF IInv, RowsOK, Feeds, FeedTellsEveryVersion, MayBecome, Follows
  <2>3. FeedTells(w[r], feed'[r]) /\ feed'[r] \in Seq(Entry)
    BY <2>1, <2>2, FeedFollows
  <2>4. feed'[r] # <<>>
    <3>1. CASE w[r] # Absent
      <4>1. w[r].version \in 1..MaxVersion
        BY <2>1, <2>2, <3>1, RowsAssumption DEF Follows, Values
      <4>2. feed'[r] = History(w[r].version) /\ Len(History(w[r].version)) = w[r].version
        BY <2>3, <3>1, <4>1, HistoryType DEF FeedTells
      <4> QED
        BY <4>1, <4>2
    <3>2. CASE w[r] = Absent
      <4>1. rows[r] # Absent
        BY <2>1, <3>2 DEF MayBecome
      <4>2. feed'[r] = feed[r] \o <<[op |-> "delete", version |-> rows[r].version]>>
        BY <2>1, <3>2, <4>1 DEF Entries
      <4>3. feed'[r] = Append(feed[r], [op |-> "delete", version |-> rows[r].version])
        BY <2>2, <4>2
      <4> QED
        BY <2>2, <4>3, AppendProperties
    <3> QED
      BY <3>1, <3>2
  <2> QED
    BY <2>1, <2>2, <2>4 DEF RowGoesOn, MayBecome, Lawful
<1> QED
  BY <1>1, <1>2

LEMMA LawCommit ==
    ASSUME IInv, LawInv, NEW u \in Analysts, StepOf(u), UNCHANGED screen,
           NEW w, DOMAIN w \subseteq Rows, Commit(w),
           \A r \in DOMAIN w : w[r] \in Values \cup {Absent} /\ MayBecome(u, r, w[r])
                               /\ Lawful(r, w[r]),
           \A v \in Analysts \ {u} : DOMAIN w \cap Written(v) = {},
           Written(u)' = {},
           req'[u] = Idle \/ req'[u] = [req[u] EXCEPT !.at = "announce"]
    PROVE  LawInv' /\ RowsGoOn
<1>1. RowsGoOn
  BY CommitGoesOn
<1>2. \A v \in Analysts \ {u} : \A r \in Written(v) : rows'[r] = rows[r]
  <2> SUFFICES ASSUME NEW v \in Analysts \ {u}, NEW r \in Written(v)
               PROVE  rows'[r] = rows[r]
    OBVIOUS
  <2>1. r \in Rows /\ r \notin DOMAIN w
    BY DEF IInv, WritesOK
  <2> QED
    BY <2>1 DEF Commit
<1>3. WritesAreLawful(u)' /\ RequestIsLawful(u)'
  <2>1. CASE req'[u] = Idle
    BY <2>1, IdleIsLawful
  <2>2. CASE req'[u] = [req[u] EXCEPT !.at = "announce"]
    <3>1. req'[u].at = "announce" /\ req'[u].sent = req[u].sent
      BY <2>2 DEF IInv, RequestOK
    <3>2. Named(u)' = Named(u) /\ Named(u) \subseteq Rows
      BY <3>1 DEF Named, IInv, RequestOK
    <3>3. ASSUME NEW r \in Named(u)
          PROVE  /\ req[u].sent[r] \in Nat /\ feed'[r] # <<>>
                 /\ rows'[r] # Absent => req[u].sent[r] <= rows'[r].version
      <4>1. r \in Rows /\ Seen(r, req[u].sent[r])
        BY <3>2 DEF LawInv, RequestIsLawful
      <4> QED
        BY <1>1, <4>1, SeenStays DEF Seen
    <3> QED
      BY <3>1, <3>2, <3>3 DEF WritesAreLawful, RequestIsLawful, Seen
  <2> QED
    BY <2>1, <2>2
<1> QED
  BY <1>1, <1>2, <1>3, LawStep

-----------------------------------------------------------------------------
(* The steps, one lemma for each kind.                                     *)
LEMMA LawGoto ==
    ASSUME IInv, LawInv, NEW u \in Analysts, NEW at, Goto(u, at),
           UNCHANGED <<rows, feed, tx, screen, told, asked>>,
           at # "insert", (at = "write" /\ req[u].op # "remove") => Judged(u)
    PROVE  LawInv' /\ RowsGoOn
<1>1. /\ req'[u].at = at /\ req'[u].op = req[u].op /\ req'[u].sent = req[u].sent
      /\ req'[u].patch = req[u].patch /\ Named(u)' = Named(u)
  BY GotoFields
<1>2. StepOf(u) /\ Written(u)' = Written(u)
  BY DEF StepOf, Goto, IInv, ScreensOK, Written
<1>3. WritesAreLawful(u) /\ RequestIsLawful(u)
  BY DEF LawInv
<1>4. WritesAreLawful(u)'
  BY <1>2, <1>3 DEF WritesAreLawful, Lawful
<1>5. RequestIsLawful(u)'
  BY <1>1, <1>3 DEF RequestIsLawful, Seen, Judged
<1> QED
  BY <1>2, <1>4, <1>5, LawQuiet

(* A change of u's transaction and request that commits nothing.           *)
LEMMA LawOpen ==
    ASSUME IInv, LawInv, NEW u \in Analysts, StepOf(u), UNCHANGED <<rows, feed, screen>>,
           NEW t, tx'[u] = t, \A r \in DOMAIN t : Lawful(r, t[r]),
           req'[u].sent = req[u].sent, req'[u].at \notin {"insert", "write"}
    PROVE  LawInv' /\ RowsGoOn
<1>1. Written(u)' = DOMAIN t /\ Named(u)' = Named(u) /\ RequestIsLawful(u)
  BY DEF Written, Named, LawInv
<1>2. WritesAreLawful(u)'
  BY <1>1 DEF WritesAreLawful, Lawful
<1>3. RequestIsLawful(u)'
  BY <1>1 DEF RequestIsLawful, Seen
<1> QED
  BY <1>2, <1>3, LawQuiet

(* What an analyst may ask.                                                *)
LEMMA AskIsLawful ==
    ASSUME IInv, LawInv, NEW u \in Analysts, NEW q, Ask(u, q),
           \A r \in DOMAIN q.sent : Seen(r, q.sent[r]),
           q.at = "insert" => Legal(Patched(Blank, q.patch)),
           q.at = "write" => q.op = "remove"
    PROVE  LawInv' /\ RowsGoOn
<1>1. req'[u] = q /\ UNCHANGED <<rows, feed, tx, screen, told>>
  BY DEF Ask, IInv
<1>2. Written(u)' = {}
  <2>1. req[u].at = "idle"
    BY DEF Ask, Idle, Request
  <2> QED
    BY <1>1, <2>1 DEF IInv, RequestOK, Written
<1>3. ScreensOK'
  <2>1. asked' \in [Analysts -> 0..MaxRequests]
    BY RowsAssumption DEF Ask, IInv, ScreensOK
  <2> QED
    BY <1>1, <2>1 DEF IInv, ScreensOK
<1>4. StepOf(u)
  BY <1>1, <1>3 DEF StepOf, IInv, Ask
<1>5. Named(u)' = DOMAIN q.sent
  BY <1>1 DEF Named
<1>6. WritesAreLawful(u)' /\ RequestIsLawful(u)'
  BY <1>1, <1>2, <1>5 DEF WritesAreLawful, RequestIsLawful, Seen
<1> QED
  BY <1>1, <1>4, <1>6, LawQuiet

LEMMA AsksAreLawful ==
    ASSUME IInv, LawInv, NEW u \in Analysts,
           \/ AskUpdate(u) \/ AskUpdateMany(u) \/ AskRemove(u) \/ AskRemoveMany(u)
           \/ AskReorder(u) \/ AskCreate(u)
    PROVE  LawInv' /\ RowsGoOn
<1>1. ASSUME NEW S \in SUBSET Shown(u), NEW op, NEW at, NEW p, NEW order, NEW todo,
             Ask(u, Request(op, at, Reads(u, S), p, order, todo, {})),
             at \in {"check", "counts", "names"} \/ (at = "write" /\ op = "remove")
      PROVE  LawInv' /\ RowsGoOn
  <2> DEFINE q == Request(op, at, Reads(u, S), p, order, todo, {})
  <2>1. q.op = op /\ q.at = at /\ q.sent = Reads(u, S)
    BY DEF Request
  <2>2. \A r \in DOMAIN q.sent : Seen(r, q.sent[r])
    BY <2>1 DEF Reads, Shown, LawInv, ScreenIsSeen
  <2> HIDE DEF q
  <2>3. Ask(u, q)
    BY <1>1 DEF q
  <2> QED
    BY <1>1, <2>1, <2>2, <2>3, AskIsLawful
<1>2. Writable(u) \subseteq Shown(u)
  BY DEF Writable
<1>3. CASE AskUpdate(u)
  <2>1. PICK r \in Writable(u), p \in Patches :
            Ask(u, Request("update", "check", Reads(u, {r}), p, <<>>, {}, {}))
    BY <1>3 DEF AskUpdate
  <2>2. {r} \in SUBSET Shown(u)
    BY <1>2
  <2> QED
    BY <1>1, <2>1, <2>2
<1>4. CASE AskUpdateMany(u)
  <2>1. PICK S \in SUBSET Writable(u), p \in Patches :
            Ask(u, Request("updateMany", "check", Reads(u, S), p, <<>>, {}, {}))
    BY <1>4 DEF AskUpdateMany
  <2>2. S \in SUBSET Shown(u)
    BY <1>2
  <2> QED
    BY <1>1, <2>1, <2>2
<1>5. CASE AskRemove(u)
  <2>1. PICK r \in Shown(u) :
            Ask(u, Request("remove", "write", Reads(u, {r}), <<>>, <<>>, {}, {}))
    BY <1>5 DEF AskRemove
  <2>2. {r} \in SUBSET Shown(u)
    OBVIOUS
  <2> QED
    BY <1>1, <2>1, <2>2
<1>6. CASE AskRemoveMany(u)
  <2>1. PICK S \in SUBSET Shown(u) :
            Ask(u, Request("removeMany", "counts", Reads(u, S), <<>>, <<>>,
                       {CollectionOf[r] : r \in S}, {}))
    BY <1>6 DEF AskRemoveMany
  <2> DEFINE todo == {CollectionOf[r] : r \in S}
  <2>2. Ask(u, Request("removeMany", "counts", Reads(u, S), <<>>, <<>>, todo, {}))
    BY <2>1
  <2> HIDE DEF todo
  <2> QED
    BY <1>1, <2>2
<1>7. CASE AskReorder(u)
  <2>1. PICK S, order : /\ S \in SUBSET Shown(u)
                        /\ Ask(u, Request("reorder", "names", Reads(u, S), <<>>, order, {}, {}))
    BY <1>7 DEF AskReorder
  <2> QED
    BY <1>1, <2>1
<1>8. CASE AskCreate(u)
  <2>1. PICK S, p : /\ Legal(Patched(Blank, p))
                    /\ Ask(u, Request("create", "insert", <<>>, p, <<>>, {}, S))
    BY <1>8 DEF AskCreate
  <2> DEFINE q == Request("create", "insert", <<>>, p, <<>>, {}, S)
  <2>2. q.op = "create" /\ q.at = "insert" /\ q.sent = <<>> /\ q.patch = p
    BY DEF Request
  <2> HIDE DEF q
  <2> QED
    BY <2>1, <2>2, AskIsLawful DEF q
<1> QED
  BY <1>3, <1>4, <1>5, <1>6, <1>7, <1>8

(* Who is past the check may write: the version says the rule was asked of *)
(* this very row.                                                          *)
LEMMA CheckIsLawful ==
    ASSUME IInv, LawInv, NEW u \in Analysts, Check(u)
    PROVE  LawInv' /\ RowsGoOn
<1>1. Written(u) = {} /\ Named(u) \subseteq Rows
  BY DEF Check, IInv, RequestOK
<1>2. CASE ~ CrossFieldBroken(u) /\ Goto(u, "write")
  <2>1. Judged(u)
    BY <1>1, <1>2 DEF Judged, CrossFieldBroken, Unmoved, View
  <2> QED
    BY <1>2, <2>1, LawGoto DEF Check
<1>3. CASE Answer(u)
  BY <1>1, <1>3, LawAnswer DEF Check
<1> QED
  BY <1>2, <1>3 DEF Check

LEMMA PatchIsLawful ==
    ASSUME IInv, LawInv, NEW u \in Analysts, req[u].at = "write", req[u].op # "remove",
           NEW r \in Unmoved(u)
    PROVE  Lawful(r, Bumped(r, req[u].patch))
<1>1. RequestOK(u) /\ Written(u) = {} /\ r \in Named(u) /\ r \in Rows
  BY DEF IInv, RequestOK, Unmoved
<1>2. rows[r] \in Values /\ rows[r].version = req[u].sent[r] /\ rows[r] # Absent
  BY <1>1 DEF Unmoved, View, IInv, RowsOK
<1>3. Bumped(r, req[u].patch).version = rows[r].version + 1
  BY <1>1, <1>2, PatchedIsAValue, BumpedIsAValue DEF RequestOK
<1>4. Judged(u)
  BY DEF LawInv, RequestIsLawful
<1>5. Legal(Bumped(r, req[u].patch))
  BY <1>1, <1>2, <1>4, BumpedIsLegal DEF Judged
<1>6. rows[r].version \in Nat
  BY <1>2 DEF Values
<1> QED
  BY <1>3, <1>5, <1>6 DEF Lawful

LEMMA UpdateIsLawful ==
    ASSUME IInv, LawInv, NEW u \in Analysts, Update(u)
    PROVE  LawInv' /\ RowsGoOn
<1>1. RequestOK(u) /\ req[u].at = "write" /\ req[u].op = "update" /\ Written(u) = {}
  BY DEF Update, IInv, RequestOK
<1>2. CASE Answer(u) /\ UNCHANGED <<rows, feed>>
  BY <1>1, <1>2, LawAnswer DEF Update
<1>3. CASE /\ Commit([r \in Unmoved(u) |-> Bumped(r, req[u].patch)])
           /\ Goto(u, "announce")
  <2> DEFINE w == [r \in Unmoved(u) |-> Bumped(r, req[u].patch)]
  <2>1. Commit(w) /\ DOMAIN w = Unmoved(u)
    BY <1>3
  <2>2. \A r \in DOMAIN w : /\ r \in Rows /\ w[r] \in Values
                            /\ MayBecome(u, r, w[r]) /\ Lawful(r, w[r])
    BY <1>1, <2>1, PatchFollows, PatchIsLawful
  <2>3. \A v \in Analysts \ {u} : DOMAIN w \cap Written(v) = {}
    BY <2>1, NobodyHolds DEF Update, UpdateWaitsFor
  <2>4. StepOf(u) /\ Written(u)' = {} /\ UNCHANGED screen
    BY <1>1, <1>3 DEF Update, StepOf, Goto, IInv, ScreensOK, Written
  <2>5. req'[u] = [req[u] EXCEPT !.at = "announce"]
    BY <1>3 DEF Goto, IInv
  <2> HIDE DEF w
  <2> QED
    BY <2>1, <2>2, <2>3, <2>4, <2>5, LawCommit
<1> QED
  BY <1>2, <1>3 DEF Update

LEMMA UpdateManyIsLawful ==
    ASSUME IInv, LawInv, NEW u \in Analysts, UpdateMany(u)
    PROVE  LawInv' /\ RowsGoOn
<1>1. RequestOK(u) /\ req[u].at = "write" /\ req[u].op = "updateMany" /\ Written(u) = {}
  BY DEF UpdateMany, IInv, RequestOK
<1>2. CASE Answer(u) /\ UNCHANGED tx
  BY <1>1, <1>2, LawAnswer DEF UpdateMany
<1>3. CASE /\ tx' = [tx EXCEPT ![u] = [r \in Unmoved(u) |-> Bumped(r, req[u].patch)]]
           /\ Goto(u, "commit")
  <2> DEFINE w == [r \in Unmoved(u) |-> Bumped(r, req[u].patch)]
  <2>1. tx'[u] = w /\ \A r \in DOMAIN w : Lawful(r, w[r])
    BY <1>1, <1>3, PatchIsLawful DEF IInv
  <2>2. StepOf(u) /\ UNCHANGED <<rows, feed, screen>>
    BY <1>3 DEF UpdateMany, StepOf, Goto, IInv, ScreensOK
  <2>3. req'[u].at = "commit" /\ req'[u].sent = req[u].sent
    BY <1>3, GotoFields
  <2> HIDE DEF w
  <2> QED
    BY <2>1, <2>2, <2>3, LawOpen
<1> QED
  BY <1>2, <1>3 DEF UpdateMany

(* What a delete leaves loses a reference at most.                         *)
LEMMA DeletedIsLawful ==
    ASSUME IInv, LawInv, NEW u \in Analysts, NEW S
    PROVE  \A r \in DOMAIN Deleted(u, S) : Lawful(r, Deleted(u, S)[r])
<1> SUFFICES ASSUME NEW r \in DOMAIN Deleted(u, S), Deleted(u, S)[r] # Absent
             PROVE  Lawful(r, Deleted(u, S)[r])
  BY DEF Lawful
<1>1. /\ r \in NamersOf(u, S) /\ Deleted(u, S)[r] = [View(u)[r] EXCEPT !.one = None]
      /\ r \in Rows /\ View(u)[r] # Absent
  BY DEF Deleted, NamersOf
<1>2. /\ View(u)[r] \in Values /\ Lawful(r, View(u)[r])
  <2>1. CASE r \in Written(u)
    BY <1>1, <2>1 DEF View, LawInv, WritesAreLawful, IInv, WritesOK
  <2>2. CASE r \notin Written(u)
    BY <1>1, <2>2 DEF View, LawInv, StoredRowsAreLegal, Present, Lawful, SameFields,
                      IInv, RowsOK
  <2> QED
    BY <2>1, <2>2
<1>3. /\ Deleted(u, S)[r].version = View(u)[r].version
      /\ SameFields(Deleted(u, S)[r], View(u)[r])
  BY <1>1, <1>2 DEF Values, SameFields
<1> QED
  BY <1>1, <1>2, <1>3 DEF Lawful, SameFields, Legal

LEMMA RemoveIsLawful ==
    ASSUME IInv, LawInv, NEW u \in Analysts, Remove(u)
    PROVE  LawInv' /\ RowsGoOn
<1>1. RequestOK(u) /\ req[u].at = "write" /\ Written(u) = {}
  BY DEF Remove, IInv, RequestOK
<1>2. CASE Answer(u) /\ UNCHANGED <<rows, feed>>
  BY <1>1, <1>2, LawAnswer DEF Remove
<1>3. CASE Commit(Deleted(u, Unmoved(u))) /\ Goto(u, "announce")
  <2> DEFINE w == Deleted(u, Unmoved(u))
  <2>1. /\ DOMAIN w = Unmoved(u) \cup NamersOf(u, Unmoved(u)) /\ DOMAIN w \subseteq Rows
        /\ \A r \in DOMAIN w : w[r] \in Values \cup {Absent} /\ MayBecome(u, r, w[r])
    BY <1>1, DeletedFollow
  <2>2. \A v \in Analysts \ {u} : DOMAIN w \cap Written(v) = {}
    BY <2>1, NobodyHolds DEF Remove, DeleteWaitsFor
  <2>3. StepOf(u) /\ Written(u)' = {} /\ UNCHANGED screen
    BY <1>1, <1>3 DEF Remove, StepOf, Goto, IInv, ScreensOK, Written
  <2>4. req'[u] = [req[u] EXCEPT !.at = "announce"]
    BY <1>3 DEF Goto, IInv
  <2>5. Commit(w) /\ \A r \in DOMAIN w : Lawful(r, w[r])
    BY <1>3, DeletedIsLawful
  <2> HIDE DEF w
  <2> QED
    BY <2>1, <2>2, <2>3, <2>4, <2>5, LawCommit
<1> QED
  BY <1>2, <1>3 DEF Remove

(* A statement of a bulk delete, taken apart.                              *)
GroupGone(u, c, gone, left, at, rf) ==
    /\ gone = {r \in Unmoved(u) : CollectionOf[r] = c}
    /\ left = {r \in Named(u) \ gone : CollectionOf[r] = c}
    /\ at = IF req[u].todo = {c} THEN "commit" ELSE "delete"
    /\ rf = (req[u].refused \/ \E r \in left : View(u)[r] # Absent)
    /\ tx'[u] = Merge(tx[u], Deleted(u, gone))
    /\ req'[u] = [op |-> req[u].op, at |-> at, sent |-> req[u].sent,
                  patch |-> req[u].patch, order |-> req[u].order,
                  todo |-> req[u].todo \ {c}, born |-> req[u].born, refused |-> rf]
    /\ req[u].at = "delete"
    /\ StepOf(u) /\ UNCHANGED <<rows, feed, screen>>

LEMMA GroupDeleted ==
    ASSUME IInv, NEW u \in Analysts, DeleteGroup(u)
    PROVE  \E c \in req[u].todo : \E gone, left, at, rf : GroupGone(u, c, gone, left, at, rf)
<1>1. /\ RequestOK(u) /\ u \in DOMAIN req /\ u \in DOMAIN tx
      /\ tx = [v \in Analysts |-> tx[v]] /\ req = [v \in Analysts |-> req[v]]
  BY DEF IInv
<1>2. PICK c \in req[u].todo :
        LET gone == {r \in Unmoved(u) : CollectionOf[r] = c}
            left == {r \in Named(u) \ gone : CollectionOf[r] = c}
        IN  /\ req[u].at = "delete"
            /\ DeleteWaitsFor(u, gone) = {}
            /\ tx' = [tx EXCEPT ![u] = Merge(@, Deleted(u, gone))]
            /\ req' = [req EXCEPT
                   ![u].todo = @ \ {c},
                   ![u].refused = @ \/ \E r \in left : View(u)[r] # Absent,
                   ![u].at = IF req[u].todo = {c} THEN "commit" ELSE @]
            /\ UNCHANGED <<rows, feed, screen, told, asked>>
  BY DEF DeleteGroup
<1> DEFINE gone == {r \in Unmoved(u) : CollectionOf[r] = c}
           left == {r \in Named(u) \ gone : CollectionOf[r] = c}
           at == IF req[u].todo = {c} THEN "commit" ELSE "delete"
           rf == (req[u].refused \/ \E r \in left : View(u)[r] # Absent)
<1>3. /\ tx' = [tx EXCEPT ![u] = Merge(@, Deleted(u, gone))]
      /\ req' = [req EXCEPT ![u].todo = @ \ {c}, ![u].refused = rf, ![u].at = at]
      /\ UNCHANGED <<rows, feed, screen, told, asked>>
  BY <1>1, <1>2
<1> HIDE DEF gone, left, at, rf
<1>4. req'[u] = [op |-> req[u].op, at |-> at, sent |-> req[u].sent,
                 patch |-> req[u].patch, order |-> req[u].order,
                 todo |-> req[u].todo \ {c}, born |-> req[u].born, refused |-> rf]
  BY <1>1, <1>3 DEF RequestOK
<1>5. req' = [req EXCEPT ![u] = req'[u]] /\ tx' = [tx EXCEPT ![u] = tx'[u]]
      /\ tx'[u] = Merge(tx[u], Deleted(u, gone))
  BY <1>1, <1>3
<1>6. StepOf(u)
  BY <1>3, <1>5 DEF StepOf, IInv, ScreensOK
<1>7. /\ gone = {r \in Unmoved(u) : CollectionOf[r] = c}
      /\ left = {r \in Named(u) \ gone : CollectionOf[r] = c}
      /\ at = IF req[u].todo = {c} THEN "commit" ELSE "delete"
      /\ rf = (req[u].refused \/ \E r \in left : View(u)[r] # Absent)
  BY DEF gone, left, at, rf
<1>8. GroupGone(u, c, gone, left, at, rf)
  BY <1>2, <1>3, <1>4, <1>5, <1>6, <1>7, Zenon DEF GroupGone
<1> QED
  BY <1>8, Zenon

LEMMA DeleteGroupIsLawful ==
    ASSUME IInv, LawInv, NEW u \in Analysts, DeleteGroup(u)
    PROVE  LawInv' /\ RowsGoOn
<1>1. PICK gone : /\ tx'[u] = Merge(tx[u], Deleted(u, gone))
                  /\ req'[u].sent = req[u].sent /\ req'[u].at \in {"commit", "delete"}
                  /\ StepOf(u) /\ UNCHANGED <<rows, feed, screen>>
  <2>1. PICK c, gone, left, at, rf : GroupGone(u, c, gone, left, at, rf)
    BY GroupDeleted
  <2>2. at \in {"commit", "delete"}
    BY <2>1 DEF GroupGone
  <2> QED
    BY <2>1, <2>2 DEF GroupGone
<1> DEFINE t == Merge(tx[u], Deleted(u, gone))
<1>2. tx'[u] = t /\ \A r \in DOMAIN t : Lawful(r, t[r])
  <2>1. \A r \in DOMAIN Deleted(u, gone) : Lawful(r, Deleted(u, gone)[r])
    BY DeletedIsLawful
  <2>2. \A r \in DOMAIN tx[u] : Lawful(r, tx[u][r])
    BY DEF LawInv, WritesAreLawful, Written
  <2> QED
    BY <1>1, <2>1, <2>2 DEF Merge
<1> HIDE DEF t
<1> QED
  BY <1>1, <1>2, LawOpen


LEMMA ReorderIsLawful ==
    ASSUME IInv, LawInv, NEW u \in Analysts, ReorderNames(u) \/ ReorderLock(u)
    PROVE  LawInv' /\ RowsGoOn
<1>1. RequestOK(u) /\ u \in DOMAIN req /\ u \in DOMAIN tx
  BY DEF IInv
<1>2. CASE ReorderNames(u) /\ Answer(u)
  <2>1. Written(u) = {}
    BY <1>1, <1>2 DEF ReorderNames, RequestOK
  <2> QED
    BY <1>2, <2>1, LawAnswer DEF ReorderNames
<1>3. CASE ReorderNames(u) /\ ~ Answer(u)
  <2>1. PICK td : /\ req' = [req EXCEPT ![u].at = "lock", ![u].todo = td]
                  /\ UNCHANGED <<rows, feed, tx, screen, told, asked>>
    BY <1>3 DEF ReorderNames
  <2>2. req'[u].sent = req[u].sent /\ req'[u].at = "lock"
    BY <1>1, <2>1 DEF RequestOK
  <2>3. StepOf(u)
    BY <1>1, <2>1 DEF IInv, StepOf, ScreensOK
  <2>4. tx'[u] = tx[u] /\ \A r \in DOMAIN tx[u] : Lawful(r, tx[u][r])
    BY <2>1 DEF LawInv, WritesAreLawful, Written
  <2> QED
    BY <2>1, <2>2, <2>3, <2>4, LawOpen
<1>4. CASE ReorderLock(u)
  <2> DEFINE w == [r \in {NextToLock(u)} \cap Present |-> rows[r]]
             t == Merge(tx[u], w)
  <2>1. tx' = [tx EXCEPT ![u] = t] /\ tx'[u] = t
    BY <1>4 DEF ReorderLock, IInv
  <2>2. \A r \in DOMAIN w : Lawful(r, w[r])
    BY DEF Lawful, SameFields, LawInv, StoredRowsAreLegal, Present
  <2>3. \A r \in DOMAIN tx[u] : Lawful(r, tx[u][r])
    BY DEF LawInv, WritesAreLawful, Written
  <2>4. \A r \in DOMAIN t : Lawful(r, t[r])
    <3> HIDE DEF w
    <3> QED
      BY <2>2, <2>3 DEF Merge
  <2>5. req' = [req EXCEPT ![u].todo = @ \ {NextToLock(u)}] /\ req[u].at = "lock"
    BY <1>4 DEF ReorderLock
  <2>6. req'[u].sent = req[u].sent /\ req'[u].at = "lock"
    BY <1>1, <2>5 DEF RequestOK
  <2> HIDE DEF t
  <2>7. StepOf(u) /\ UNCHANGED <<rows, feed, screen>>
    BY <1>1, <1>4, <2>1, <2>5 DEF ReorderLock, StepOf, IInv, ScreensOK
  <2> QED
    BY <2>1, <2>4, <2>6, <2>7, LawOpen
<1> QED
  BY <1>2, <1>3, <1>4

LEMMA ReorderWriteIsLawful ==
    ASSUME IInv, LawInv, NEW u \in Analysts, ReorderWrite(u)
    PROVE  LawInv' /\ RowsGoOn
<1> DEFINE at(r) == (CHOOSE i \in 1..Len(req[u].order) : req[u].order[i] = r) - 1
           moved == {r \in Named(u) : rows[r].pos # at(r)}
           w == [r \in moved |-> Bumped(r, [pos |-> at(r)])]
<1>1. /\ RequestOK(u) /\ WritesOK(u) /\ req[u].at = "lock" /\ req[u].op = "reorder"
      /\ tx' = [tx EXCEPT ![u] = <<>>] /\ UNCHANGED <<screen, told, asked>>
  BY DEF ReorderWrite, IInv, RequestOK
<1>2. CASE Answer(u) /\ UNCHANGED <<rows, feed>>
  BY <1>1, <1>2, LawAnswer
<1>3. CASE /\ \A r \in Named(u) : r \in Written(u) /\ tx[u][r].version = req[u].sent[r]
           /\ Commit(w) /\ Goto(u, "announce")
  <2>1. ASSUME NEW r \in Named(u)
        PROVE  /\ r \in Rows /\ rows[r] \in Values /\ rows[r].version = req[u].sent[r]
               /\ req[u].sent[r] < MaxVersion /\ at(r) \in Nat /\ rows[r] # Absent
    <3>1. r \in Rows /\ r \in Written(u) /\ tx[u][r] = rows[r] /\ rows[r] # Absent
      BY <1>1, <1>3 DEF RequestOK, WritesOK, MayBecome
    <3>2. \E i \in 1..Len(req[u].order) : req[u].order[i] = r
      BY <1>1 DEF RequestOK
    <3> DEFINE k == CHOOSE i \in 1..Len(req[u].order) : req[u].order[i] = r
    <3>3. k \in 1..Len(req[u].order)
      BY <3>2
    <3>4. at(r) \in Nat
      <4> HIDE DEF k
      <4>1. k - 1 \in Nat
        BY <3>3
      <4> QED
        BY <4>1 DEF k
    <3> QED
      BY <1>1, <1>3, <3>1, <3>4 DEF IInv, RowsOK, RequestOK
  <2>2. ASSUME NEW r \in moved
        PROVE  /\ r \in Rows /\ Bumped(r, [pos |-> at(r)]) \in Values
               /\ MayBecome(u, r, Bumped(r, [pos |-> at(r)]))
               /\ Lawful(r, Bumped(r, [pos |-> at(r)]))
    <3> HIDE DEF at
    <3>1. /\ Bumped(r, [pos |-> at(r)]) \in Values
          /\ Bumped(r, [pos |-> at(r)]).version = rows[r].version + 1
      BY <2>1, PlacedIsAValue, BumpedIsAValue
    <3>2. rows[r].version + 1 <= MaxVersion /\ rows[r].version \in Nat
      BY <2>1, RowsAssumption DEF Values
    <3>3. Legal(rows[r])
      BY <2>1 DEF LawInv, StoredRowsAreLegal, Present
    <3>4. Legal(Bumped(r, [pos |-> at(r)]))
      BY <3>3, PlacedIsLegal, BumpedIsLegal
    <3> QED
      BY <2>1, <3>1, <3>2, <3>4, AbsentAssumption DEF MayBecome, Lawful
  <2>3. DOMAIN w = moved /\ DOMAIN w \subseteq Written(u) /\ DOMAIN w \subseteq Rows
    BY <1>3, <2>1
  <2>4. \A r \in DOMAIN w : w[r] \in Values \cup {Absent} /\ MayBecome(u, r, w[r])
                            /\ Lawful(r, w[r])
    BY <2>2
  <2>5. \A v \in Analysts \ {u} : DOMAIN w \cap Written(v) = {}
    BY <2>3 DEF IInv, Apart
  <2>6. StepOf(u) /\ Written(u)' = {} /\ req'[u] = [req[u] EXCEPT !.at = "announce"]
    BY <1>1, <1>3 DEF StepOf, Goto, IInv, ScreensOK, Written
  <2>7. Commit(w) /\ UNCHANGED screen
    BY <1>1, <1>3
  <2> HIDE DEF w
  <2> QED
    BY <2>3, <2>4, <2>5, <2>6, <2>7, LawCommit
<1> QED
  BY <1>2, <1>3 DEF ReorderWrite

LEMMA InsertIsLawful ==
    ASSUME IInv, LawInv, NEW u \in Analysts, Insert(u)
    PROVE  LawInv' /\ RowsGoOn
<1>1. RequestOK(u) /\ req[u].at = "insert" /\ Written(u) = {}
  BY DEF Insert, IInv, RequestOK
<1>2. CASE Answer(u) /\ UNCHANGED tx
  BY <1>1, <1>2, LawAnswer DEF Insert
<1>3. CASE /\ tx' = [tx EXCEPT ![u] = [r \in req[u].born |-> Patched(Blank, req[u].patch)]]
           /\ Goto(u, "commit")
  <2> DEFINE w == [r \in req[u].born |-> Patched(Blank, req[u].patch)]
  <2>1. tx'[u] = w
    BY <1>3 DEF IInv
  <2>2. ASSUME NEW r \in DOMAIN w PROVE Lawful(r, w[r])
    <3>1. r \in Rows /\ feed[r] = <<>> /\ RowsOK
      BY <1>1 DEF RequestOK, IInv
    <3>2. rows[r] = Absent
      BY <3>1, PresentIsTold
    <3>3. Legal(w[r])
      BY <1>1 DEF LawInv, RequestIsLawful
    <3> QED
      BY <3>2, <3>3 DEF Lawful
  <2>3. StepOf(u) /\ UNCHANGED <<rows, feed, screen>>
    BY <1>3 DEF Insert, StepOf, Goto, IInv, ScreensOK
  <2>4. req'[u].at = "commit" /\ req'[u].sent = req[u].sent
    BY <1>3, GotoFields
  <2> HIDE DEF w
  <2> QED
    BY <2>1, <2>2, <2>3, <2>4, LawOpen
<1> QED
  BY <1>2, <1>3 DEF Insert

LEMMA CommitRequestIsLawful ==
    ASSUME IInv, LawInv, NEW u \in Analysts, CommitRequest(u)
    PROVE  LawInv' /\ RowsGoOn
<1>1. /\ WritesOK(u) /\ tx' = [tx EXCEPT ![u] = <<>>] /\ UNCHANGED <<screen, told, asked>>
  BY DEF CommitRequest, IInv
<1>2. CASE Answer(u) /\ UNCHANGED <<rows, feed>>
  BY <1>1, <1>2, LawAnswer
<1>3. CASE Commit(tx[u]) /\ (Answer(u) \/ Goto(u, "announce"))
  <2>1. /\ DOMAIN tx[u] \subseteq Rows
        /\ \A r \in DOMAIN tx[u] : tx[u][r] \in Values \cup {Absent}
                                   /\ MayBecome(u, r, tx[u][r]) /\ Lawful(r, tx[u][r])
        /\ \A v \in Analysts \ {u} : DOMAIN tx[u] \cap Written(v) = {}
    BY <1>1 DEF WritesOK, Written, IInv, Apart, LawInv, WritesAreLawful
  <2>2. StepOf(u) /\ Written(u)' = {} /\ UNCHANGED screen
    BY <1>1, <1>3 DEF StepOf, Goto, Answer, IInv, ScreensOK, Written
  <2>3. req'[u] = Idle \/ req'[u] = [req[u] EXCEPT !.at = "announce"]
    BY <1>3 DEF Goto, Answer, IInv
  <2> QED
    BY <1>3, <2>1, <2>2, <2>3, LawCommit
<1> QED
  BY <1>2, <1>3 DEF CommitRequest

LEMMA LawKeeps ==
    ASSUME IInv, LawInv, [Next]_vars
    PROVE  LawInv' /\ RowsGoOn
<1>1. CASE UNCHANGED vars
  BY <1>1 DEF vars, LawInv, StoredRowsAreLegal, Present, ScreenIsSeen, Seen,
              WritesAreLawful, Written, Lawful, RequestIsLawful, Named, Judged,
              RowsGoOn, RowGoesOn
<1>2. CASE Crash
  <2>1. UNCHANGED <<rows, feed, screen>> /\ StoredRowsAreLegal'
    BY <1>2 DEF Crash, LawInv, StoredRowsAreLegal, Present
  <2>2. ASSUME NEW u \in Analysts
        PROVE  ScreenIsSeen(u)' /\ WritesAreLawful(u)' /\ RequestIsLawful(u)'
    <3>1. req'[u] = Idle /\ Written(u)' = {}
      BY <1>2 DEF Crash, Written
    <3>2. ScreenIsSeen(u)'
      BY <2>1 DEF LawInv, ScreenIsSeen, Seen
    <3> QED
      BY <3>1, <3>2, IdleIsLawful
  <2> QED
    BY <2>1, <2>2, NothingMoves DEF LawInv
<1>3. ASSUME NEW u \in Analysts, Refresh(u) PROVE LawInv' /\ RowsGoOn
  <2>1. UNCHANGED <<rows, feed, tx, req>> /\ StoredRowsAreLegal'
    BY <1>3 DEF Refresh, LawInv, StoredRowsAreLegal, Present
  <2>2. ASSUME NEW v \in Analysts
        PROVE  ScreenIsSeen(v)' /\ WritesAreLawful(v)' /\ RequestIsLawful(v)'
    <3>1. WritesAreLawful(v)' /\ RequestIsLawful(v)'
      BY <2>1, NothingMoves, OthersStayLawful
    <3>2. ASSUME NEW r \in Rows, screen'[v][r] # Absent
          PROVE  Seen(r, screen[v][r].version)' 
      <4>1. CASE screen'[v][r] = screen[v][r]
        BY <2>1, <3>2, <4>1 DEF LawInv, ScreenIsSeen, Seen
      <4>2. CASE screen'[v][r] = rows[r]
        <5>1. rows[r].version \in Nat /\ feed[r] # <<>>
          BY <3>2, <4>2, PresentIsTold DEF IInv, RowsOK, Values
        <5> QED
          BY <2>1, <4>2, <5>1 DEF Seen
      <4> QED
        BY <1>3, <4>1, <4>2 DEF Refresh, IInv, ScreensOK
    <3> QED
      BY <3>1, <3>2 DEF ScreenIsSeen
  <2> QED
    BY <2>1, <2>2, NothingMoves DEF LawInv
<1>4. ASSUME NEW u \in Analysts,
             \/ AskUpdate(u) \/ AskUpdateMany(u) \/ AskRemove(u) \/ AskRemoveMany(u)
             \/ AskReorder(u) \/ AskCreate(u)
      PROVE  LawInv' /\ RowsGoOn
  BY <1>4, AsksAreLawful
<1>5. ASSUME NEW u \in Analysts, ReferenceCounts(u) PROVE LawInv' /\ RowsGoOn
  <2>1. Written(u) = {}
    BY <1>5 DEF ReferenceCounts, IInv, RequestOK
  <2> QED
    BY <1>5, <2>1, LawGoto, LawAnswer DEF ReferenceCounts
<1>6. ASSUME NEW u \in Analysts, Abort(u) PROVE LawInv' /\ RowsGoOn
  BY <1>6, LawAnswer DEF Abort
<1>7. ASSUME NEW u \in Analysts, Announce(u) PROVE LawInv' /\ RowsGoOn
  <2>1. req'[u] = Idle /\ Written(u)' = {} /\ UNCHANGED <<rows, feed, screen>>
    BY <1>7 DEF Announce, Answer, IInv, RequestOK, Written
  <2>2. StepOf(u)
    BY <1>7 DEF Announce, StepOf, Answer, IInv, ScreensOK
  <2> QED
    BY <2>1, <2>2, IdleIsLawful, LawQuiet
<1> QED
  BY <1>1, <1>2, <1>3, <1>4, <1>5, <1>6, <1>7, CheckIsLawful, UpdateIsLawful,
     UpdateManyIsLawful, RemoveIsLawful, DeleteGroupIsLawful, ReorderIsLawful,
     ReorderWriteIsLawful, InsertIsLawful, CommitRequestIsLawful DEF Next, Serve

(* The strengthening of the rule, in every reachable state.                *)
THEOREM AlwaysLawful == Spec => []LawInv
<1>1. Init => LawInv
  <2> SUFFICES ASSUME Init PROVE LawInv
    OBVIOUS
  <2>1. IInv
    BY StartsSound
  <2>2. ASSUME NEW r \in Rows, rows[r] # Absent
        PROVE  Legal(rows[r]) /\ Seen(r, rows[r].version)
    <3>1. feed[r] # <<>> /\ rows[r].version \in Nat
      BY <2>1, <2>2, PresentIsTold DEF IInv, RowsOK, Values
    <3>2. rows[r].kind = "address"
      BY <2>2 DEF Init, Blank
    <3> QED
      BY <3>1, <3>2 DEF Seen, Legal
  <2>3. \A u \in Analysts : screen[u] = rows /\ req[u] = Idle /\ Written(u) = {}
    BY DEF Init, Written
  <2>4. ASSUME NEW u \in Analysts PROVE RequestIsLawful(u)
    <3>1. req[u].sent = <<>> /\ req[u].at = "idle"
      BY <2>3 DEF Idle, Request
    <3> QED
      BY <3>1 DEF RequestIsLawful, Named
  <2> QED
    BY <2>2, <2>3, <2>4 DEF LawInv, StoredRowsAreLegal, Present, ScreenIsSeen, WritesAreLawful
<1> QED
  BY <1>1, LawKeeps, AlwaysSound, PTL DEF Spec

(* write-guards.ts: no stored row breaks the rule that spans two fields,   *)
(* though the rule is asked in one transaction and the write is another.   *)
THEOREM RowsAreLegal == Spec => []StoredRowsAreLegal
<1>1. LawInv => StoredRowsAreLegal
  BY DEF LawInv
<1> QED
  BY <1>1, AlwaysLawful, PTL


-----------------------------------------------------------------------------
(* A step of a request is a step of its analyst alone.                     *)
LEMMA ServeIsOneStep ==
    ASSUME IInv, NEW u \in Analysts,
           \/ AskUpdate(u) \/ AskUpdateMany(u) \/ AskRemove(u) \/ AskRemoveMany(u)
           \/ AskReorder(u) \/ AskCreate(u) \/ Serve(u) \/ Abort(u)
    PROVE  StepOf(u)
<1>0. /\ tx = [v \in Analysts |-> tx[v]] /\ req = [v \in Analysts |-> req[v]]
      /\ ScreensOK
  BY DEF IInv
<1>1. ASSUME NEW q, Ask(u, q) PROVE StepOf(u)
  <2>1. asked' \in [Analysts -> 0..MaxRequests]
    BY <1>1, RowsAssumption DEF Ask, IInv, ScreensOK
  <2> QED
    BY <1>0, <1>1, <2>1 DEF Ask, StepOf, ScreensOK
<1>2. CASE \/ AskUpdate(u) \/ AskUpdateMany(u) \/ AskRemove(u) \/ AskRemoveMany(u)
           \/ AskReorder(u) \/ AskCreate(u)
  <2>1. PICK q : Ask(u, q)
    BY <1>2 DEF AskUpdate, AskUpdateMany, AskRemove, AskRemoveMany, AskReorder, AskCreate
  <2> QED
    BY <1>1, <2>1
<1>3. ASSUME req' = [req EXCEPT ![u] = req'[u]], tx' = [tx EXCEPT ![u] = tx'[u]],
             ScreensOK'
      PROVE  StepOf(u)
  BY <1>3 DEF StepOf
<1>4. ASSUME NEW at, Goto(u, at) \/ Answer(u)
      PROVE  req' = [req EXCEPT ![u] = req'[u]]
  BY <1>0, <1>4 DEF Goto, Answer
<1>5. CASE \/ Check(u) \/ Update(u) \/ UpdateMany(u) \/ Remove(u) \/ ReferenceCounts(u)
           \/ Insert(u) \/ CommitRequest(u) \/ ReorderWrite(u) \/ Abort(u)
  <2>1. UNCHANGED <<screen, told, asked>> /\ (UNCHANGED tx \/ \E t : tx' = [tx EXCEPT ![u] = t])
    BY <1>5 DEF Check, Update, UpdateMany, Remove, ReferenceCounts, Insert, CommitRequest,
                ReorderWrite, Abort
  <2>2. Answer(u) \/ \E at : Goto(u, at)
    BY <1>5 DEF Check, Update, UpdateMany, Remove, ReferenceCounts, Insert, CommitRequest,
                ReorderWrite, Abort
  <2> QED
    BY <1>0, <1>3, <1>4, <2>1, <2>2 DEF ScreensOK
<1>6. CASE Announce(u)
  BY <1>0, <1>6 DEF Announce, Answer, StepOf, ScreensOK
<1>7. CASE DeleteGroup(u)
  BY <1>7, GroupDeleted DEF GroupGone
<1>8. CASE ReorderNames(u)
  BY <1>0, <1>8 DEF ReorderNames, Answer, StepOf, ScreensOK
<1>9. CASE ReorderLock(u)
  BY <1>0, <1>9 DEF ReorderLock, StepOf, ScreensOK
<1> QED
  BY <1>2, <1>5, <1>6, <1>7, <1>8, <1>9 DEF Serve

(* Where a step that is none of the three loops leaves its request.        *)
LEMMA ServeGoesOn ==
    ASSUME IInv, NEW u \in Analysts,
           \/ Check(u) \/ Update(u) \/ UpdateMany(u) \/ Remove(u) \/ ReferenceCounts(u)
           \/ Insert(u) \/ CommitRequest(u) \/ ReorderWrite(u) \/ Announce(u) \/ Abort(u)
    PROVE  \/ Answer(u)
           \/ Goto(u, "announce")
           \/ Goto(u, "write") /\ req[u].at = "check"
           \/ Goto(u, "delete") /\ req[u].at = "counts" /\ UNCHANGED <<rows, tx>>
           \/ Goto(u, "commit") /\ (req[u].op = "updateMany" \/ req[u].at = "insert")
  BY DEF Check, Update, UpdateMany, Remove, ReferenceCounts, Insert, CommitRequest,
         ReorderWrite, Announce, Abort

-----------------------------------------------------------------------------
(* Reorders queue.                                                         *)
LEMMA FirstOfRows ==
    ASSUME NEW S \in SUBSET Rows, S # {}
    PROVE  \E r \in S : \A s \in S : r <= s
<1>1. S \in SUBSET Nat
  BY RowsAssumption
<1>2. PICK r \in S : \A s \in S : ~ (<<s, r>> \in OpToRel(<, Nat))
  <2> HIDE DEF OpToRel
  <2> QED
    BY <1>1, WFMin, NatLessThanWellFounded
<1>3. \A s \in S : ~ (s < r)
  BY <1>1, <1>2 DEF OpToRel
<1> QED
  BY <1>1, <1>3

LEMMA LocksTheFirst ==
    ASSUME NEW u, req[u].todo \subseteq Rows, req[u].todo # {}
    PROVE  NextToLock(u) \in req[u].todo /\ \A s \in req[u].todo : NextToLock(u) <= s
  BY FirstOfRows DEF NextToLock

LEMMA IdleQueues ==
    ASSUME NEW u, req'[u] = Idle
    PROVE  QueueOK(u)' /\ SelectionOK(u)'
<1>1. req'[u].op = "idle" /\ req'[u].at = "idle"
  BY DEF Idle, Request
<1> QED
  BY <1>1 DEF QueueOK, SelectionOK

LEMMA QueueStep ==
    ASSUME IInv, NEW u \in Analysts, QueueOK(u),
           \/ AskUpdate(u) \/ AskUpdateMany(u) \/ AskRemove(u) \/ AskRemoveMany(u)
           \/ AskReorder(u) \/ AskCreate(u) \/ Serve(u) \/ Abort(u)
    PROVE  QueueOK(u)'
<1>1. RequestOK(u) /\ u \in DOMAIN req /\ u \in DOMAIN tx
  BY DEF IInv
<1>2. CASE \/ AskUpdate(u) \/ AskUpdateMany(u) \/ AskRemove(u) \/ AskRemoveMany(u)
           \/ AskReorder(u) \/ AskCreate(u)
  <2>1. PICK q : Ask(u, q) /\ (q.op = "reorder" => q.at = "names") /\ q.at # "lock"
    <3>1. ASSUME NEW op, NEW at, NEW sent, NEW p, NEW order, NEW todo, NEW born,
                 Ask(u, Request(op, at, sent, p, order, todo, born)),
                 op = "reorder" => at = "names", at # "lock"
          PROVE  \E q : Ask(u, q) /\ (q.op = "reorder" => q.at = "names") /\ q.at # "lock"
      <4>1. /\ Request(op, at, sent, p, order, todo, born).op = op
            /\ Request(op, at, sent, p, order, todo, born).at = at
        BY DEF Request
      <4> QED
        BY <3>1, <4>1
    <3>2. CASE AskUpdate(u)
      BY <3>1, <3>2 DEF AskUpdate
    <3>3. CASE AskUpdateMany(u)
      BY <3>1, <3>3 DEF AskUpdateMany
    <3>4. CASE AskRemove(u)
      BY <3>1, <3>4 DEF AskRemove
    <3>5. CASE AskRemoveMany(u)
      BY <3>1, <3>5 DEF AskRemoveMany
    <3>6. CASE AskReorder(u)
      BY <3>1, <3>6 DEF AskReorder
    <3>7. CASE AskCreate(u)
      BY <3>1, <3>7 DEF AskCreate
    <3> QED
      BY <1>2, <3>2, <3>3, <3>4, <3>5, <3>6, <3>7
  <2>2. req'[u] = q
    BY <1>1, <2>1 DEF Ask
  <2> QED
    BY <2>1, <2>2 DEF QueueOK
<1>3. CASE Answer(u)
  BY <1>1, <1>3, IdleQueues DEF Answer
<1>4. ASSUME NEW at, Goto(u, at), at # "lock", req[u].op # "reorder" \/ at = "announce"
      PROVE  QueueOK(u)'
  <2>1. req'[u].at = at /\ req'[u].op = req[u].op
    BY <1>4, GotoFields
  <2> QED
    BY <1>4, <2>1 DEF QueueOK
<1>5. CASE \/ Check(u) \/ Update(u) \/ UpdateMany(u) \/ Remove(u) \/ ReferenceCounts(u)
           \/ Insert(u) \/ CommitRequest(u) \/ ReorderWrite(u) \/ Announce(u) \/ Abort(u)
  BY <1>3, <1>4, <1>5, ServeGoesOn DEF QueueOK
<1>6. CASE DeleteGroup(u)
  <2>1. PICK c, gone, left, at, rf : GroupGone(u, c, gone, left, at, rf)
    BY <1>6, GroupDeleted
  <2>2. req'[u].op = req[u].op /\ req'[u].at = at /\ at \in {"commit", "delete"}
        /\ req[u].at = "delete"
    BY <2>1 DEF GroupGone
  <2> QED
    BY <2>2 DEF QueueOK
<1>7. CASE ReorderNames(u) /\ ~ Answer(u)
  <2>1. req' = [req EXCEPT ![u].at = "lock",
                           ![u].todo = {r \in Present : \E s \in Named(u) :
                                            CollectionOf[r] = CollectionOf[s]}]
        /\ UNCHANGED tx /\ req[u].at = "names"
    BY <1>7 DEF ReorderNames
  <2>2. req'[u].at = "lock" /\ req'[u].todo \subseteq Rows
    BY <1>1, <2>1 DEF RequestOK, Present
  <2>3. Written(u)' = {}
    BY <1>1, <2>1 DEF Written, RequestOK
  <2> QED
    BY <2>2, <2>3 DEF QueueOK
<1>8. CASE ReorderLock(u)
  <2>1. req[u].at = "lock" /\ req[u].todo # {} /\ req[u].todo \subseteq Rows
    BY <1>8 DEF ReorderLock, QueueOK
  <2>2. NextToLock(u) \in req[u].todo /\ \A s \in req[u].todo : NextToLock(u) <= s
    BY <2>1, LocksTheFirst
  <2> DEFINE w == [r \in {NextToLock(u)} \cap Present |-> rows[r]]
  <2>3. tx'[u] = Merge(tx[u], w) /\ DOMAIN w \subseteq {NextToLock(u)}
    BY <1>1, <1>8 DEF ReorderLock
  <2> HIDE DEF w
  <2>4. Written(u)' \subseteq Written(u) \cup {NextToLock(u)}
    BY <2>3 DEF Written, Merge
  <2>5. /\ req'[u].at = "lock" /\ req'[u].op = req[u].op
        /\ req'[u].todo = req[u].todo \ {NextToLock(u)}
    <3>1. req' = [req EXCEPT ![u].todo = @ \ {NextToLock(u)}]
      BY <1>8 DEF ReorderLock
    <3> QED
      BY <1>1, <2>1, <3>1 DEF RequestOK
  <2>6. \A r \in Written(u)', s \in req'[u].todo : r < s
    <3> SUFFICES ASSUME NEW r \in Written(u)', NEW s \in req'[u].todo PROVE r < s
      OBVIOUS
    <3>1. s \in req[u].todo /\ s # NextToLock(u)
      BY <2>5
    <3>2. CASE r \in Written(u)
      BY <2>1, <3>1, <3>2 DEF QueueOK
    <3>3. CASE r = NextToLock(u)
      <4>1. r <= s /\ r # s /\ r \in Nat /\ s \in Nat
        BY <2>1, <2>2, <3>1, <3>3, RowsAssumption
      <4> QED
        BY <4>1
    <3> QED
      BY <2>4, <3>2, <3>3
  <2> QED
    BY <2>1, <2>5, <2>6 DEF QueueOK
<1> QED
  BY <1>2, <1>3, <1>5, <1>6, <1>7, <1>8 DEF Serve

LEMMA QueueKeeps ==
    ASSUME IInv, QueueInv, [Next]_vars
    PROVE  QueueInv'
<1>1. CASE UNCHANGED vars
  BY <1>1 DEF vars, QueueInv, QueueOK, Written
<1>2. CASE Crash
  BY <1>2, IdleQueues DEF Crash, QueueInv
<1>3. CASE \E u \in Analysts : Refresh(u)
  BY <1>3 DEF Refresh, QueueInv, QueueOK, Written
<1>4. ASSUME NEW u \in Analysts,
             \/ AskUpdate(u) \/ AskUpdateMany(u) \/ AskRemove(u) \/ AskRemoveMany(u)
             \/ AskReorder(u) \/ AskCreate(u) \/ Serve(u) \/ Abort(u)
      PROVE  QueueInv'
  <2>1. StepOf(u) /\ QueueOK(u)'
    BY <1>4, ServeIsOneStep, QueueStep DEF QueueInv
  <2>2. ASSUME NEW v \in Analysts \ {u} PROVE QueueOK(v)'
    <3>1. req'[v] = req[v] /\ tx'[v] = tx[v] /\ QueueOK(v)
      BY <2>1 DEF StepOf, IInv, QueueInv
    <3> QED
      BY <3>1 DEF QueueOK, Written
  <2> QED
    BY <2>1, <2>2 DEF QueueInv
<1> QED
  BY <1>1, <1>2, <1>3, <1>4 DEF Next

(* collection.service.ts reorder: locking a scope in id order, no two      *)
(* reorders wait for each other.                                           *)
THEOREM NoReordersDeadlock == Spec => []ReordersQueue
<1>1. Init => QueueInv
  BY DEF Init, QueueInv, QueueOK, Idle, Request
<1>2. QueueInv => ReordersQueue
  <2> SUFFICES ASSUME QueueInv, NEW u \in Analysts, NEW v \in Analysts,
                      req[u].op = "reorder", req[v].op = "reorder",
                      u \in WaitsFor(v), v \in WaitsFor(u)
               PROVE  FALSE
    BY DEF ReordersQueue, Deadlocked
  <2>1. ASSUME NEW a \in Analysts, NEW b \in Analysts, req[a].op = "reorder",
               b \in WaitsFor(a)
        PROVE  /\ req[a].at = "lock" /\ req[a].todo # {} /\ a # b
               /\ req[a].todo \subseteq Rows
               /\ NextToLock(a) \in Written(b)
    <3>1. QueueOK(a) /\ req[a].at \in {"names", "lock", "announce"}
      BY <2>1 DEF QueueInv, QueueOK
    <3>2. req[a].at = "lock" /\ req[a].todo # {} /\ b \in BlockedBy(a, {NextToLock(a)}, {}, {})
      BY <2>1, <3>1 DEF WaitsFor
    <3> QED
      BY <3>1, <3>2 DEF BlockedBy, QueueOK
  <2>2. /\ NextToLock(u) \in req[u].todo /\ NextToLock(v) \in req[v].todo
        /\ req[u].at = "lock" /\ req[v].at = "lock"
        /\ NextToLock(u) \in Written(v) /\ NextToLock(v) \in Written(u)
        /\ req[u].todo \subseteq Rows /\ req[v].todo \subseteq Rows
    BY <2>1, LocksTheFirst
  <2>3. NextToLock(u) < NextToLock(v) /\ NextToLock(v) < NextToLock(u)
    BY <2>2 DEF QueueInv, QueueOK
  <2>4. NextToLock(u) \in Nat /\ NextToLock(v) \in Nat
    BY <2>2, RowsAssumption
  <2> QED
    BY <2>3, <2>4
<1> QED
  BY <1>1, <1>2, QueueKeeps, AlwaysSound, PTL DEF Spec


-----------------------------------------------------------------------------
(* A selection goes whole.                                                 *)
LEMMA SelectionAsked ==
    ASSUME IInv, NEW u \in Analysts,
           \/ AskUpdate(u) \/ AskUpdateMany(u) \/ AskRemove(u) \/ AskRemoveMany(u)
           \/ AskReorder(u) \/ AskCreate(u)
    PROVE  SelectionOK(u)'
<1>1. ASSUME NEW op, NEW at, NEW sent, NEW p, NEW order, NEW todo, NEW born,
             Ask(u, Request(op, at, sent, p, order, todo, born)), op # "removeMany"
      PROVE  SelectionOK(u)'
  <2>1. req'[u].op = op
    BY <1>1 DEF Ask, Request, IInv
  <2> QED
    BY <1>1, <2>1 DEF SelectionOK
<1>2. CASE AskRemoveMany(u)
  <2>1. PICK S \in SUBSET Shown(u) :
            Ask(u, Request("removeMany", "counts", Reads(u, S), <<>>, <<>>,
                       {CollectionOf[r] : r \in S}, {}))
    BY <1>2 DEF AskRemoveMany
  <2>2. /\ req'[u].at = "counts" /\ req'[u].sent = Reads(u, S)
        /\ req'[u].todo = {CollectionOf[r] : r \in S}
    BY <2>1 DEF Ask, Request, IInv
  <2>3. GoneThrough(u)'
    BY <2>2 DEF GoneThrough, Named, Reads
  <2> QED
    BY <2>2, <2>3 DEF SelectionOK
<1>3. CASE AskUpdate(u)
  BY <1>1, <1>3 DEF AskUpdate
<1>4. CASE AskUpdateMany(u)
  BY <1>1, <1>4 DEF AskUpdateMany
<1>5. CASE AskRemove(u)
  BY <1>1, <1>5 DEF AskRemove
<1>6. CASE AskReorder(u)
  BY <1>1, <1>6 DEF AskReorder
<1>7. CASE AskCreate(u)
  BY <1>1, <1>7 DEF AskCreate
<1> QED
  BY <1>2, <1>3, <1>4, <1>5, <1>6, <1>7

(* The statement of one collection: of its rows, who is not gone by it is  *)
(* gone already or refuses the selection.                                  *)
LEMMA SelectionThins ==
    ASSUME IInv, NEW u \in Analysts, SelectionOK(u), DeleteGroup(u)
    PROVE  SelectionOK(u)'
<1>1. PICK c, gone, left, at, rf : GroupGone(u, c, gone, left, at, rf)
  BY GroupDeleted
<1>2. /\ req'[u].op = req[u].op /\ req'[u].at = at /\ req'[u].sent = req[u].sent
      /\ req'[u].todo = req[u].todo \ {c} /\ req'[u].refused = rf
      /\ at = IF req[u].todo = {c} THEN "commit" ELSE "delete"
      /\ gone = {r \in Unmoved(u) : CollectionOf[r] = c}
      /\ left = {r \in Named(u) \ gone : CollectionOf[r] = c}
      /\ tx'[u] = Merge(tx[u], Deleted(u, gone)) /\ rows' = rows
      /\ req[u].at = "delete"
  BY <1>1 DEF GroupGone
<1>3. rf = (req[u].refused \/ \E r \in left : View(u)[r] # Absent)
  BY <1>1 DEF GroupGone
<1>4. Named(u)' = Named(u) /\ Named(u) \subseteq Rows
  BY <1>2 DEF Named, IInv, RequestOK
<1>5. ASSUME NEW r \in Rows, r \in gone \/ View(u)[r] = Absent
      PROVE  View(u)'[r] = Absent
  <2>1. DOMAIN Deleted(u, gone) = gone \cup NamersOf(u, gone)
    BY DEF Deleted
  <2>2. CASE r \in gone
    <3>1. Deleted(u, gone)[r] = Absent
      BY <2>2 DEF Deleted
    <3>2. r \in DOMAIN tx'[u] /\ tx'[u][r] = Absent
      BY <1>2, <2>1, <2>2, <3>1 DEF Merge
    <3> QED
      BY <3>2 DEF View, Written
  <2>3. CASE r \notin gone
    <3>1. View(u)[r] = Absent /\ r \notin DOMAIN Deleted(u, gone)
      BY <1>5, <2>1, <2>3 DEF NamersOf
    <3>2. /\ r \in DOMAIN tx'[u] <=> r \in DOMAIN tx[u]
          /\ r \in DOMAIN tx[u] => tx'[u][r] = tx[u][r]
      BY <1>2, <3>1 DEF Merge
    <3> QED
      BY <1>2, <3>1, <3>2 DEF View, Written
  <2> QED
    BY <2>2, <2>3
<1>6. ASSUME req[u].op = "removeMany", ~ rf
      PROVE  GoneThrough(u)'
  <2>1. ~ req[u].refused /\ \A r \in left : View(u)[r] = Absent
    BY <1>3, <1>6, Zenon
  <2>2. GoneThrough(u)
    BY <1>2, <1>6, <2>1 DEF SelectionOK
  <2>3. ASSUME NEW r \in Named(u), CollectionOf[r] \notin req[u].todo \ {c}
        PROVE  View(u)'[r] = Absent
    <3>1. r \in gone \/ View(u)[r] = Absent
      BY <1>2, <2>1, <2>2, <2>3 DEF GoneThrough
    <3> QED
      BY <1>4, <1>5, <3>1
  <2> QED
    BY <1>2, <1>4, <2>3 DEF GoneThrough
<1>7. req[u].op = "removeMany" => req'[u].refused \/ GoneThrough(u)'
  BY <1>2, <1>6, Zenon
<1>8. at \in {"commit", "delete"} /\ (at = "commit" => req[u].todo \ {c} = {})
  BY <1>2
<1> QED
  BY <1>2, <1>7, <1>8 DEF SelectionOK

LEMMA SelectionStep ==
    ASSUME IInv, NEW u \in Analysts, SelectionOK(u),
           \/ AskUpdate(u) \/ AskUpdateMany(u) \/ AskRemove(u) \/ AskRemoveMany(u)
           \/ AskReorder(u) \/ AskCreate(u) \/ Serve(u) \/ Abort(u)
    PROVE  SelectionOK(u)'
<1>1. RequestOK(u) /\ u \in DOMAIN req
  BY DEF IInv
<1>2. CASE Answer(u)
  BY <1>1, <1>2, IdleQueues DEF Answer
<1>3. ASSUME NEW at, Goto(u, at), req[u].op # "removeMany" \/ at = "announce"
      PROVE  SelectionOK(u)'
  <2>1. req'[u].at = at /\ req'[u].op = req[u].op
    BY <1>3, GotoFields
  <2> QED
    BY <1>3, <2>1 DEF SelectionOK
<1>4. CASE Goto(u, "delete") /\ req[u].at = "counts" /\ UNCHANGED <<rows, tx>>
  <2>1. req'[u] = [req[u] EXCEPT !.at = "delete"]
    BY <1>1, <1>4 DEF Goto
  <2>2. /\ req'[u].at = "delete" /\ req'[u].op = req[u].op /\ req'[u].sent = req[u].sent
        /\ req'[u].todo = req[u].todo /\ req'[u].refused = req[u].refused
    BY <1>1, <2>1 DEF RequestOK
  <2>3. View(u)' = View(u) /\ Named(u)' = Named(u)
    BY <1>4, <2>2 DEF View, Written, Named
  <2>4. GoneThrough(u) => GoneThrough(u)'
    BY <2>2, <2>3 DEF GoneThrough
  <2>5. req[u].op = "removeMany" => req'[u].refused \/ GoneThrough(u)'
    <3>1. req[u].op = "removeMany" => req[u].refused \/ GoneThrough(u)
      BY <1>4 DEF SelectionOK
    <3> QED
      BY <2>2, <2>4, <3>1, Zenon
  <2> QED
    BY <2>2, <2>5 DEF SelectionOK
<1>5. CASE \/ Check(u) \/ Update(u) \/ UpdateMany(u) \/ Remove(u) \/ ReferenceCounts(u)
           \/ Insert(u) \/ CommitRequest(u) \/ ReorderWrite(u) \/ Announce(u) \/ Abort(u)
  BY <1>2, <1>3, <1>4, <1>5, ServeGoesOn DEF SelectionOK
<1>6. CASE (ReorderNames(u) \/ ReorderLock(u)) /\ ~ Answer(u)
  <2>1. req[u].op = "reorder"
    BY <1>1, <1>6 DEF ReorderNames, ReorderLock, RequestOK
  <2>2. req'[u].op = req[u].op
    BY <1>1, <1>6 DEF ReorderNames, ReorderLock, RequestOK
  <2> QED
    BY <2>1, <2>2 DEF SelectionOK
<1> QED
  BY <1>2, <1>5, <1>6, SelectionAsked, SelectionThins DEF Serve

LEMMA SelectionKeeps ==
    ASSUME IInv, LawInv, SelectionInv, [Next]_vars
    PROVE  SelectionInv'
<1>1. ASSUME NEW v \in Analysts, req'[v] = req[v], tx'[v] = tx[v]
      PROVE  SelectionOK(v)'
  <2>1. RowsGoOn /\ SelectionOK(v) /\ RequestIsLawful(v) /\ RequestOK(v)
    BY LawKeeps DEF SelectionInv, LawInv, IInv
  <2>2. Named(v)' = Named(v) /\ Written(v)' = Written(v) /\ Named(v) \subseteq Rows
    BY <1>1, <2>1 DEF Named, Written, RequestOK
  <2>3. ASSUME NEW r \in Named(v), View(v)[r] = Absent
        PROVE  View(v)'[r] = Absent
    <3>1. r \in Rows /\ Seen(r, req[v].sent[r])
      BY <2>1, <2>2 DEF RequestIsLawful
    <3>2. CASE r \in Written(v)
      BY <1>1, <2>2, <2>3, <3>1, <3>2 DEF View
    <3>3. CASE r \notin Written(v)
      <4>1. rows[r] = Absent /\ feed[r] # <<>>
        BY <2>3, <3>1, <3>3 DEF View, Seen
      <4>2. rows'[r] = Absent
        BY <2>1, <3>1, <4>1, GoneStays
      <4> QED
        BY <2>2, <3>1, <3>3, <4>2 DEF View
    <3> QED
      BY <3>2, <3>3
  <2>4. GoneThrough(v) => GoneThrough(v)'
    BY <1>1, <2>2, <2>3 DEF GoneThrough
  <2>5. /\ req'[v].op = req[v].op /\ req'[v].at = req[v].at /\ req'[v].todo = req[v].todo
        /\ req'[v].refused = req[v].refused
    BY <1>1
  <2> QED
    BY <2>1, <2>4, <2>5, Zenon DEF SelectionOK
<1>2. CASE UNCHANGED <<req, tx>>
  BY <1>1, <1>2 DEF SelectionInv
<1>3. CASE Crash
  BY <1>3, IdleQueues DEF Crash, SelectionInv
<1>4. ASSUME NEW u \in Analysts,
             \/ AskUpdate(u) \/ AskUpdateMany(u) \/ AskRemove(u) \/ AskRemoveMany(u)
             \/ AskReorder(u) \/ AskCreate(u) \/ Serve(u) \/ Abort(u)
      PROVE  SelectionInv'
  <2>1. StepOf(u) /\ SelectionOK(u)'
    BY <1>4, ServeIsOneStep, SelectionStep DEF SelectionInv
  <2>2. ASSUME NEW v \in Analysts \ {u} PROVE SelectionOK(v)'
    <3>1. req'[v] = req[v] /\ tx'[v] = tx[v]
      BY <2>1 DEF StepOf, IInv
    <3> QED
      BY <1>1, <3>1
  <2> QED
    BY <2>1, <2>2 DEF SelectionInv
<1> QED
  BY <1>2, <1>3, <1>4 DEF Next, vars, Refresh

(* What a commit of a bulk delete leaves.                                  *)
LEMMA SelectionGone ==
    ASSUME IInv, SelectionInv, [Next]_vars, NEW u \in Analysts,
           req[u].op = "removeMany", req[u].at = "commit", req'[u].at = "announce",
           NEW r \in Named(u)
    PROVE  rows'[r] = Absent
<1>1. CommitRequest(u)
  <2>1. CASE \E v \in Analysts :
                \/ AskUpdate(v) \/ AskUpdateMany(v) \/ AskRemove(v) \/ AskRemoveMany(v)
                \/ AskReorder(v) \/ AskCreate(v) \/ Serve(v) \/ Abort(v)
    <3>1. PICK v \in Analysts :
                \/ AskUpdate(v) \/ AskUpdateMany(v) \/ AskRemove(v) \/ AskRemoveMany(v)
                \/ AskReorder(v) \/ AskCreate(v) \/ Serve(v) \/ Abort(v)
      BY <2>1
    <3>2. StepOf(v) /\ req'[u] # req[u]
      BY <3>1, ServeIsOneStep
    <3>3. v = u
      BY <3>2 DEF StepOf, IInv
    <3>4. ASSUME NEW q, Ask(u, q) PROVE FALSE
      BY <3>4 DEF Ask, Idle, Request
    <3>5. Serve(u) \/ Abort(u)
      BY <3>1, <3>3, <3>4 DEF AskUpdate, AskUpdateMany, AskRemove, AskRemoveMany,
                              AskReorder, AskCreate
    <3>6. ~ Answer(u)
      BY DEF Answer, Idle, Request, IInv
    <3> QED
      BY <3>5, <3>6 DEF Serve, Abort, Check, Update, UpdateMany, Remove, ReferenceCounts,
                   DeleteGroup, ReorderNames, ReorderLock, ReorderWrite, Insert, Announce
  <2>2. CASE Crash
    BY <2>2 DEF Crash, Idle, Request
  <2>3. CASE UNCHANGED req
    BY <2>3
  <2> QED
    BY <2>1, <2>2, <2>3 DEF Next, vars, Refresh
<1>2. ~ req[u].refused /\ Commit(tx[u])
  <2>1. ~ Answer(u)
    BY DEF Answer, Idle, Request, IInv
  <2> QED
    BY <1>1, <2>1 DEF CommitRequest
<1>3. View(u)[r] = Absent /\ r \in Rows
  BY <1>2 DEF SelectionInv, SelectionOK, GoneThrough, IInv, RequestOK
<1> QED
  BY <1>2, <1>3 DEF Commit, View, Written

(* collection.service.ts removeMany: what a bulk delete commits leaves     *)
(* none of the rows it named, whatever commits between its statements.     *)
THEOREM SelectionsGoWhole == Spec => SelectionGoesWhole
<1>1. Init => SelectionInv
  BY DEF Init, SelectionInv, SelectionOK, Idle, Request
<1>2. IInv /\ LawInv /\ SelectionInv /\ [Next]_vars => SelectionInv'
  BY SelectionKeeps
<1>3. IInv /\ SelectionInv /\ [Next]_vars
        => [\A u \in Analysts :
              (req[u].op = "removeMany" /\ req[u].at = "commit" /\ req'[u].at = "announce")
                 => \A r \in Named(u) : rows'[r] = Absent]_vars
  BY SelectionGone
<1> QED
  BY <1>1, <1>2, <1>3, AlwaysSound, AlwaysLawful, PTL DEF Spec, SelectionGoesWhole

=============================================================================
