----------------------------- MODULE HeldProse -----------------------------
(***************************************************************************)
(* A report's prose, held in memory while somebody has it open:            *)
(* server/src/prose/prose.service.ts, as the gateway's connections and the *)
(* send of a report (report/lifecycle.service.ts) call it.                 *)
(*                                                                         *)
(* One record on one instance.  Everything between two awaits is one step; *)
(* a query takes effect in one step and its answer is used in another      *)
(* where something else can happen between them.  A document is a set of   *)
(* words, merged by union as the CRDT merges, and stored whole.            *)
(***************************************************************************)
EXTENDS Integers, Sequences, FiniteSets

CONSTANTS
    Conns,         \* connections, each opening the record at most once
    WriterOf,      \* the analyst behind a connection
    Sends,         \* requests to send the report
    Words,         \* what is typed, each word once
    MaxDocs,       \* bound: how many times the document is built
    MaxFails,      \* bound: how many statements the database fails
    MaxAsks,       \* bound: how many words are typed and sends asked for
    Nil

ASSUME ProseAssumption ==
    /\ MaxDocs \in Nat \ {0} /\ MaxFails \in Nat /\ MaxAsks \in Nat
    /\ Nil \notin 1..MaxDocs
    /\ IsFiniteSet(Conns) /\ IsFiniteSet(Sends) /\ Conns \cap Sends = {}
    /\ Nil \notin Words \cup Conns \cup Sends /\ "timer" \notin Conns \cup Sends

Writers == {WriterOf[c] : c \in Conns}

Readers == Conns \cup Sends

Docs == 1..MaxDocs

VARIABLES
    row,       \* the stored report: its words, and whether it was sent
    accepts,   \* the acceptances the store holds, one for each [id, writer]
    docs,      \* every document built so far
    live,      \* the document the service's map holds, or Nil
    at,        \* what each connection or send is doing
    mine,      \* the document it was handed when it opened the record, or Nil
    of,        \* the document its call in progress holds, or Nil
    word,      \* the word of the frame a connection is handling, or Nil
    by,        \* who typed a word, or Nil
    fate,      \* what came of a word
    bytes,     \* the words a send sealed
    named,     \* words stored by an act that named who wrote them
    fails,     \* how many statements have failed
    ousted     \* whether a leave took another document than its own out of the map;
               \* no state of the code, as by, fate and named are none

proseVars ==
    <<row, accepts, docs, live, at, mine, of, word, by, fate, bytes, named, fails, ousted>>

-----------------------------------------------------------------------------
NoStore == [at |-> "none", ids |-> {}, names |-> {}]

(* A document as build() registers it, before its row is read.             *)
Building ==
    [at |-> "building", words |-> {}, readers |-> 1, timer |-> FALSE, dirty |-> FALSE,
     sealed |-> FALSE, deciding |-> FALSE, writers |-> {}, accepted |-> {},
     acceptances |-> {}, saving |-> <<>>, store |-> NoStore, unsaved |-> "no",
     late |-> FALSE]

Unbuilt == [Building EXCEPT !.at = "unbuilt", !.readers = 0]

ProseInit ==
    /\ row = [words |-> {}, sent |-> FALSE]
    /\ accepts = {}
    /\ docs = [d \in Docs |-> Unbuilt]
    /\ live = Nil
    /\ at = [r \in Readers |-> "away"]
    /\ mine = [r \in Readers |-> Nil]
    /\ of = [r \in Readers |-> Nil]
    /\ word = [r \in Readers |-> Nil]
    /\ by = [w \in Words |-> Nil]
    /\ fate = [w \in Words |-> "untyped"]
    /\ bytes = [x \in Sends |-> {}]
    /\ named = {}
    /\ fails = 0
    /\ ousted = FALSE

Goto(r, place, d) ==
    /\ at' = [at EXCEPT ![r] = place]
    /\ of' = [of EXCEPT ![r] = d]

Change(d, doc) == docs' = [docs EXCEPT ![d] = doc]

(* Where a reader is once it holds the document.                           *)
Inside(r) == IF r \in Conns THEN "in" ELSE "sealing"

-----------------------------------------------------------------------------
(* Another document of the record is still being stored.                   *)
Overtaken(d) == \E e \in Docs \ {d} : docs[e].saving # <<>>

(* Words that are in no row when the record is opened over a store under   *)
(* way are at risk: this document will be built without them.              *)
AtRisk(d) ==
    [w \in Words |-> IF fate[w] = "taken" /\ w \notin row.words /\ Overtaken(d)
                     THEN "risked" ELSE fate[w]]

Untyped == {w \in Words : fate[w] = "untyped"}

Unasked == {s \in Sends : at[s] = "away"}

(* Words differ in nothing but who typed them and when, and sends only in  *)
(* when: the next one is any.                                              *)
MayType(w) ==
    /\ w \in Untyped /\ w = CHOOSE v \in Untyped : TRUE
    /\ Cardinality(Words \ Untyped) + Cardinality(Sends \ Unasked) < MaxAsks

MayAsk(s) ==
    /\ s \in Unasked /\ s = CHOOSE r \in Unasked : TRUE
    /\ Cardinality(Words \ Untyped) + Cardinality(Sends \ Unasked) < MaxAsks

(* open(): a document held is shared; one being built is waited for; else  *)
(* its promise goes in the map before the row is read.                     *)
Open(r) ==
    /\ at[r] = "away" /\ (r \in Sends => MayAsk(r))
    /\ \/ /\ live = Nil
          /\ \E d \in Docs :
                /\ docs[d].at = "unbuilt" /\ \A c \in 1..(d - 1) : docs[c].at # "unbuilt"
                /\ live' = d
                /\ Change(d, Building)
                /\ Goto(r, "building", d)
                /\ fate' = AtRisk(d)
          /\ UNCHANGED mine
       \/ /\ live # Nil /\ docs[live].at = "building"
          /\ Goto(r, "joining", live)
          /\ UNCHANGED <<live, docs, mine, fate>>
       \/ /\ live # Nil /\ docs[live].at = "open"
          /\ Change(live, [docs[live] EXCEPT !.readers = @ + 1])
          /\ mine' = [mine EXCEPT ![r] = live]
          /\ at' = [at EXCEPT ![r] = Inside(r)]
          /\ UNCHANGED <<live, of, fate>>
    /\ UNCHANGED <<row, accepts, word, by, bytes, named, fails, ousted>>

(* Mutant: only whoever asked for the document to be built is counted.     *)
BuildForOne(d) ==
    /\ docs[d].at = "building"
    /\ Change(d, [docs[d] EXCEPT !.at = "open", !.words = row.words, !.sealed = row.sent])
    /\ at' = [r \in Readers |-> IF of[r] = d THEN Inside(r) ELSE at[r]]
    /\ of' = [r \in Readers |-> IF of[r] = d THEN Nil ELSE of[r]]
    /\ mine' = [r \in Readers |-> IF of[r] = d THEN d ELSE mine[r]]
    /\ UNCHANGED <<row, accepts, live, word, by, fate, bytes, named, fails, ousted>>

Waiting(d) == {r \in Readers : at[r] \in {"building", "joining"} /\ of[r] = d}

(* build() has read the row, and everybody waiting holds the document.     *)
Build(d) ==
    /\ docs[d].at = "building"
    /\ Change(d, [docs[d] EXCEPT !.at = "open", !.words = row.words, !.sealed = row.sent,
                                 !.readers = Cardinality(Waiting(d))])
    /\ at' = [r \in Readers |-> IF r \in Waiting(d) THEN Inside(r) ELSE at[r]]
    /\ of' = [r \in Readers |-> IF r \in Waiting(d) THEN Nil ELSE of[r]]
    /\ mine' = [r \in Readers |-> IF r \in Waiting(d) THEN d ELSE mine[r]]
    /\ UNCHANGED <<row, accepts, live, word, by, fate, bytes, named, fails, ousted>>

(* The row could not be read: nobody holds anything.                       *)
BuildFails(d) ==
    /\ docs[d].at = "building" /\ fails < MaxFails
    /\ fails' = fails + 1
    /\ live' = Nil
    /\ Change(d, [docs[d] EXCEPT !.at = "gone"])
    /\ at' = [r \in Readers |-> IF r \in Waiting(d) THEN "left" ELSE at[r]]
    /\ of' = [r \in Readers |-> IF r \in Waiting(d) THEN Nil ELSE of[r]]
    /\ UNCHANGED <<row, accepts, mine, word, by, fate, bytes, named, ousted>>

-----------------------------------------------------------------------------
(* A connection's next frame; its frames are handled one at a time.        *)
Type(c) ==
    /\ at[c] = "in"
    /\ \E w \in Words :
          /\ MayType(w)
          /\ by' = [by EXCEPT ![w] = WriterOf[c]]
          /\ fate' = [fate EXCEPT ![w] = "sent"]
          /\ word' = [word EXCEPT ![c] = w]
    /\ at' = [at EXCEPT ![c] = "frame"]
    /\ UNCHANGED <<row, accepts, docs, live, mine, of, bytes, named, fails, ousted>>

Answered(c, outcome) ==
    /\ fate' = [fate EXCEPT ![word[c]] = outcome]
    /\ word' = [word EXCEPT ![c] = Nil]
    /\ Goto(c, "in", Nil)

(* A word is taken, or taken at risk: with no acceptance of its writer     *)
(* held, as that of another tab of theirs is still on its way, or while    *)
(* another document of the record is being stored.                         *)
Outcome(c, d, doc) ==
    IF Overtaken(d) \/ ~ \E id \in doc.acceptances : by[id] = WriterOf[c]
    THEN "risked" ELSE "taken"

(* Mutant: a frame does not wait for the send that is deciding.            *)
TakenAtOnce(c, d, doc) ==
    /\ \/ doc.sealed /\ Answered(c, "refused") /\ Change(d, doc)
       \/ /\ ~doc.sealed
          /\ Answered(c, Outcome(c, d, doc))
          /\ Change(d, [doc EXCEPT !.words = @ \cup {word[c]}, !.dirty = TRUE, !.timer = TRUE,
                                   !.writers = @ \cup {WriterOf[c]}, !.late = row.sent])
    /\ UNCHANGED <<row, accepts, live, mine, by, bytes, named, fails, ousted>>

(* The end of apply(): refused by a sent report, held by a send that is    *)
(* deciding, or applied, which arms the timer.                             *)
Taken(c, d, doc) ==
    /\ \/ doc.sealed /\ Answered(c, "refused") /\ Change(d, doc)
       \/ /\ ~doc.sealed /\ doc.deciding
          /\ Goto(c, "held", d) /\ Change(d, doc) /\ UNCHANGED <<word, fate>>
       \/ /\ ~doc.sealed /\ ~doc.deciding
          /\ Answered(c, Outcome(c, d, doc))
          /\ Change(d, [doc EXCEPT !.words = @ \cup {word[c]}, !.dirty = TRUE, !.timer = TRUE,
                                   !.writers = @ \cup {WriterOf[c]}, !.late = row.sent])
    /\ UNCHANGED <<row, accepts, live, mine, by, bytes, named, fails, ousted>>

(* apply(): the first frame of a writer since the last store waits for     *)
(* their acceptance to be recorded.  No document in the map is a throw.    *)
Apply(c) ==
    /\ at[c] = "frame"
    /\ \/ /\ live = Nil
          /\ Answered(c, "thrown")
          /\ UNCHANGED <<row, accepts, docs, live, mine, by, bytes, named, fails, ousted>>
       \/ /\ live # Nil /\ docs[live].at = "open"
          /\ docs[live].sealed \/ WriterOf[c] \in docs[live].accepted
          /\ Taken(c, live, docs[live])
       \/ /\ live # Nil /\ docs[live].at = "open"
          /\ ~docs[live].sealed /\ WriterOf[c] \notin docs[live].accepted
          /\ Change(live, [docs[live] EXCEPT !.accepted = @ \cup {WriterOf[c]}])
          /\ Goto(c, "accepting", live)
          /\ UNCHANGED <<row, accepts, live, mine, word, by, fate, bytes, named, fails, ousted>>

(* The acceptance is stored; it is known by the word it was stored for.    *)
Accept(c) ==
    /\ at[c] = "accepting"
    /\ accepts' = accepts \cup {[id |-> word[c], writer |-> WriterOf[c]]}
    /\ at' = [at EXCEPT ![c] = "accepted"]
    /\ UNCHANGED <<row, docs, live, mine, of, word, by, fate, bytes, named, fails, ousted>>

AcceptFails(c) ==
    /\ at[c] = "accepting" /\ fails < MaxFails
    /\ fails' = fails + 1
    /\ Change(of[c], [docs[of[c]] EXCEPT !.accepted = @ \ {WriterOf[c]}])
    /\ Answered(c, "thrown")
    /\ UNCHANGED <<row, accepts, live, mine, by, bytes, named, ousted>>

(* apply() goes on with the acceptance it stored.                          *)
Accepted(c) ==
    /\ at[c] = "accepted"
    /\ Taken(c, of[c], [docs[of[c]] EXCEPT !.acceptances = @ \cup {word[c]}])

(* A send has settled, and the frame it held is applied from the start.    *)
Resume(c) ==
    /\ at[c] = "held" /\ ~docs[of[c]].deciding
    /\ Goto(c, "frame", Nil)
    /\ UNCHANGED <<row, accepts, docs, live, mine, word, by, fate, bytes, named, fails, ousted>>

-----------------------------------------------------------------------------
(* flush(): the document the map holds is stored after the stores queued.  *)
Flushing(doc, who) == [doc EXCEPT !.saving = Append(@, [who |-> who, store |-> TRUE])]

Timer(d) ==
    /\ docs[d].timer
    /\ live # Nil => docs[live].at = "open"
    /\ docs' = [x \in Docs |->
          LET doc == IF x = d THEN [docs[x] EXCEPT !.timer = FALSE] ELSE docs[x]
          IN  IF x = live THEN Flushing(doc, "timer") ELSE doc]
    /\ UNCHANGED <<row, accepts, live, at, mine, of, word, by, fate, bytes, named, fails, ousted>>

Finished(doc) == [doc EXCEPT !.saving = Tail(@), !.store = NoStore]

(* Whoever waited for the store at the head of the queue goes on.          *)
Wakes(d) ==
    LET who == Head(docs[d].saving).who
    IN  at' = IF who \in Readers THEN [at EXCEPT ![who] = "flushed"] ELSE at

Starts(d) == docs[d].saving # <<>> /\ docs[d].store.at = "none"

(* A seal with nothing to store waits for the stores before it; a document *)
(* nobody here wrote is not stored for a connection that closes.           *)
NothingToStore(d) ==
    /\ Starts(d)
    /\ ~Head(docs[d].saving).store
         \/ (docs[d].writers = {} /\ Head(docs[d].saving).who \in Conns)
    /\ Change(d, Finished(docs[d]))
    /\ Wakes(d)
    /\ UNCHANGED <<row, accepts, live, mine, of, word, by, fate, bytes, named, fails, ousted>>

(* store(): the acceptances the database holds are read.                   *)
AskAccepted(d) ==
    /\ Starts(d) /\ Head(docs[d].saving).store
    /\ docs[d].writers # {} \/ Head(docs[d].saving).who \notin Conns
    /\ Change(d, [docs[d] EXCEPT !.store = [at |-> "asked", ids |-> {a.id : a \in accepts},
                                            names |-> {a.writer : a \in accepts},
                                            local |-> {}, own |-> {}, words |-> {}]])
    /\ UNCHANGED <<row, accepts, live, at, mine, of, word, by, fate, bytes, named, fails, ousted>>

AskFails(d) ==
    /\ Starts(d) /\ Head(docs[d].saving).store /\ fails < MaxFails
    /\ fails' = fails + 1
    /\ Change(d, Finished(docs[d]))
    /\ Wakes(d)
    /\ UNCHANGED <<row, accepts, live, mine, of, word, by, fate, bytes, named, ousted>>

(* What comes of the words a document holds and the row does not.          *)
Unstored(doc, outcome) ==
    [w \in Words |->
        IF w \in doc.words \ row.words /\ fate[w] \in {"taken", "risked"}
        THEN outcome ELSE fate[w]]

(* An acceptance held here that the answer does not have is taken for one  *)
(* that lapsed, and a writer without one is named by nothing.  Then what   *)
(* was written since is the next store's.                                  *)
Name(d) ==
    LET doc == docs[d]
        st == doc.store
        told == IF doc.acceptances \subseteq st.ids THEN doc.unsaved ELSE "lost"
    IN  /\ st.at = "asked"
        /\ \/ /\ st.names = {}
              /\ Change(d, [Finished(doc) EXCEPT
                    !.unsaved = told, !.acceptances = {}, !.writers = {}, !.dirty = FALSE,
                    !.accepted = @ \ doc.writers])
              /\ fate' = IF told = "lost" THEN Unstored(doc, "told") ELSE fate
              /\ Wakes(d)
           \/ /\ st.names # {}
              /\ Change(d, [doc EXCEPT
                    !.unsaved = told, !.acceptances = {}, !.writers = {}, !.accepted = {},
                    !.dirty = FALSE,
                    !.store = [st EXCEPT !.at = "writing", !.local = doc.writers \cap st.names,
                                         !.own = doc.acceptances \cap st.ids]])
              /\ UNCHANGED <<at, fate>>
        /\ UNCHANGED <<row, accepts, live, mine, of, word, by, bytes, named, fails, ousted>>

(* The document as it is now is what will be stored.                       *)
Encode(d) ==
    /\ docs[d].store.at = "writing"
    /\ Change(d, [docs[d] EXCEPT !.store = [@ EXCEPT !.at = "encoded", !.words = docs[d].words]])
    /\ UNCHANGED <<row, accepts, live, at, mine, of, word, by, fate, bytes, named, fails, ousted>>

(* What was encoded takes the row's place, each writer is named and the    *)
(* acceptances go, in one transaction.  The prose role may name a writer   *)
(* only while an acceptance says so.                                       *)
Write(d) ==
    LET doc == docs[d]
        st == doc.store
    IN  /\ st.at = "encoded" /\ ~row.sent
        /\ st.names \subseteq {a.writer : a \in accepts}
        /\ row' = [row EXCEPT !.words = st.words]
        /\ accepts' = {a \in accepts : a.id \notin st.ids}
        /\ named' = named \cup {w \in st.words : by[w] \in st.names}
        /\ Change(d, [Finished(doc) EXCEPT !.unsaved = "no"])
        /\ Wakes(d)
        /\ UNCHANGED <<live, mine, of, word, by, fate, bytes, fails, ousted>>

(* The store refuses a report that was sent: nothing more is taken.        *)
WriteRefused(d) ==
    LET doc == docs[d]
    IN  /\ doc.store.at = "encoded" /\ row.sent
        /\ accepts' = {a \in accepts : a.id \notin doc.store.own}
        /\ Change(d, [Finished(doc) EXCEPT !.sealed = TRUE,
                                      !.unsaved = IF doc.late THEN "lost" ELSE @])
        /\ Wakes(d)
        /\ UNCHANGED <<row, live, mine, of, word, by, fate, bytes, named, fails, ousted>>

(* Mutant: a document that could not be stored is not dirty again.         *)
WriteFailsClean(d) ==
    LET doc == docs[d]
        st == doc.store
    IN  /\ st.at \in {"writing", "encoded"} /\ ~row.sent /\ fails < MaxFails
        /\ fails' = fails + 1
        /\ Change(d, [Finished(doc) EXCEPT
              !.acceptances = @ \cup st.own, !.accepted = @ \cup st.local,
              !.writers = @ \cup st.local])
        /\ Wakes(d)
        /\ UNCHANGED <<row, accepts, live, mine, of, word, by, fate, bytes, named, ousted>>

(* What could not be stored is dirty again, and tried again later while    *)
(* somebody holds it.                                                      *)
WriteFails(d) ==
    LET doc == docs[d]
        st == doc.store
        refused == ~(st.names \subseteq {a.writer : a \in accepts})
    IN  /\ st.at \in {"writing", "encoded"} /\ ~row.sent /\ (refused \/ fails < MaxFails)
        /\ fails' = IF refused THEN fails ELSE fails + 1
        /\ Change(d, [Finished(doc) EXCEPT
              !.dirty = TRUE, !.acceptances = @ \cup st.own, !.accepted = @ \cup st.local,
              !.writers = @ \cup st.local,
              !.unsaved = IF @ = "no" THEN "unsaved" ELSE @,
              !.timer = doc.readers > 0])
        /\ fate' = IF doc.at = "gone" THEN Unstored(doc, "unsaved") ELSE fate
        /\ Wakes(d)
        /\ UNCHANGED <<row, accepts, live, mine, of, word, by, bytes, named, ousted>>

-----------------------------------------------------------------------------
(* The document is dropped: whichever the map holds now leaves it.  Words  *)
(* whose last save failed are given up, and acceptances with nothing left  *)
(* to store are removed.                                                   *)
Dropped(r, d, doc) ==
    /\ live' = Nil
    /\ Change(d, [doc EXCEPT !.at = "gone"])
    /\ fate' = IF doc.dirty THEN Unstored(doc, "unsaved") ELSE fate
    /\ accepts' = IF doc.dirty THEN accepts
                  ELSE {a \in accepts : a.id \notin doc.acceptances}
    /\ Goto(r, "left", Nil)

(* release(): the last one out stores what is not stored.                  *)
Release(r) ==
    /\ at[r] = IF r \in Conns THEN "in" ELSE "settled"
    /\ \/ /\ live = Nil
          /\ Goto(r, "left", Nil)
          /\ UNCHANGED <<accepts, docs, live, fate>>
       \/ /\ live # Nil /\ docs[live].at = "open"
          /\ LET doc == [docs[live] EXCEPT !.readers = @ - 1]
             IN  \/ /\ doc.readers > 0
                    /\ Change(live, doc) /\ Goto(r, "left", Nil)
                    /\ UNCHANGED <<accepts, live, fate>>
                 \/ /\ doc.readers <= 0 /\ doc.dirty
                    /\ Change(live, Flushing([doc EXCEPT !.timer = FALSE], r))
                    /\ Goto(r, "leaving", live)
                    /\ UNCHANGED <<accepts, live, fate>>
                 \/ /\ doc.readers <= 0 /\ ~doc.dirty
                    /\ Dropped(r, live, [doc EXCEPT !.timer = FALSE])
    /\ UNCHANGED <<row, mine, word, by, bytes, named, fails, ousted>>

Leaves(r) == at[r] = "flushed" /\ (r \in Sends => mine[r] = Nil)

(* Mutant: a reader who came during the store is not asked about.          *)
LeaveAtOnce(r) ==
    /\ Leaves(r)
    /\ Dropped(r, of[r], docs[of[r]])
    /\ ousted' = (ousted \/ live \notin {Nil, of[r]})
    /\ UNCHANGED <<row, mine, word, by, bytes, named, fails>>

(* Asked again after the store: a reader may have come meanwhile.          *)
Leave(r) ==
    /\ Leaves(r)
    /\ \/ /\ docs[of[r]].readers > 0
          /\ Goto(r, "left", Nil)
          /\ UNCHANGED <<accepts, docs, live, fate, ousted>>
       \/ /\ docs[of[r]].readers <= 0
          /\ Dropped(r, of[r], docs[of[r]])
          /\ ousted' = (ousted \/ live \notin {Nil, of[r]})
    /\ UNCHANGED <<row, mine, word, by, bytes, named, fails>>

-----------------------------------------------------------------------------
(* seal(): the document is held still once what was typed is stored.  One  *)
(* send at a time decides.  No document in the map is a throw.             *)
SealDoc(s) ==
    /\ at[s] = "sealing"
    /\ \/ /\ live = Nil
          /\ Goto(s, "left", Nil)
          /\ mine' = [mine EXCEPT ![s] = Nil]
          /\ UNCHANGED docs
       \/ /\ live # Nil /\ docs[live].at = "open" /\ ~docs[live].deciding
          /\ Change(live, [docs[live] EXCEPT !.deciding = TRUE,
                             !.saving = Append(@, [who |-> s, store |-> docs[live].dirty])])
          /\ Goto(s, "flushing", live)
          /\ UNCHANGED mine
    /\ UNCHANGED <<row, accepts, live, word, by, fate, bytes, named, fails, ousted>>

(* Mutant: a send that cannot be prepared lets nobody go on.               *)
SealedStuck(s) ==
    /\ at[s] = "flushed" /\ mine[s] # Nil
    /\ at' = [at EXCEPT ![s] = IF docs[of[s]].dirty THEN "settled" ELSE "deciding"]
    /\ mine' = IF docs[of[s]].dirty THEN [mine EXCEPT ![s] = Nil] ELSE mine
    /\ bytes' = [bytes EXCEPT ![s] = docs[of[s]].words]
    /\ UNCHANGED <<row, accepts, docs, live, of, word, by, fate, named, fails, ousted>>

(* What the send stores is taken, unless the store failed.                 *)
Sealed(s) ==
    /\ at[s] = "flushed" /\ mine[s] # Nil
    /\ \/ /\ docs[of[s]].dirty
          /\ Change(of[s], [docs[of[s]] EXCEPT !.deciding = FALSE])
          /\ at' = [at EXCEPT ![s] = "settled"] /\ mine' = [mine EXCEPT ![s] = Nil]
          /\ UNCHANGED bytes
       \/ /\ ~docs[of[s]].dirty
          /\ bytes' = [bytes EXCEPT ![s] = docs[of[s]].words]
          /\ at' = [at EXCEPT ![s] = "deciding"]
          /\ UNCHANGED <<docs, mine>>
    /\ UNCHANGED <<row, accepts, live, of, word, by, fate, named, fails, ousted>>

(* The send's transaction: the report is stamped with the words sealed,    *)
(* or a part of it moved, or it was sent already, and it is not.           *)
Stamp(s) ==
    /\ at[s] = "deciding"
    /\ \/ /\ ~row.sent
          /\ row' = [words |-> bytes[s], sent |-> TRUE]
          /\ at' = [at EXCEPT ![s] = "stamped"]
       \/ at' = [at EXCEPT ![s] = "refused"] /\ UNCHANGED row
    /\ UNCHANGED <<accepts, docs, live, mine, of, word, by, fate, bytes, named, fails, ousted>>

(* Mutant: a send that was refused does not let go of the document.        *)
SettleWhenSent(s) ==
    /\ at[s] \in {"stamped", "refused"}
    /\ Change(of[s], IF at[s] = "stamped"
                     THEN [docs[of[s]] EXCEPT !.sealed = TRUE, !.dirty = FALSE, !.timer = FALSE,
                                              !.deciding = FALSE]
                     ELSE docs[of[s]])
    /\ at' = [at EXCEPT ![s] = "settled"] /\ mine' = [mine EXCEPT ![s] = Nil]
    /\ UNCHANGED <<row, accepts, live, of, word, by, fate, bytes, named, fails, ousted>>

(* settle(): what waited goes on, against a report that is sent or is not. *)
Settle(s) ==
    /\ at[s] \in {"stamped", "refused"}
    /\ Change(of[s], IF at[s] = "stamped"
                     THEN [docs[of[s]] EXCEPT !.sealed = TRUE, !.dirty = FALSE, !.timer = FALSE,
                                              !.deciding = FALSE]
                     ELSE [docs[of[s]] EXCEPT !.deciding = FALSE])
    /\ at' = [at EXCEPT ![s] = "settled"] /\ mine' = [mine EXCEPT ![s] = Nil]
    /\ UNCHANGED <<row, accepts, live, of, word, by, fate, bytes, named, fails, ousted>>

-----------------------------------------------------------------------------
(* Whoever a store woke goes on before any other answer arrives.           *)
Woken == \E r \in Readers : at[r] = "flushed"

ProseNext ==
    \/ \E r \in Readers : Leave(r)
    \/ \E s \in Sends : Sealed(s)
    \/ /\ ~Woken
       /\ \/ \E r \in Readers : Open(r) \/ Release(r)
          \/ \E c \in Conns : Type(c) \/ Apply(c) \/ Accept(c) \/ AcceptFails(c)
                              \/ Accepted(c) \/ Resume(c)
          \/ \E s \in Sends : SealDoc(s) \/ Stamp(s) \/ Settle(s)
          \/ \E d \in Docs : Build(d) \/ BuildFails(d) \/ Timer(d) \/ NothingToStore(d)
                             \/ AskAccepted(d) \/ AskFails(d) \/ Name(d) \/ Encode(d)
                             \/ Write(d) \/ WriteRefused(d) \/ WriteFails(d)

ProseSpec == ProseInit /\ [][ProseNext]_proseVars

(* What goes on by itself: a statement is answered or times out, a promise *)
(* settles and a timer fires.  Nobody has to open, type or leave.          *)
Continue ==
    \/ \E r \in Readers : Leave(r)
    \/ \E c \in Conns : Apply(c) \/ Accept(c) \/ Accepted(c) \/ Resume(c)
    \/ \E s \in Sends : Sealed(s) \/ SealDoc(s) \/ Stamp(s) \/ Settle(s) \/ Release(s)
    \/ \E d \in Docs : Build(d) \/ Timer(d) \/ NothingToStore(d) \/ AskAccepted(d)
                       \/ Name(d) \/ Encode(d) \/ Write(d) \/ WriteRefused(d) \/ WriteFails(d)

ProseFairSpec == ProseSpec /\ WF_proseVars(ProseNext /\ Continue)

-----------------------------------------------------------------------------
Fates == {"untyped", "sent", "taken", "risked", "refused", "thrown", "unsaved", "told"}

ProseTypeOK ==
    /\ row \in [words : SUBSET Words, sent : BOOLEAN]
    /\ accepts \subseteq [id : Words, writer : Writers]
    /\ live \in Docs \cup {Nil}
    /\ \A d \in Docs : docs[d].readers \in 0..Cardinality(Readers)
    /\ word \in [Readers -> Words \cup {Nil}]
    /\ mine \in [Readers -> Docs \cup {Nil}]
    /\ of \in [Readers -> Docs \cup {Nil}]
    /\ by \in [Words -> Writers \cup {Nil}]
    /\ fate \in [Words -> Fates]
    /\ bytes \in [Sends -> SUBSET Words]
    /\ named \subseteq Words
    /\ fails \in 0..MaxFails
    /\ ousted \in BOOLEAN

(* The document in the map, or none.                                       *)
InMap == IF live = Nil THEN Unbuilt ELSE docs[live]

(* prose.service.ts open(): everybody who has the record open has the one  *)
(* document, which the map holds.                                          *)
OneDocument ==
    \A c \in Conns :
        at[c] \in {"in", "frame", "accepting", "accepted", "held"} => mine[c] = live

(* Every document is well formed and there is one of the record for all of *)
(* its readers, whoever comes and goes while the row is read or stored -   *)
(* until a leave that waited for a store takes a document opened meanwhile *)
(* out of the map.                                                         *)
DocumentsKept == ousted \/ (ProseTypeOK /\ OneDocument)

(* The words a store under way will write.                                 *)
Storing(doc) ==
    IF doc.store.at = "writing" THEN doc.words
    ELSE IF doc.store.at = "encoded" THEN doc.store.words ELSE {}

Kept(w) ==
    \/ w \in row.words
    \/ w \in InMap.words /\ InMap.dirty
    \/ \E d \in Docs : w \in Storing(docs[d])

(* live/spec.md: a word accepted is stored, or held by a document that     *)
(* still has it to store, or everybody with it open was told it is not -   *)
(* unless its last save failed as the last of them left.                   *)
WordsAreKeptOrTold == \A w \in Words : fate[w] \in {"taken", "risked"} => Kept(w)

(* The same of every word that was not taken at risk, and was not in       *)
(* memory only when the record was opened over the store of the document   *)
(* before.                                                                 *)
SureWordsAreKept == ousted \/ \A w \in Words : fate[w] = "taken" => Kept(w)

(* live/spec.md: words the application accepted are stored.                *)
AcceptedWordsAreKept == \A w \in Words : fate[w] \in {"taken", "risked", "told"} => Kept(w)

(* prose.service.ts release(): what is in memory is never newer than the   *)
(* row once nobody is holding it.                                          *)
DroppedIsStored ==
    live = Nil => \A w \in Words : fate[w] = "taken" => w \in row.words

(* report/spec.md: prose typed while a report is sent is in what was sent  *)
(* or is refused, but for what was taken at risk.                          *)
SentHoldsWhatWasTaken ==
    ousted \/ (row.sent => \A w \in Words : fate[w] = "taken" => w \in row.words)

(* live/spec.md: every analyst whose words are stored is named in the      *)
(* record of changes, by the act that stored them or one that must follow. *)
StoredWordsAreNamed ==
    \A w \in row.words :
        \/ w \in named
        \/ by[w] \in InMap.writers
        \/ InMap.store.at \in {"writing", "encoded"} /\ by[w] \in InMap.store.names

(* prose.service.ts seal(), settle(): a frame that waits for a send, for   *)
(* its writer's acceptance or for a store is applied or answered.          *)
FramesAreAnswered == \A w \in Words : fate[w] = "sent" ~> fate[w] # "sent"

(* prose.service.ts seal(): a send that waits for another, or for what is  *)
(* being stored, is decided and gives the document back.                   *)
SendsSettle == \A s \in Sends : at[s] = "sealing" ~> at[s] = "left"

(* No frame and no send waits for ever on another.                          *)
NothingWaitsForEver == FramesAreAnswered /\ SendsSettle

(* live/spec.md: an analyst is told their words cannot be stored only when *)
(* they cannot.                                                            *)
LostIsTrue == \A d \in Docs : docs[d].unsaved = "lost" => row.sent
=============================================================================
