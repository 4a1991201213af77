--------------------------- MODULE RowDraftProofs ---------------------------
(***************************************************************************)
(* No write of a form takes the place of a value its analyst had not read. *)
(*                                                                         *)
(* A hold says what its field held at the version it was read at, and a    *)
(* tab goes on from a version only where its own answer said so.  The      *)
(* inductive invariant says both of every hold and every request; it is    *)
(* kept because a version, once written, never changes.                    *)
(*                                                                         *)
(* While nothing is lost, a tab also knows of every version it wrote but   *)
(* one whose answer is on its way (NoneLost), so that a refusal is always  *)
(* another tab's doing.                                                    *)
(***************************************************************************)
EXTENDS RowDraft, TLAPS, SequenceTheorems, WellFoundedInduction

Entry == [by : Tabs \cup {None}, val : [Fields -> Values]]

Logs == Seq(Entry)

HoldsAt(L) ==
    [base : Values, read : 1..Len(L), mine : Values, sending : BOOLEAN, refused : BOOLEAN,
     again : BOOLEAN, failed : BOOLEAN,
     theirs : {None} \cup [value : Values, version : 1..Len(L)]]

(* A hold of field f says what the field held when it was read.            *)
HeldOK(L, f, x) ==
    /\ x \in HoldsAt(L)
    /\ x.base = L[x.read].val[f]
    /\ x.theirs # None => x.theirs.value = L[x.theirs.version].val[f]

HoldOK(L, f, x) == x = None \/ HeldOK(L, f, x)

FormOK(L, h) == h = [f \in Fields |-> h[f]] /\ \A f \in Fields : HoldOK(L, f, h[f])

(* A record read is one of the versions there were.                        *)
ReadOK(L, s) ==
    /\ s \in [version : 1..Len(L), val : [Fields -> Values]]
    /\ s.val = L[s.version].val

Requests ==
    [tab : Tabs, at : {"queued", "out", "done", "refused"}, read : Nat, stated : Nat,
     vals : UNION {[S -> Values] : S \in SUBSET Fields},
     over : UNION {[S -> Values] : S \in SUBSET Fields},
     seen : UNION {[S -> Nat] : S \in SUBSET Fields}]

FieldsOK(L, q) ==
    \A f \in DOMAIN q.vals :
        /\ f \in Fields /\ q.vals[f] \in Values
        /\ q.seen[f] \in q.read..Len(L)
        /\ q.over[f] = L[q.seen[f]].val[f]

(* A write goes on from the version read through its own tab's versions.   *)
StatedOK(L, q) ==
    q.at # "queued" =>
        /\ q.stated \in q.read..Len(L)
        /\ \A v \in (q.read + 1)..q.stated : L[v].by = q.tab

DoneOK(L, q) ==
    q.at = "done" =>
        /\ q.stated + 1 <= Len(L)
        /\ L[q.stated + 1].by = q.tab
        /\ \A f \in DOMAIN q.vals : L[q.stated + 1].val[f] = q.vals[f]

AskedOK(L, q) ==
    /\ q \in Requests /\ q.read \in 1..Len(L)
    /\ FieldsOK(L, q) /\ StatedOK(L, q) /\ DoneOK(L, q)

LaneOK(L, t, s) ==
    /\ s \in Seq(Requests)
    /\ \A i \in 1..Len(s) : s[i].tab = t /\ AskedOK(L, s[i])

MovedOK(L, t, m) == \A v \in m : v \in 1..(Len(L) - 1) /\ L[v + 1].by = t

(* All but the forms and the lanes.                                        *)
RestOK ==
    /\ log \in Logs /\ Len(log) >= 1
    /\ served = [t \in Tabs |-> served[t]] /\ \A t \in Tabs : ReadOK(log, served[t])
    /\ fetch = [t \in Tabs |-> fetch[t]]
    /\ \A t \in Tabs : fetch[t] # None => ReadOK(log, fetch[t])
    /\ \A q \in stray : q.at = "out" /\ AskedOK(log, q)
    /\ moved = [t \in Tabs |-> moved[t]] /\ \A t \in Tabs : MovedOK(log, t, moved[t])
    /\ owed \subseteq Tabs

StateOK ==
    /\ RestOK
    /\ holds = [t \in Tabs |-> holds[t]] /\ \A t \in Tabs : FormOK(log, holds[t])
    /\ queue = [t \in Tabs |-> queue[t]] /\ \A t \in Tabs : LaneOK(log, t, queue[t])

-----------------------------------------------------------------------------
(* A version once written stays as it was.                                 *)
LEMMA Grown ==
    ASSUME NEW L \in Logs, NEW e \in Entry
    PROVE  /\ Append(L, e) \in Logs /\ Len(Append(L, e)) = Len(L) + 1
           /\ Append(L, e)[Len(L) + 1] = e
           /\ \A v \in 1..Len(L) : Append(L, e)[v] = L[v]
  BY AppendProperties DEF Logs

LEMMA HoldGrows ==
    ASSUME NEW L \in Logs, NEW e \in Entry, NEW f, NEW x, HoldOK(L, f, x)
    PROVE  HoldOK(Append(L, e), f, x)
<1> DEFINE M == Append(L, e)
<1>1. /\ Len(L) \in Nat /\ Len(M) = Len(L) + 1
      /\ \A v \in 1..Len(L) : M[v] = L[v]
  BY Grown DEF Logs
<1> HIDE DEF M
<1>2. ASSUME x # None PROVE HoldOK(M, f, x)
  <2>1. x \in HoldsAt(L) /\ x.base = L[x.read].val[f]
        /\ (x.theirs # None => x.theirs.value = L[x.theirs.version].val[f])
    BY <1>2 DEF HoldOK, HeldOK
  <2>2. x.read \in 1..Len(L)
    BY <2>1 DEF HoldsAt
  <2>3. x.theirs # None => x.theirs.version \in 1..Len(L)
    BY <2>1 DEF HoldsAt
  <2>4. 1..Len(L) \subseteq 1..Len(M)
    BY <1>1
  <2>5. x \in HoldsAt(M)
    BY <2>1, <2>4 DEF HoldsAt
  <2> QED BY <2>1, <2>2, <2>3, <2>5, <1>1 DEF HoldOK, HeldOK
<1> QED BY <1>2 DEF HoldOK, HeldOK, M

LEMMA AskedGrows ==
    ASSUME NEW L \in Logs, NEW e \in Entry, NEW q, AskedOK(L, q)
    PROVE  AskedOK(Append(L, e), q)
<1> DEFINE M == Append(L, e)
<1>1. /\ Len(L) \in Nat /\ Len(M) = Len(L) + 1
      /\ \A v \in 1..Len(L) : M[v] = L[v]
  BY Grown DEF Logs
<1> HIDE DEF M
<1>2. q.read \in 1..Len(L) /\ q \in Requests /\ q.stated \in Nat
  BY DEF AskedOK, Requests
<1>3. FieldsOK(M, q)
  <2> SUFFICES ASSUME NEW f \in DOMAIN q.vals
               PROVE  /\ f \in Fields /\ q.vals[f] \in Values /\ q.seen[f] \in q.read..Len(M)
                      /\ q.over[f] = M[q.seen[f]].val[f]
    BY DEF FieldsOK
  <2>1. /\ f \in Fields /\ q.vals[f] \in Values /\ q.seen[f] \in q.read..Len(L)
        /\ q.over[f] = L[q.seen[f]].val[f]
    BY DEF AskedOK, FieldsOK
  <2>2. q.seen[f] \in 1..Len(L)
    BY <2>1, <1>1, <1>2
  <2> QED BY <2>1, <2>2, <1>1, <1>2
<1>4. StatedOK(M, q)
  BY <1>1, <1>2 DEF AskedOK, StatedOK
<1>5. DoneOK(M, q)
  BY <1>1, <1>2 DEF AskedOK, DoneOK
<1>6. q.read \in 1..Len(M)
  BY <1>1, <1>2
<1> QED BY <1>2, <1>3, <1>4, <1>5, <1>6 DEF AskedOK, M

LEMMA ReadGrows ==
    ASSUME NEW L \in Logs, NEW e \in Entry, NEW s, ReadOK(L, s)
    PROVE  ReadOK(Append(L, e), s)
  BY Grown DEF ReadOK, Logs

LEMMA MovedGrows ==
    ASSUME NEW L \in Logs, NEW e \in Entry, NEW t, NEW m, MovedOK(L, t, m)
    PROVE  MovedOK(Append(L, e), t, m)
  BY Grown DEF MovedOK, Logs

-----------------------------------------------------------------------------
LEMMA FreshOK ==
    ASSUME NEW L \in Logs, NEW f \in Fields, NEW read \in 1..Len(L), NEW mine \in Values,
           NEW again \in BOOLEAN
    PROVE  HeldOK(L, f, Fresh(L[read].val[f], read, mine, again))
<1>1. L[read] \in Entry
  BY DEF Logs
<1>2. L[read].val[f] \in Values
  BY <1>1 DEF Entry
<1> QED BY <1>2 DEF HoldOK, HeldOK, Fresh, HoldsAt

(* A hold that is judged is dropped, moved to the version served, or shows *)
(* what was served.                                                        *)
LEMMA JudgeOK ==
    ASSUME NEW L \in Logs, NEW f \in Fields, NEW x, HoldOK(L, f, x), NEW s, ReadOK(L, s)
    PROVE  HoldOK(L, f, Judge(x, s.val[f], s.version))
<1>1. CASE x = None
  BY <1>1 DEF Judge, HoldOK, HeldOK
<1>2. CASE x # None
  <2>1. /\ x \in HoldsAt(L) /\ x.base = L[x.read].val[f]
        /\ (x.theirs # None => x.theirs.value = L[x.theirs.version].val[f])
    BY <1>2 DEF HoldOK, HeldOK
  <2>2. /\ x.base \in Values /\ x.read \in 1..Len(L) /\ x.mine \in Values
        /\ x.refused \in BOOLEAN /\ x.again \in BOOLEAN
    BY <2>1 DEF HoldsAt
  <2>3. s.version \in 1..Len(L) /\ s.val[f] = L[s.version].val[f] /\ s.val[f] \in Values
    BY DEF ReadOK
  <2>4. CASE s.version <= x.read \/ x.sending
    BY <1>2, <2>4 DEF Judge
  <2>5. CASE ~(s.version <= x.read \/ x.sending) /\ (s.val[f] = x.mine \/ x.mine = x.base)
    BY <1>2, <2>5 DEF Judge, HoldOK, HeldOK
  <2>6. CASE /\ ~(s.version <= x.read \/ x.sending) /\ ~(s.val[f] = x.mine \/ x.mine = x.base)
             /\ s.val[f] = x.base
    <3>1. Judge(x, s.val[f], s.version) =
            Fresh(L[s.version].val[f], s.version, x.mine, x.refused \/ x.again)
      BY <1>2, <2>3, <2>6 DEF Judge
    <3>2. (x.refused \/ x.again) \in BOOLEAN
      OBVIOUS
    <3> QED BY <2>2, <2>3, <3>1, <3>2, FreshOK DEF HoldOK
  <2>7. CASE /\ ~(s.version <= x.read \/ x.sending) /\ ~(s.val[f] = x.mine \/ x.mine = x.base)
             /\ s.val[f] # x.base
    <3>1. Judge(x, s.val[f], s.version) =
            [Fresh(x.base, x.read, x.mine, FALSE) EXCEPT
                !.theirs = [value |-> s.val[f], version |-> s.version]]
      BY <1>2, <2>7 DEF Judge
    <3> DEFINE y == [base |-> x.base, read |-> x.read, mine |-> x.mine, sending |-> FALSE,
                     refused |-> FALSE, again |-> FALSE,
                     theirs |-> [value |-> s.val[f], version |-> s.version], failed |-> FALSE]
    <3>2. Judge(x, s.val[f], s.version) = y
      BY <3>1 DEF Fresh
    <3>3. [value |-> s.val[f], version |-> s.version] \in [value : Values, version : 1..Len(L)]
      BY <2>3
    <3>4. y \in HoldsAt(L)
      BY <2>2, <3>3 DEF HoldsAt
    <3>5. HoldOK(L, f, y)
      BY <2>1, <2>3, <3>4 DEF HoldOK, HeldOK
    <3> QED BY <3>2, <3>5
  <2> QED BY <2>4, <2>5, <2>6, <2>7
<1> QED BY <1>1, <1>2

LEMMA RedrawnOK ==
    ASSUME NEW L \in Logs, NEW h, FormOK(L, h), NEW s, ReadOK(L, s)
    PROVE  FormOK(L, Reconciled(h, s)) /\ FormOK(L, Redrawn(h, s))
<1>1. FormOK(L, Reconciled(h, s))
  <2> DEFINE j(f) == Judge(h[f], s.val[f], s.version)
  <2>1. \A f \in Fields : HoldOK(L, f, j(f))
    BY JudgeOK DEF FormOK
  <2>2. Reconciled(h, s) = [f \in Fields |-> j(f)]
    BY DEF Reconciled
  <2> HIDE DEF j
  <2> QED BY <2>1, <2>2 DEF FormOK
<1> QED BY <1>1 DEF Redrawn

LEMMA SentOK ==
    ASSUME NEW L \in Logs, NEW h, FormOK(L, h), NEW S \in SUBSET Fields,
           \A f \in S : HeldOK(L, f, h[f])
    PROVE  FormOK(L, Sent(h, S))
<1>1. ASSUME NEW f \in S PROVE HoldOK(L, f, Out(h[f]))
  <2> DEFINE x == h[f]
  <2>1. /\ x \in HoldsAt(L) /\ x.base = L[x.read].val[f]
        /\ (x.theirs # None => x.theirs.value = L[x.theirs.version].val[f])
    BY <1>1 DEF FormOK, HoldOK, HeldOK
  <2> HIDE DEF x
  <2>2. /\ Out(x) \in HoldsAt(L) /\ Out(x).base = x.base /\ Out(x).read = x.read
        /\ Out(x).theirs = x.theirs
    BY <2>1 DEF Out, HoldsAt
  <2>3. HoldOK(L, f, Out(x))
    BY <2>1, <2>2 DEF HoldOK, HeldOK
  <2> QED BY <2>3 DEF x
<1>2. \A f \in Fields : Sent(h, S)[f] = IF f \in S THEN Out(h[f]) ELSE h[f]
  BY DEF Sent
<1>3. \A f \in Fields : HoldOK(L, f, Sent(h, S)[f])
  BY <1>1, <1>2 DEF FormOK
<1>4. Sent(h, S) = [f \in Fields |-> Sent(h, S)[f]]
  BY DEF Sent
<1> QED BY <1>3, <1>4 DEF FormOK

(* Some version is the oldest.                                             *)
LEMMA Oldest ==
    ASSUME NEW T \in SUBSET Nat, T # {}
    PROVE  \E v \in T : \A w \in T : v <= w
<1>1. PICK v \in T : \A w \in T : ~(<<w, v>> \in OpToRel(<, Nat))
  <2> HIDE DEF OpToRel
  <2> QED BY WFMin, NatLessThanWellFounded
<1>2. \A w \in T : ~(w < v)
  BY <1>1 DEF OpToRel
<1> QED BY <1>2

LEMMA RequestOK ==
    ASSUME NEW L \in Logs, NEW t \in Tabs, NEW h, FormOK(L, h), NEW S \in SUBSET Fields,
           S # {}, \A f \in S : HeldOK(L, f, h[f])
    PROVE  AskedOK(L, Request(t, h, S)) /\ Request(t, h, S).tab = t
<1>1. ASSUME NEW f \in S
      PROVE  /\ h[f].read \in 1..Len(L) /\ h[f].mine \in Values /\ h[f].base \in Values
             /\ h[f].base = L[h[f].read].val[f]
  <2>1. h[f] \in HoldsAt(L) /\ h[f].base = L[h[f].read].val[f]
    BY DEF FormOK, HoldOK, HeldOK
  <2> QED BY <2>1 DEF HoldsAt
<1> DEFINE T == {h[f].read : f \in S}
           r == ReadOf(h, S)
<1>2. r \in T /\ \A f \in S : r <= h[f].read
  <2>0. Len(L) \in Nat
    BY DEF Logs
  <2>1. T \in SUBSET Nat /\ T # {}
    BY <1>1, <2>0
  <2>2. \E v \in T : \A f \in S : v <= h[f].read
    <3> HIDE DEF r
    <3>1. PICK v \in T : \A w \in T : v <= w
      <4> HIDE DEF T
      <4> QED BY <2>1, Oldest
    <3> QED BY <3>1
  <2> QED BY <2>2 DEF ReadOf
<1>3. r \in 1..Len(L)
  BY <1>1, <1>2
<1> HIDE DEF T, r
<1> DEFINE q == Request(t, h, S)
<1>4. /\ q.tab = t /\ q.at = "queued" /\ q.read = r /\ q.stated = 0 /\ DOMAIN q.vals = S
      /\ \A f \in S : q.vals[f] = h[f].mine /\ q.over[f] = h[f].base /\ q.seen[f] = h[f].read
  BY DEF Request, r
<1>5. q \in Requests
  <2>0. Len(L) \in Nat
    BY DEF Logs
  <2>1. /\ [f \in S |-> h[f].mine] \in UNION {[R -> Values] : R \in SUBSET Fields}
        /\ [f \in S |-> h[f].base] \in UNION {[R -> Values] : R \in SUBSET Fields}
    BY <1>1
  <2>2. [f \in S |-> h[f].read] \in UNION {[R -> Nat] : R \in SUBSET Fields}
    BY <1>1, <2>0
  <2>3. r \in Nat
    BY <1>3, <2>0
  <2> QED BY <2>1, <2>2, <2>3 DEF Request, Requests, r
<1> HIDE DEF q
<1>6. FieldsOK(L, q)
  <2> SUFFICES ASSUME NEW f \in S
               PROVE  /\ f \in Fields /\ q.vals[f] \in Values /\ q.seen[f] \in q.read..Len(L)
                      /\ q.over[f] = L[q.seen[f]].val[f]
    BY <1>4 DEF FieldsOK
  <2>1. Len(L) \in Nat
    BY DEF Logs
  <2>2. r <= h[f].read /\ h[f].read \in 1..Len(L)
    BY <1>1, <1>2
  <2> QED BY <1>1, <1>3, <1>4, <2>1, <2>2
<1>7. AskedOK(L, q)
  BY <1>3, <1>4, <1>5, <1>6 DEF AskedOK, StatedOK, DoneOK
<1> QED BY <1>4, <1>7 DEF q

LEMMA LaneAppends ==
    ASSUME NEW L, NEW t, NEW s, LaneOK(L, t, s), NEW q, AskedOK(L, q), q.tab = t
    PROVE  LaneOK(L, t, Append(s, q))
<1>1. s \in Seq(Requests) /\ q \in Requests
  BY DEF LaneOK, AskedOK
<1>2. /\ Append(s, q) \in Seq(Requests) /\ Len(Append(s, q)) = Len(s) + 1
      /\ Append(s, q)[Len(s) + 1] = q /\ \A i \in 1..Len(s) : Append(s, q)[i] = s[i]
      /\ Len(s) \in Nat
  BY <1>1, AppendProperties
<1>3. ASSUME NEW i \in 1..(Len(s) + 1)
      PROVE  Append(s, q)[i].tab = t /\ AskedOK(L, Append(s, q)[i])
  <2>1. CASE i = Len(s) + 1
    BY <1>2, <2>1
  <2>2. CASE i \in 1..Len(s)
    BY <1>2, <2>2 DEF LaneOK
  <2> QED BY <1>2, <2>1, <2>2
<1> QED BY <1>2, <1>3 DEF LaneOK

(* What a tab that is drawn again holds and has to send.                   *)
LEMMA DrawOK ==
    ASSUME StateOK, NEW t \in Tabs, NEW h, FormOK(log, h), NEW q, LaneOK(log, t, q),
           NEW S \in SUBSET Fields, \A f \in S : HeldOK(log, f, h[f]),
           NEW s, ReadOK(log, s), Draw(t, h, q, S, s)
    PROVE  /\ holds' = [u \in Tabs |-> holds'[u]] /\ \A u \in Tabs : FormOK(log, holds'[u])
           /\ queue' = [u \in Tabs |-> queue'[u]] /\ \A u \in Tabs : LaneOK(log, u, queue'[u])
<1> DEFINE sent == IF S = {} THEN h ELSE Sent(h, S)
           out == IF S = {} THEN q ELSE Append(q, Request(t, h, S))
           drawn == Redrawn(sent, s)
           more == Owed(drawn)
           form == IF more = {} THEN drawn ELSE Sent(drawn, more)
           lane == IF more = {} THEN out ELSE Append(out, Request(t, drawn, more))
<1>0. holds' = [holds EXCEPT ![t] = form] /\ queue' = [queue EXCEPT ![t] = lane]
  BY DEF Draw
<1>1. log \in Logs
  BY DEF StateOK, RestOK
<1>2. FormOK(log, sent)
  BY <1>1, SentOK
<1>3. LaneOK(log, t, out)
  BY <1>1, RequestOK, LaneAppends
<1> HIDE DEF sent, out
<1>4. FormOK(log, drawn)
  BY <1>1, <1>2, RedrawnOK
<1> HIDE DEF drawn
<1>5. more \in SUBSET Fields /\ \A f \in more : HeldOK(log, f, drawn[f])
  BY <1>4 DEF Owed, FormOK, HoldOK
<1> HIDE DEF more
<1>6. FormOK(log, form)
  BY <1>1, <1>4, <1>5, SentOK
<1>7. LaneOK(log, t, lane)
  BY <1>1, <1>3, <1>4, <1>5, RequestOK, LaneAppends
<1> HIDE DEF form, lane
<1>8. holds = [u \in Tabs |-> holds[u]] /\ queue = [u \in Tabs |-> queue[u]]
      /\ \A u \in Tabs : FormOK(log, holds[u]) /\ LaneOK(log, u, queue[u])
  BY DEF StateOK, RestOK
<1> QED BY <1>0, <1>6, <1>7, <1>8

-----------------------------------------------------------------------------
LEMMA DrawAny ==
    ASSUME StateOK, NEW t \in Tabs, NEW h, FormOK(log, h), NEW q, LaneOK(log, t, q),
           NEW S \in SUBSET Fields, \A f \in S : HeldOK(log, f, h[f]),
           NEW s, ReadOK(log, s), Draw(t, h, q, S, s), log' = log, RestOK'
    PROVE  StateOK'
<1>1. /\ holds' = [u \in Tabs |-> holds'[u]] /\ \A u \in Tabs : FormOK(log, holds'[u])
      /\ queue' = [u \in Tabs |-> queue'[u]] /\ \A u \in Tabs : LaneOK(log, u, queue'[u])
  BY DrawOK
<1> QED BY <1>1 DEF StateOK

(* What does not change in a step that only draws a tab again.             *)
Quiet == UNCHANGED <<log, served, fetch, stray, moved>> /\ owed' \subseteq Tabs

LEMMA DrawStep ==
    ASSUME StateOK, NEW t \in Tabs, NEW h, FormOK(log, h), NEW q, LaneOK(log, t, q),
           NEW S \in SUBSET Fields, \A f \in S : HeldOK(log, f, h[f]),
           Draw(t, h, q, S, served[t]), Quiet
    PROVE  StateOK'
<1>1. ReadOK(log, served[t])
  BY DEF StateOK, RestOK
<1>2. log' = log /\ RestOK'
  BY DEF StateOK, RestOK, Quiet
<1> QED BY <1>1, <1>2, DrawAny

LEMMA InForm ==
    ASSUME StateOK, NEW t \in Tabs, NEW f \in Fields, NEW y, HoldOK(log, f, y)
    PROVE  FormOK(log, [holds[t] EXCEPT ![f] = y])
  BY DEF StateOK, RestOK, FormOK

LEMMA BegunOK ==
    ASSUME StateOK, NEW t \in Tabs, NEW f \in Fields, NEW v \in Values
    PROVE  HeldOK(log, f, Begun(t, f, v))
<1>1. log \in Logs /\ served[t].version \in 1..Len(log)
      /\ served[t].val[f] = log[served[t].version].val[f]
  BY DEF StateOK, RestOK, ReadOK
<1> QED BY <1>1, FreshOK DEF Begun

LEMMA HoldingOK ==
    ASSUME StateOK, NEW t \in Tabs, NEW f \in Fields, NEW v \in Values
    PROVE  /\ FormOK(log, Holding(t, f, v)) /\ HeldOK(log, f, Holding(t, f, v)[f])
           /\ holds[t][f] # None => Holding(t, f, v)[f] =
                                      [holds[t][f] EXCEPT !.mine = v, !.failed = FALSE]
<1> DEFINE x == holds[t][f]
           y == [x EXCEPT !.mine = v, !.failed = FALSE]
           z == IF x = None THEN Begun(t, f, v) ELSE y
<1>0. holds[t] = [g \in Fields |-> holds[t][g]] /\ HoldOK(log, f, x)
  BY DEF StateOK, RestOK, FormOK
<1>1. Holding(t, f, v) = [holds[t] EXCEPT ![f] = z] /\ Holding(t, f, v)[f] = z
  BY <1>0 DEF Holding
<1> HIDE DEF x
<1>2. ASSUME x # None PROVE HeldOK(log, f, y)
  <2>1. x \in HoldsAt(log) /\ x.base = log[x.read].val[f]
        /\ (x.theirs # None => x.theirs.value = log[x.theirs.version].val[f])
    BY <1>0, <1>2 DEF HoldOK, HeldOK
  <2>2. /\ y \in HoldsAt(log) /\ y.base = x.base /\ y.read = x.read /\ y.theirs = x.theirs
    BY <2>1 DEF HoldsAt
  <2> QED BY <2>1, <2>2 DEF HeldOK
<1> HIDE DEF y
<1>3. HeldOK(log, f, z)
  BY <1>2, BegunOK
<1>4. x # None => z = y
  OBVIOUS
<1> HIDE DEF z
<1>5. FormOK(log, [holds[t] EXCEPT ![f] = z])
  BY <1>3, InForm DEF HoldOK
<1> QED BY <1>1, <1>3, <1>4, <1>5 DEF x, y

LEMMA AgainOK ==
    ASSUME NEW f, NEW x, HeldOK(log, f, x)
    PROVE  HeldOK(log, f, [x EXCEPT !.again = TRUE])
  BY DEF HeldOK, HoldsAt

LEMMA SetStep ==
    ASSUME StateOK, NEW t \in Tabs, NEW f \in Fields, Set(t, f)
    PROVE  StateOK'
<1>1. PICK v \in Values : Draw(t, Holding(t, f, v), queue[t], {}, served[t])
  BY DEF Set, Entered
<1>2. Quiet /\ LaneOK(log, t, queue[t])
  BY DEF Set, Quiet, StateOK, RestOK
<1> DEFINE h == Holding(t, f, v)
<1>3. FormOK(log, h) /\ Draw(t, h, queue[t], {}, served[t])
  BY <1>1, HoldingOK
<1> HIDE DEF h
<1>4. {} \in SUBSET Fields /\ \A g \in {} : HeldOK(log, g, h[g])
  OBVIOUS
<1> QED BY <1>2, <1>3, <1>4, DrawStep

LEMMA LeaveStep ==
    ASSUME StateOK, NEW t \in Tabs, NEW f \in Fields, Leave(t, f)
    PROVE  StateOK'
<1> DEFINE x == holds[t][f]
<1>1. Quiet /\ LaneOK(log, t, queue[t]) /\ FormOK(log, holds[t]) /\ HeldOK(log, f, x)
  BY DEF Leave, Quiet, StateOK, RestOK, FormOK, HoldOK
<1>2. CASE Draw(t, [holds[t] EXCEPT ![f] = [x EXCEPT !.again = TRUE]], queue[t], {}, served[t])
  <2> DEFINE y == [x EXCEPT !.again = TRUE]
  <2>1. HoldOK(log, f, y)
    BY <1>1, AgainOK DEF HoldOK
  <2>2. Draw(t, [holds[t] EXCEPT ![f] = y], queue[t], {}, served[t])
    BY <1>2
  <2> HIDE DEF y, x
  <2>3. FormOK(log, [holds[t] EXCEPT ![f] = y])
    BY <2>1, InForm
  <2> QED BY <1>1, <2>2, <2>3, DrawStep
<1>3. CASE Draw(t, [holds[t] EXCEPT ![f] = None], queue[t], {}, served[t])
  <2>1. FormOK(log, [holds[t] EXCEPT ![f] = None])
    BY InForm DEF HoldOK
  <2> QED BY <1>1, <1>3, <2>1, DrawStep
<1>4. CASE Draw(t, holds[t], queue[t], {f}, served[t])
  <2>1. \A g \in {f} : HeldOK(log, g, holds[t][g])
    BY <1>1
  <2> QED BY <1>1, <1>4, <2>1, DrawStep
<1> QED BY <1>2, <1>3, <1>4 DEF Leave

LEMMA CommitStep ==
    ASSUME StateOK, NEW t \in Tabs, NEW f \in Fields, Commit(t, f)
    PROVE  StateOK'
<1>1. PICK v \in Values :
        LET h == Holding(t, f, v)
        IN  IF holds[t][f] # None /\ holds[t][f].sending
            THEN Draw(t, [h EXCEPT ![f] = [@ EXCEPT !.again = TRUE]], queue[t], {}, served[t])
            ELSE Draw(t, h, queue[t], IF h[f].theirs = None THEN {f} ELSE {}, served[t])
  BY DEF Commit, Entered
<1> DEFINE h == Holding(t, f, v)
           y == [h[f] EXCEPT !.again = TRUE]
<1>2. Quiet /\ LaneOK(log, t, queue[t])
  BY DEF Commit, Quiet, StateOK, RestOK
<1>3. FormOK(log, h) /\ HeldOK(log, f, h[f])
  BY HoldingOK
<1>4. \/ Draw(t, [h EXCEPT ![f] = y], queue[t], {}, served[t])
      \/ Draw(t, h, queue[t], {f}, served[t])
      \/ Draw(t, h, queue[t], {}, served[t])
  BY <1>1
<1> HIDE DEF h
<1>5. FormOK(log, [h EXCEPT ![f] = y])
  <2>1. HoldOK(log, f, y)
    BY <1>3, AgainOK DEF HoldOK
  <2> HIDE DEF y
  <2> QED BY <1>3, <2>1 DEF FormOK
<1>6. \A g \in {f} : HeldOK(log, g, h[g])
  BY <1>3
<1> HIDE DEF y
<1>7. CASE Draw(t, h, queue[t], {f}, served[t])
  BY <1>2, <1>3, <1>6, <1>7, DrawStep
<1>8. CASE Draw(t, h, queue[t], {}, served[t])
  BY <1>2, <1>3, <1>8, DrawStep
<1>9. CASE Draw(t, [h EXCEPT ![f] = y], queue[t], {}, served[t])
  BY <1>2, <1>5, <1>9, DrawStep
<1> QED BY <1>4, <1>7, <1>8, <1>9

LEMMA ChoiceStep ==
    ASSUME StateOK, NEW t \in Tabs, NEW f \in Fields, KeepMine(t, f) \/ TakeTheirs(t, f)
    PROVE  StateOK'
<1> DEFINE x == holds[t][f]
           y == Fresh(x.theirs.value, x.theirs.version, x.mine, FALSE)
<1>1. Quiet /\ LaneOK(log, t, queue[t]) /\ HeldOK(log, f, x) /\ log \in Logs /\ x.theirs # None
      /\ holds[t] = [g \in Fields |-> holds[t][g]]
  BY DEF KeepMine, TakeTheirs, Quiet, StateOK, RestOK, FormOK, HoldOK
<1>2. CASE KeepMine(t, f)
  <2>1. /\ x.theirs.version \in 1..Len(log) /\ x.mine \in Values
        /\ x.theirs.value = log[x.theirs.version].val[f]
    BY <1>1 DEF HeldOK, HoldsAt
  <2>2. HeldOK(log, f, y)
    BY <1>1, <2>1, FreshOK
  <2>3. Draw(t, [holds[t] EXCEPT ![f] = y], queue[t], {f}, served[t])
    BY <1>2 DEF KeepMine
  <2> HIDE DEF y, x
  <2>4. FormOK(log, [holds[t] EXCEPT ![f] = y])
    BY <2>2, InForm DEF HoldOK
  <2>5. \A g \in {f} : HeldOK(log, g, [holds[t] EXCEPT ![f] = y][g])
    BY <1>1, <2>2
  <2> QED BY <1>1, <2>3, <2>4, <2>5, DrawStep
<1>3. CASE TakeTheirs(t, f)
  <2>1. Draw(t, [holds[t] EXCEPT ![f] = None], queue[t], {}, served[t])
    BY <1>3 DEF TakeTheirs
  <2>2. FormOK(log, [holds[t] EXCEPT ![f] = None])
    BY InForm DEF HoldOK
  <2> QED BY <1>1, <2>1, <2>2, DrawStep
<1> QED BY <1>2, <1>3

-----------------------------------------------------------------------------
(* The writes of a lane behind its first, and its first in another state.  *)
LEMMA LaneTail ==
    ASSUME NEW L, NEW t, NEW s, LaneOK(L, t, s), s # <<>>
    PROVE  /\ AskedOK(L, Head(s)) /\ Head(s).tab = t
           /\ LaneOK(L, t, Tail(s))
           /\ \A r : AskedOK(L, r) /\ r.tab = t => LaneOK(L, t, <<r>> \o Tail(s))
<1>1. s \in Seq(Requests) /\ Len(s) \in Nat /\ Len(s) >= 1 /\ Head(s) = s[1]
  BY EmptySeq, LenProperties, HeadTailProperties DEF LaneOK
<1>2. /\ Tail(s) \in Seq(Requests) /\ Len(Tail(s)) = Len(s) - 1
      /\ \A i \in 1..Len(Tail(s)) : Tail(s)[i] = s[i + 1]
  BY <1>1, HeadTailProperties DEF LaneOK
<1> DEFINE w == Tail(s)
<1>3. LaneOK(L, t, w)
  BY <1>1, <1>2 DEF LaneOK
<1>4. AskedOK(L, Head(s)) /\ Head(s).tab = t
  BY <1>1 DEF LaneOK
<1> HIDE DEF w
<1>5. ASSUME NEW r, AskedOK(L, r), r.tab = t
      PROVE  LaneOK(L, t, <<r>> \o w)
  <2>1. r \in Requests /\ w \in Seq(Requests) /\ Len(w) \in Nat
    BY <1>3, <1>5, LenProperties DEF AskedOK, LaneOK
  <2>2. <<r>> \in Seq(Requests) /\ Len(<<r>>) = 1 /\ <<r>>[1] = r
    BY <2>1
  <2> DEFINE z == <<r>> \o w
  <2>3. /\ z \in Seq(Requests) /\ Len(z) = 1 + Len(w)
        /\ \A i \in 1..Len(z) : z[i] = IF i <= 1 THEN <<r>>[i] ELSE w[i - 1]
    BY <2>1, <2>2, ConcatProperties
  <2> HIDE DEF z
  <2>4. ASSUME NEW i \in 1..Len(z) PROVE z[i].tab = t /\ AskedOK(L, z[i])
    <3>1. CASE i <= 1
      BY <1>5, <2>1, <2>2, <2>3, <3>1
    <3>2. CASE i > 1
      <4>1. i - 1 \in 1..Len(w)
        BY <2>1, <2>3, <3>2
      <4> QED BY <1>3, <2>3, <3>2, <4>1 DEF LaneOK
    <3> QED BY <2>1, <2>3, <3>1, <3>2
  <2> QED BY <2>3, <2>4 DEF LaneOK, z
<1> QED BY <1>3, <1>4, <1>5 DEF w

(* What a change of its state leaves of a request.                         *)
Turned(q, a, n) == [q EXCEPT !.at = a, !.stated = n]

LEMMA TurnedOK ==
    ASSUME NEW q \in Requests, NEW a \in {"queued", "out", "done", "refused"}, NEW n \in Nat
    PROVE  /\ Turned(q, a, n) \in Requests
           /\ Turned(q, a, n).at = a /\ Turned(q, a, n).stated = n
           /\ Turned(q, a, n).tab = q.tab /\ Turned(q, a, n).read = q.read
           /\ Turned(q, a, n).vals = q.vals /\ Turned(q, a, n).over = q.over
           /\ Turned(q, a, n).seen = q.seen
<1> DEFINE VS == UNION {[S -> Values] : S \in SUBSET Fields}
           NS == UNION {[S -> Nat] : S \in SUBSET Fields}
           ST == {"queued", "out", "done", "refused"}
<1>1. Requests = [tab : Tabs, at : ST, read : Nat, stated : Nat, vals : VS, over : VS, seen : NS]
  BY DEF Requests
<1>2. a \in ST
  OBVIOUS
<1> HIDE DEF VS, NS, ST
<1> QED BY <1>1, <1>2 DEF Turned

LEMMA StartStep ==
    ASSUME StateOK, NEW t \in Tabs, Start(t)
    PROVE  StateOK'
<1> DEFINE q == Head(queue[t])
<1>1. PICK v \in 1..Version :
        /\ Advances(t, q.read, v)
        /\ queue' = [queue EXCEPT ![t] = <<[q EXCEPT !.at = "out", !.stated = v]>> \o Tail(@)]
  BY DEF Start
<1>2. /\ LaneOK(log, t, queue[t]) /\ queue[t] # <<>> /\ q.at = "queued"
      /\ UNCHANGED <<log, served, fetch, owed, holds, stray, moved>>
      /\ queue = [u \in Tabs |-> queue[u]]
  BY DEF Start, StateOK
<1>3. AskedOK(log, q) /\ q.tab = t
  BY <1>2, LaneTail
<1> HIDE DEF q
<1> DEFINE r == Turned(q, "out", v)
<1>4. q \in Requests /\ q.read \in 1..Len(log) /\ Len(log) \in Nat
  BY <1>3 DEF AskedOK, StateOK, RestOK, Logs
<1>5. /\ r \in Requests /\ r.at = "out" /\ r.stated = v /\ r.tab = q.tab
      /\ r.read = q.read /\ r.vals = q.vals /\ r.over = q.over /\ r.seen = q.seen
  <2>1. v \in Nat
    BY <1>4 DEF Version
  <2> QED BY <1>4, <2>1, TurnedOK
<1>11. queue' = [queue EXCEPT ![t] = <<r>> \o Tail(queue[t])]
  BY <1>1, <1>2 DEF Turned
<1> HIDE DEF r
<1>6. FieldsOK(log, r)
  BY <1>3, <1>5 DEF AskedOK, FieldsOK
<1>7. /\ v \in q.read..Len(log)
      /\ \A u \in (q.read + 1)..v : log[u].by = t
  <2>1. v >= q.read /\ \A u \in q.read..(v - 1) : u \in moved[t]
    BY <1>1 DEF Advances
  <2>2. \A u \in moved[t] : log[u + 1].by = t
    BY DEF StateOK, RestOK, MovedOK
  <2>3. v \in 1..Len(log)
    BY DEF Version
  <2>4. ASSUME NEW u \in (q.read + 1)..v PROVE log[u].by = t
    <3>1. u - 1 \in q.read..(v - 1) /\ (u - 1) + 1 = u
      BY <1>4, <2>3
    <3> QED BY <2>1, <2>2, <3>1
  <2> QED BY <1>4, <2>1, <2>3, <2>4
<1>8. AskedOK(log, r) /\ r.tab = t
  BY <1>3, <1>4, <1>5, <1>6, <1>7 DEF AskedOK, StatedOK, DoneOK
<1>9. LaneOK(log, t, <<r>> \o Tail(queue[t]))
  BY <1>2, <1>8, LaneTail
<1> QED BY <1>2, <1>9, <1>11 DEF StateOK, RestOK

(* A version more, written by q, leaves all of the state as good.          *)
LEMMA StoredOK ==
    ASSUME StateOK, NEW q, AskedOK(log, q), Stored(q)
    PROVE  /\ log' \in Logs /\ Len(log') = Len(log) + 1 /\ Len(log) \in Nat
           /\ log'[Len(log) + 1].by = q.tab
           /\ \A f \in DOMAIN q.vals : log'[Len(log) + 1].val[f] = q.vals[f]
           /\ \A u \in Tabs : FormOK(log', holds[u]) /\ LaneOK(log', u, queue[u])
           /\ \A r : AskedOK(log, r) => AskedOK(log', r)
           /\ \A u \in Tabs : ReadOK(log', served[u]) /\ MovedOK(log', u, moved[u])
           /\ \A u \in Tabs : fetch[u] # None => ReadOK(log', fetch[u])
           /\ owed' = Tabs
<1> DEFINE e == [by |-> q.tab,
                 val |-> [f \in Fields |-> IF f \in DOMAIN q.vals THEN q.vals[f]
                                           ELSE log[Version].val[f]]]
<1>1. log' = Append(log, e) /\ owed' = Tabs
  BY DEF Stored
<1>2. log \in Logs /\ Len(log) >= 1 /\ Len(log) \in Nat
  BY DEF StateOK, RestOK, Logs
<1>3. e \in Entry
  <2>1. log[Version] \in Entry
    BY <1>2 DEF Version, Logs
  <2>2. q.tab \in Tabs
    BY DEF AskedOK, Requests
  <2>3. \A f \in DOMAIN q.vals : q.vals[f] \in Values
    BY DEF AskedOK, FieldsOK
  <2> QED BY <2>1, <2>2, <2>3 DEF Entry
<1>4. e.by = q.tab /\ \A f \in DOMAIN q.vals : e.val[f] = q.vals[f]
  BY DEF AskedOK, FieldsOK
<1> HIDE DEF e
<1>5. log' \in Logs /\ Len(log') = Len(log) + 1 /\ log'[Len(log) + 1] = e
  BY <1>1, <1>2, <1>3, Grown
<1>6. \A u \in Tabs : FormOK(log', holds[u])
  BY <1>1, <1>2, <1>3, HoldGrows DEF StateOK, FormOK
<1>7. \A r : AskedOK(log, r) => AskedOK(log', r)
  BY <1>1, <1>2, <1>3, AskedGrows
<1>8. \A u \in Tabs : LaneOK(log', u, queue[u])
  BY <1>7 DEF StateOK, LaneOK
<1>9. \A u \in Tabs : ReadOK(log', served[u]) /\ MovedOK(log', u, moved[u])
  BY <1>1, <1>2, <1>3, ReadGrows, MovedGrows DEF StateOK, RestOK
<1>10. \A u \in Tabs : fetch[u] # None => ReadOK(log', fetch[u])
  BY <1>1, <1>2, <1>3, ReadGrows DEF StateOK, RestOK
<1> QED BY <1>1, <1>2, <1>4, <1>5, <1>6, <1>7, <1>8, <1>9, <1>10

(* A write that only became something else.                                *)
Turns(q, a) == Turned(q, a, q.stated)

LEMMA TurnedSame ==
    ASSUME NEW q \in Requests, NEW a \in {"queued", "out", "done", "refused"}
    PROVE  LET r == Turns(q, a)
           IN  /\ r = [q EXCEPT !.at = a]
               /\ r \in Requests /\ r.at = a /\ r.stated = q.stated /\ r.tab = q.tab
               /\ r.read = q.read /\ r.vals = q.vals /\ r.over = q.over /\ r.seen = q.seen
<1> DEFINE VS == UNION {[S -> Values] : S \in SUBSET Fields}
           NS == UNION {[S -> Nat] : S \in SUBSET Fields}
           ST == {"queued", "out", "done", "refused"}
<1>1. Requests = [tab : Tabs, at : ST, read : Nat, stated : Nat, vals : VS, over : VS, seen : NS]
  BY DEF Requests
<1>2. a \in ST
  OBVIOUS
<1> HIDE DEF VS, NS, ST
<1>3. Turns(q, a) = [q EXCEPT !.at = a]
  BY <1>1, <1>2 DEF Turns, Turned
<1> QED BY <1>1, <1>2, <1>3

(* A write whose state turns keeps what it says of its fields.             *)
LEMMA BecameOK ==
    ASSUME StateOK, NEW t \in Tabs, queue[t] # <<>>, NEW L,
           NEW a \in {"queued", "out", "done", "refused"}, Became(t, a),
           \A u \in Tabs : LaneOK(L, u, queue[u]),
           LET q == Head(queue[t])
           IN  StatedOK(L, Turns(q, a)) /\ DoneOK(L, Turns(q, a))
    PROVE  queue' = [u \in Tabs |-> queue'[u]] /\ \A u \in Tabs : LaneOK(L, u, queue'[u])
<1> DEFINE q == Head(queue[t])
           r == Turns(q, a)
<1>1. AskedOK(L, q) /\ q.tab = t
  BY LaneTail
<1>2. queue' = [queue EXCEPT ![t] = <<[q EXCEPT !.at = a]>> \o Tail(queue[t])]
  BY DEF Became
<1>3. StatedOK(L, r) /\ DoneOK(L, r)
  OBVIOUS
<1> HIDE DEF q
<1>4. q \in Requests /\ q.stated \in Nat /\ q.read \in 1..Len(L) /\ FieldsOK(L, q)
  BY <1>1 DEF AskedOK, Requests
<1>6. /\ [q EXCEPT !.at = a] = r /\ r \in Requests /\ r.tab = q.tab /\ r.read = q.read
      /\ r.vals = q.vals /\ r.over = q.over /\ r.seen = q.seen
  BY <1>4, TurnedSame
<1> HIDE DEF r
<1>7. AskedOK(L, r) /\ r.tab = t
  BY <1>1, <1>3, <1>4, <1>6 DEF AskedOK, FieldsOK
<1>8. LaneOK(L, t, <<r>> \o Tail(queue[t]))
  BY <1>7, LaneTail
<1>9. queue = [u \in Tabs |-> queue[u]]
  BY DEF StateOK
<1> QED BY <1>2, <1>6, <1>8, <1>9

LEMMA HandleStep ==
    ASSUME StateOK, NEW t \in Tabs, Handle(t)
    PROVE  StateOK'
<1> DEFINE q == Head(queue[t])
<1>1. /\ queue[t] # <<>> /\ q.at = "out"
      /\ UNCHANGED <<served, fetch, holds, stray, moved>>
  BY DEF Handle
<1>2. \A u \in Tabs : LaneOK(log, u, queue[u])
  BY DEF StateOK
<1>3. AskedOK(log, q) /\ q.tab = t /\ log \in Logs /\ Len(log) \in Nat
  <2>1. AskedOK(log, q) /\ q.tab = t
    BY <1>1, <1>2, LaneTail
  <2> QED BY <2>1 DEF StateOK, RestOK, Logs
<1>4. CASE q.stated = Version /\ Stored(q) /\ Became(t, "done")
  <2>1. /\ log' \in Logs /\ Len(log') = Len(log) + 1
        /\ log'[Len(log) + 1].by = q.tab
        /\ \A f \in DOMAIN q.vals : log'[Len(log) + 1].val[f] = q.vals[f]
        /\ \A u \in Tabs : FormOK(log', holds[u]) /\ LaneOK(log', u, queue[u])
        /\ \A r : AskedOK(log, r) => AskedOK(log', r)
        /\ \A u \in Tabs : ReadOK(log', served[u]) /\ MovedOK(log', u, moved[u])
        /\ \A u \in Tabs : fetch[u] # None => ReadOK(log', fetch[u])
        /\ owed' = Tabs
    BY <1>3, <1>4, StoredOK
  <2> DEFINE r == Turns(q, "done")
  <2>2. StatedOK(log', r) /\ DoneOK(log', r)
    <3>1. AskedOK(log', q) /\ q \in Requests /\ q.stated \in Nat
      BY <1>3, <2>1 DEF AskedOK, Requests
    <3>2. /\ r.stated = q.stated /\ r.tab = q.tab /\ r.read = q.read /\ r.vals = q.vals
          /\ r.at = "done"
      <4> HIDE DEF q
      <4> QED BY <3>1, TurnedSame
    <3> HIDE DEF r
    <3>3. StatedOK(log', r)
      BY <1>1, <3>1, <3>2 DEF AskedOK, StatedOK
    <3>4. DoneOK(log', r)
      BY <1>4, <2>1, <3>2 DEF DoneOK, Version
    <3> QED BY <3>3, <3>4
  <2>3. queue' = [u \in Tabs |-> queue'[u]] /\ \A u \in Tabs : LaneOK(log', u, queue'[u])
    BY <1>1, <1>4, <2>1, <2>2, BecameOK
  <2>4. RestOK'
    BY <1>1, <1>3, <2>1 DEF StateOK, RestOK
  <2> QED BY <1>1, <2>1, <2>3, <2>4 DEF StateOK
<1>5. CASE Became(t, "refused") /\ UNCHANGED <<log, owed>>
  <2> DEFINE r == Turns(q, "refused")
  <2>1. StatedOK(log, r) /\ DoneOK(log, r)
    <3>1. q \in Requests /\ q.stated \in Nat
      BY <1>3 DEF AskedOK, Requests
    <3>2. /\ r.stated = q.stated /\ r.tab = q.tab /\ r.read = q.read /\ r.at = "refused"
      <4> HIDE DEF q
      <4> QED BY <3>1, TurnedSame
    <3> HIDE DEF r
    <3> QED BY <1>1, <1>3, <3>2 DEF AskedOK, StatedOK, DoneOK
  <2>2. queue' = [u \in Tabs |-> queue'[u]] /\ \A u \in Tabs : LaneOK(log, u, queue'[u])
    BY <1>1, <1>2, <1>5, <2>1, BecameOK
  <2> QED BY <1>1, <1>5, <2>2 DEF StateOK, RestOK
<1> QED BY <1>4, <1>5 DEF Handle

LEMMA HandleStrayStep ==
    ASSUME StateOK, NEW q \in stray, HandleStray(q)
    PROVE  StateOK'
<1>1. AskedOK(log, q) /\ q.at = "out"
  BY DEF StateOK, RestOK
<1>2. /\ stray' \subseteq stray
      /\ UNCHANGED <<served, fetch, holds, queue, moved>>
  BY DEF HandleStray
<1>3. CASE Stored(q)
  <2>1. /\ log' \in Logs /\ Len(log') = Len(log) + 1 /\ Len(log) \in Nat
        /\ \A u \in Tabs : FormOK(log', holds[u]) /\ LaneOK(log', u, queue[u])
        /\ \A r : AskedOK(log, r) => AskedOK(log', r)
        /\ \A u \in Tabs : ReadOK(log', served[u]) /\ MovedOK(log', u, moved[u])
        /\ \A u \in Tabs : fetch[u] # None => ReadOK(log', fetch[u])
        /\ owed' = Tabs
    BY <1>1, <1>3, StoredOK
  <2>2. RestOK'
    BY <1>2, <2>1 DEF StateOK, RestOK
  <2> QED BY <1>2, <2>1, <2>2 DEF StateOK
<1>4. CASE UNCHANGED <<log, owed>>
  BY <1>2, <1>4 DEF StateOK, RestOK
<1> QED BY <1>3, <1>4 DEF HandleStray

-----------------------------------------------------------------------------
LEMMA AnswerStep ==
    ASSUME StateOK, NEW t \in Tabs, Answer(t)
    PROVE  StateOK'
<1> DEFINE q == Head(queue[t])
           x(f) == holds[t][f]
           h == [f \in Fields |-> IF f \in DOMAIN q.vals /\ x(f) # None
                    THEN AnsweredHold(x(f), q.vals[f], q.stated + 1) ELSE x(f)]
<1>1. /\ queue[t] # <<>> /\ q.at = "done" /\ moved' = [moved EXCEPT ![t] = @ \cup {q.stated}]
      /\ Draw(t, h, Tail(queue[t]), {}, served[t])
      /\ owed' = owed \cup {t} /\ UNCHANGED <<log, served, fetch, stray>>
  BY DEF Answer
<1>2. AskedOK(log, q) /\ q.tab = t /\ LaneOK(log, t, Tail(queue[t])) /\ log \in Logs
      /\ Len(log) \in Nat
  BY <1>1, LaneTail DEF StateOK, RestOK, Logs
<1>3. /\ q.stated \in 1..(Len(log) - 1) /\ log[q.stated + 1].by = t
      /\ \A f \in DOMAIN q.vals : log[q.stated + 1].val[f] = q.vals[f]
      /\ \A f \in DOMAIN q.vals : q.vals[f] \in Values
  BY <1>1, <1>2 DEF AskedOK, StatedOK, DoneOK, FieldsOK
<1> HIDE DEF q
<1>4. FormOK(log, holds[t]) /\ ReadOK(log, served[t])
  BY DEF StateOK, RestOK
<1>5. ASSUME NEW f \in Fields, f \in DOMAIN q.vals, x(f) # None
      PROVE  HoldOK(log, f, AnsweredHold(x(f), q.vals[f], q.stated + 1))
  <2>1. x(f).mine \in Values /\ x(f).again \in BOOLEAN
    BY <1>4, <1>5 DEF FormOK, HoldOK, HeldOK, HoldsAt
  <2>2. /\ q.stated + 1 \in 1..Len(log) /\ q.vals[f] = log[q.stated + 1].val[f]
        /\ q.vals[f] \in Values
    BY <1>2, <1>3, <1>5
  <2> HIDE DEF x
  <2>3. HeldOK(log, f, Fresh(q.vals[f], q.stated + 1, x(f).mine, x(f).again))
    BY <1>2, <2>1, <2>2, FreshOK
  <2>4. HeldOK(log, f, Fresh(q.vals[f], q.stated + 1, q.vals[f], FALSE))
    <3>1. FALSE \in BOOLEAN
      OBVIOUS
    <3> QED BY <1>2, <2>2, <3>1, FreshOK
  <2> QED BY <2>3, <2>4 DEF AnsweredHold, HoldOK
<1>6. FormOK(log, h)
  <2>1. \A f \in Fields : h[f] = IF f \in DOMAIN q.vals /\ x(f) # None
                    THEN AnsweredHold(x(f), q.vals[f], q.stated + 1) ELSE x(f)
    OBVIOUS
  <2>2. h = [f \in Fields |-> h[f]]
    OBVIOUS
  <2>3. \A f \in Fields : HoldOK(log, f, x(f))
    BY <1>4 DEF FormOK
  <2> HIDE DEF h, x
  <2>4. \A f \in Fields : HoldOK(log, f, h[f])
    BY <1>5, <2>1, <2>3
  <2> QED BY <2>2, <2>4 DEF FormOK
<1> HIDE DEF h
<1>7. RestOK'
  <2>1. \A u \in Tabs : MovedOK(log, u, moved'[u])
    BY <1>1, <1>3 DEF StateOK, RestOK, MovedOK
  <2> QED BY <1>1, <2>1 DEF StateOK, RestOK
<1>8. {} \in SUBSET Fields /\ \A g \in {} : HeldOK(log, g, h[g])
  OBVIOUS
<1> QED BY <1>1, <1>2, <1>4, <1>6, <1>7, <1>8, DrawAny

LEMMA NotStoredStep ==
    ASSUME StateOK, NEW t \in Tabs, queue[t] # <<>>, NEW refused \in BOOLEAN,
           NotStored(t, refused), log' = log, RestOK'
    PROVE  StateOK'
<1> DEFINE q == Head(queue[t])
           x(f) == holds[t][f]
           y(f) == [x(f) EXCEPT !.sending = FALSE, !.refused = @ \/ refused,
                                !.failed = @ \/ ~refused]
           h == [f \in Fields |-> IF f \in DOMAIN q.vals /\ x(f) # None THEN y(f) ELSE x(f)]
<1>1. Draw(t, h, Tail(queue[t]), {}, served[t])
  BY DEF NotStored
<1>2. LaneOK(log, t, Tail(queue[t])) /\ FormOK(log, holds[t]) /\ ReadOK(log, served[t])
  BY LaneTail DEF StateOK, RestOK
<1>3. ASSUME NEW f \in Fields, x(f) # None PROVE HoldOK(log, f, y(f))
  <2> DEFINE z == x(f)
  <2>1. /\ z \in HoldsAt(log) /\ z.base = log[z.read].val[f]
        /\ (z.theirs # None => z.theirs.value = log[z.theirs.version].val[f])
    BY <1>2, <1>3 DEF FormOK, HoldOK, HeldOK
  <2> DEFINE w == [z EXCEPT !.sending = FALSE, !.refused = @ \/ refused, !.failed = @ \/ ~refused]
  <2> HIDE DEF z
  <2>2. w \in HoldsAt(log) /\ w.base = z.base /\ w.read = z.read /\ w.theirs = z.theirs
    BY <2>1 DEF HoldsAt
  <2>3. HoldOK(log, f, w)
    BY <2>1, <2>2 DEF HoldOK, HeldOK
  <2> QED BY <2>3 DEF z
<1>4. FormOK(log, h)
  <2>1. \A f \in Fields :
          h[f] = IF f \in DOMAIN q.vals /\ x(f) # None THEN y(f) ELSE x(f)
    OBVIOUS
  <2>2. h = [f \in Fields |-> h[f]]
    OBVIOUS
  <2>3. \A f \in Fields : HoldOK(log, f, x(f))
    BY <1>2 DEF FormOK
  <2> HIDE DEF h, x, y, q
  <2>4. \A f \in Fields : HoldOK(log, f, h[f])
    BY <1>3, <2>1, <2>3
  <2> QED BY <2>2, <2>4 DEF FormOK
<1> HIDE DEF h
<1>5. {} \in SUBSET Fields /\ \A g \in {} : HeldOK(log, g, h[g])
  OBVIOUS
<1> QED BY <1>1, <1>2, <1>4, <1>5, DrawAny

LEMMA RefusedStep ==
    ASSUME StateOK, NEW t \in Tabs, Refused(t)
    PROVE  StateOK'
<1>1. RestOK' /\ log' = log
  BY DEF Refused, NotStored, StateOK, RestOK
<1>2. queue[t] # <<>> /\ NotStored(t, TRUE) /\ TRUE \in BOOLEAN
  BY DEF Refused
<1> QED BY <1>1, <1>2, NotStoredStep

LEMMA FailsStep ==
    ASSUME StateOK, NEW t \in Tabs, Fails(t)
    PROVE  StateOK'
<1>1. queue[t] # <<>> /\ NotStored(t, FALSE) /\ FALSE \in BOOLEAN
      /\ UNCHANGED <<log, served, fetch, moved>>
  BY DEF Fails
<1>2. LaneOK(log, t, queue[t])
  BY DEF StateOK
<1>3. AskedOK(log, Head(queue[t]))
  BY <1>1, <1>2, LaneTail
<1>4. \A q \in stray' : q.at = "out" /\ AskedOK(log, q)
  BY <1>3 DEF Fails, StateOK, RestOK
<1>5. owed' \subseteq Tabs
  BY <1>1 DEF NotStored, StateOK, RestOK
<1>6. RestOK'
  BY <1>1, <1>4, <1>5 DEF StateOK, RestOK
<1> QED BY <1>1, <1>6, NotStoredStep

LEMMA FetchStep ==
    ASSUME StateOK, NEW t \in Tabs, Fetch(t)
    PROVE  StateOK'
<1>1. ReadOK(log, Record)
  <2>1. log \in Logs /\ Len(log) \in 1..Len(log) /\ Len(log) \in Nat
    BY DEF StateOK, RestOK, Logs
  <2>2. log[Len(log)] \in Entry
    BY <2>1 DEF Logs
  <2> QED BY <2>1, <2>2 DEF ReadOK, Record, Version, Entry
<1>2. /\ fetch' = [fetch EXCEPT ![t] = Record] /\ owed' \subseteq owed
      /\ UNCHANGED <<log, served, holds, queue, stray, moved>>
  BY DEF Fetch
<1> HIDE DEF Record
<1> QED BY <1>1, <1>2 DEF StateOK, RestOK

LEMMA DeliverStep ==
    ASSUME StateOK, NEW t \in Tabs, Deliver(t)
    PROVE  StateOK'
<1> DEFINE s == fetch[t]
<1>1. /\ s # None /\ fetch' = [fetch EXCEPT ![t] = None] /\ served' = [served EXCEPT ![t] = s]
      /\ UNCHANGED <<log, owed, stray, moved>>
  BY DEF Deliver
<1>2. ReadOK(log, s) /\ log \in Logs /\ LaneOK(log, t, queue[t]) /\ FormOK(log, holds[t])
  BY <1>1 DEF StateOK, RestOK
<1>3. RestOK'
  BY <1>1, <1>2 DEF StateOK, RestOK
<1>4. CASE UNCHANGED <<holds, queue>>
  BY <1>1, <1>3, <1>4 DEF StateOK
<1>5. CASE Draw(t, Reconciled(holds[t], s), queue[t], {}, s)
  <2> HIDE DEF s
  <2> DEFINE h == Reconciled(holds[t], s)
  <2>1. FormOK(log, h) /\ Draw(t, h, queue[t], {}, s)
    BY <1>2, <1>5, RedrawnOK
  <2> HIDE DEF h
  <2>2. {} \in SUBSET Fields /\ \A g \in {} : HeldOK(log, g, h[g])
    OBVIOUS
  <2> QED BY <1>1, <1>2, <1>3, <2>1, <2>2, DrawAny
<1> QED BY <1>4, <1>5 DEF Deliver

-----------------------------------------------------------------------------
LEMMA InitOK == Init => StateOK
<1> SUFFICES ASSUME Init PROVE StateOK
  OBVIOUS
<1> DEFINE e == [by |-> None, val |-> [f \in Fields |-> First]]
           s == [version |-> 1, val |-> [f \in Fields |-> First]]
<1>1. e \in Entry /\ e.val = s.val /\ s.version = 1
      /\ s \in [version : 1..1, val : [Fields -> Values]]
  BY DraftAssumption DEF Entry
<1>2. log = <<e>> /\ served = [t \in Tabs |-> s]
  BY DEF Init
<1> HIDE DEF e, s
<1>3. log \in Logs /\ Len(log) = 1 /\ log[1] = e
  BY <1>1, <1>2 DEF Logs
<1>4. ReadOK(log, s)
  BY <1>1, <1>3 DEF ReadOK
<1>5. RestOK
  BY <1>2, <1>3, <1>4 DEF Init, RestOK, MovedOK
<1>6. holds = [t \in Tabs |-> holds[t]] /\ \A t \in Tabs : FormOK(log, holds[t])
  BY DEF Init, FormOK, HoldOK
<1>7. queue = [t \in Tabs |-> queue[t]] /\ \A t \in Tabs : LaneOK(log, t, queue[t])
  <2>1. \A t \in Tabs : queue[t] = <<>>
    BY DEF Init
  <2>2. <<>> \in Seq(Requests) /\ Len(<<>>) = 0
    BY EmptySeq
  <2> QED BY <2>1, <2>2 DEF Init, LaneOK
<1> QED BY <1>5, <1>6, <1>7 DEF StateOK

LEMMA NextOK == StateOK /\ [Next]_vars => StateOK'
<1> SUFFICES ASSUME StateOK, [Next]_vars PROVE StateOK'
  OBVIOUS
<1>1. ASSUME NEW t \in Tabs, Acts(t) PROVE StateOK'
  BY <1>1, SetStep, LeaveStep, CommitStep, ChoiceStep DEF Acts
<1>2. ASSUME NEW t \in Tabs, Writes(t) PROVE StateOK'
  BY <1>2, StartStep, HandleStep, AnswerStep, RefusedStep DEF Writes
<1>3. ASSUME NEW t \in Tabs, Fails(t) \/ Fetch(t) \/ Deliver(t) PROVE StateOK'
  BY <1>3, FailsStep, FetchStep, DeliverStep
<1>4. ASSUME NEW q \in stray, HandleStray(q) PROVE StateOK'
  BY <1>4, HandleStrayStep
<1>5. CASE UNCHANGED vars
  BY <1>5 DEF StateOK, RestOK, vars
<1> QED BY <1>1, <1>2, <1>3, <1>4, <1>5 DEF Next

LEMMA StateAlways == Spec => []StateOK
  BY InitOK, NextOK, PTL DEF Spec

-----------------------------------------------------------------------------
(* Every part of the state has its type, and a tab never goes on from a    *)
(* version the record has not reached.                                     *)
THEOREM DraftTypes == Spec => []TypeOK
<1>1. StateOK => TypeOK
  <2> SUFFICES ASSUME StateOK PROVE TypeOK
    OBVIOUS
  <2>0. Len(log) \in Nat /\ log \in Logs
    BY DEF StateOK, RestOK, Logs
  <2>1. \A v \in 1..Version : log[v].by \in Tabs \cup {None} /\ log[v].val \in [Fields -> Values]
    <3>1. \A v \in 1..Version : log[v] \in Entry
      BY <2>0 DEF Logs, Version
    <3> QED BY <3>1 DEF Entry
  <2>2. served \in [Tabs -> [version : 1..Version, val : [Fields -> Values]]]
    BY DEF StateOK, RestOK, ReadOK, Version
  <2>3. holds \in [Tabs -> [Fields -> {None} \cup Holds]]
    <3>1. Holds = HoldsAt(log)
      BY DEF Holds, HoldsAt, Version
    <3> HIDE DEF Holds
    <3>2. \A t \in Tabs : /\ holds[t] = [f \in Fields |-> holds[t][f]]
                          /\ \A f \in Fields : holds[t][f] \in {None} \cup Holds
      BY <3>1 DEF StateOK, FormOK, HoldOK, HeldOK
    <3>3. \A t \in Tabs : holds[t] \in [Fields -> {None} \cup Holds]
      BY <3>2
    <3>4. holds = [t \in Tabs |-> holds[t]]
      BY DEF StateOK
    <3> QED BY <3>3, <3>4
  <2>4. \A t \in Tabs : moved[t] \subseteq 1..(Version - 1)
    BY DEF StateOK, RestOK, MovedOK, Version
  <2>5. owed \subseteq Tabs
    BY DEF StateOK, RestOK
  <2>6. \A q \in stray : q.stated \in 1..Version
    <3> SUFFICES ASSUME NEW q \in stray PROVE q.stated \in 1..Version
      OBVIOUS
    <3>1. q.at = "out" /\ AskedOK(log, q)
      BY DEF StateOK, RestOK
    <3> QED BY <2>0, <3>1 DEF AskedOK, StatedOK, Version
  <2> QED BY <2>1, <2>2, <2>3, <2>4, <2>5, <2>6 DEF TypeOK
<1> QED BY <1>1, StateAlways, PTL

(* However many tabs, fields and lost answers: a write the server would    *)
(* take replaces only values its analyst had read, in a record that tab    *)
(* alone moved on since.                                                   *)
THEOREM OnlyTheReadIsReplaced == Spec => []OverwritesOnlyWhatWasRead
<1>1. StateOK => OverwritesOnlyWhatWasRead
  <2> SUFFICES ASSUME StateOK, NEW q \in Arriving, q.at = "out", q.stated = Version,
                      NEW f \in DOMAIN q.vals
               PROVE  /\ log[q.seen[f]].val[f] = q.over[f]
                      /\ \A v \in (q.seen[f] + 1)..Version : log[v].by = q.tab
    BY DEF OverwritesOnlyWhatWasRead
  <2>1. AskedOK(log, q)
    <3>1. CASE q \in stray
      BY <3>1 DEF StateOK, RestOK
    <3>2. ASSUME NEW t \in Tabs, queue[t] # <<>>, q = Head(queue[t]) PROVE AskedOK(log, q)
      <4>1. LaneOK(log, t, queue[t])
        BY DEF StateOK
      <4> QED BY <3>2, <4>1, LaneTail
    <3> QED BY <3>1, <3>2 DEF Arriving
  <2>2. /\ q.over[f] = log[q.seen[f]].val[f] /\ q.seen[f] \in q.read..Len(log)
        /\ q.read \in 1..Len(log)
    BY <2>1 DEF AskedOK, FieldsOK
  <2>3. \A v \in (q.read + 1)..Len(log) : log[v].by = q.tab
    BY <2>1 DEF AskedOK, StatedOK, Version
  <2>4. Len(log) \in Nat
    BY DEF StateOK, RestOK, Logs
  <2>5. ASSUME NEW v \in (q.seen[f] + 1)..Version PROVE log[v].by = q.tab
    <3>1. v \in (q.read + 1)..Len(log)
      BY <2>2, <2>4 DEF Version
    <3> QED BY <2>3, <3>1
  <2> QED BY <2>2, <2>5
<1> QED BY <1>1, StateAlways, PTL

-----------------------------------------------------------------------------
(* What a tab's lane knows of the record: behind its first write none has  *)
(* left; the versions its tab wrote are ones its answers moved the record  *)
(* on from, but for an answer on its way; and a write goes on from no      *)
(* version an answer moved the record on from.                             *)
LaneKnows(L, t, s, m) ==
    /\ \A i \in 2..Len(s) : s[i].at = "queued"
    /\ \A v \in 1..(Len(L) - 1) : L[v + 1].by = t =>
          v \in m \/ (Len(s) >= 1 /\ s[1].at = "done" /\ s[1].stated = v)
    /\ Len(s) >= 1 =>
          /\ s[1].at \in {"out", "refused"} => s[1].stated \notin m
          /\ s[1].at = "refused" => s[1].stated < Len(L)

NoneLost ==
    /\ lost \in Nat
    /\ lost = 0 => stray = {} /\ \A t \in Tabs : LaneKnows(log, t, queue[t], moved[t])

LEMMA AppendAny ==
    ASSUME NEW X, NEW s \in Seq(X), NEW r
    PROVE  /\ Append(s, r) \in Seq(X \cup {r}) /\ Len(Append(s, r)) = Len(s) + 1
           /\ Append(s, r)[Len(s) + 1] = r
           /\ \A i \in 1..Len(s) : Append(s, r)[i] = s[i]
           /\ Len(s) \in Nat
<1>1. s \in Seq(X \cup {r}) /\ r \in X \cup {r}
  BY SeqDef
<1> QED BY <1>1, AppendProperties, LenProperties

LEMMA LaneGrows ==
    ASSUME NEW L, NEW t, NEW X, NEW s \in Seq(X), NEW m, LaneKnows(L, t, s, m),
           NEW r, r.at = "queued"
    PROVE  LaneKnows(L, t, Append(s, r), m)
<1> DEFINE z == Append(s, r)
<1>1. /\ Len(z) = Len(s) + 1 /\ z[Len(s) + 1] = r /\ Len(s) \in Nat
      /\ \A i \in 1..Len(s) : z[i] = s[i]
  BY AppendAny
<1> HIDE DEF z
<1>2. ASSUME NEW i \in 2..Len(z) PROVE z[i].at = "queued"
  <2>1. CASE i = Len(s) + 1
    BY <1>1, <2>1
  <2>2. CASE i \in 2..Len(s)
    BY <1>1, <2>2 DEF LaneKnows
  <2> QED BY <1>1, <2>1, <2>2
<1>3. CASE Len(s) >= 1
  <2>1. z[1] = s[1] /\ Len(z) >= 1
    BY <1>1, <1>3
  <2> QED BY <1>2, <1>3, <2>1 DEF LaneKnows, z
<1>4. CASE Len(s) = 0
  <2>1. z[1].at = "queued"
    BY <1>1, <1>4
  <2> QED BY <1>2, <1>4, <2>1 DEF LaneKnows, z
<1> QED BY <1>1, <1>3, <1>4

(* What is drawn again may send, behind what is there.                     *)
LEMMA DrawKnows ==
    ASSUME NEW t, NEW h, NEW q \in Seq(Requests), NEW S, NEW s, Draw(t, h, q, S, s),
           queue = [u \in Tabs |-> queue[u]], t \in Tabs,
           NEW L, NEW m, LaneKnows(L, t, q, m)
    PROVE  LaneKnows(L, t, queue'[t], m) /\ \A u \in Tabs \ {t} : queue'[u] = queue[u]
<1> DEFINE sent == IF S = {} THEN h ELSE Sent(h, S)
           out == IF S = {} THEN q ELSE Append(q, Request(t, h, S))
           drawn == Redrawn(sent, s)
           more == Owed(drawn)
           lane == IF more = {} THEN out ELSE Append(out, Request(t, drawn, more))
<1>1. queue' = [queue EXCEPT ![t] = lane]
  BY DEF Draw
<1>2. \A g, T : Request(t, g, T).at = "queued"
  BY DEF Request
<1>3. LaneKnows(L, t, out, m) /\ \E X : out \in Seq(X)
  <2>1. CASE S = {}
    BY <2>1
  <2>2. CASE S # {}
    <3>1. out = Append(q, Request(t, h, S))
      BY <2>2
    <3>2. LaneKnows(L, t, Append(q, Request(t, h, S)), m)
      BY <1>2, LaneGrows
    <3>3. Append(q, Request(t, h, S)) \in Seq(Requests \cup {Request(t, h, S)})
      BY AppendAny
    <3> QED BY <3>1, <3>2, <3>3
  <2> QED BY <2>1, <2>2
<1> HIDE DEF out, drawn
<1>4. LaneKnows(L, t, lane, m)
  <2>1. PICK X : out \in Seq(X)
    BY <1>3
  <2> QED BY <1>2, <1>3, <2>1, LaneGrows
<1> HIDE DEF lane
<1> QED BY <1>1, <1>4

(* The head of a lane turned.                                              *)
LEMMA LaneHead ==
    ASSUME NEW s \in Seq(Requests), s # <<>>, NEW r \in Requests
    PROVE  /\ Len(s) \in Nat /\ Len(s) >= 1 /\ Head(s) = s[1]
           /\ Tail(s) \in Seq(Requests) /\ Len(Tail(s)) = Len(s) - 1
           /\ \A i \in 1..Len(Tail(s)) : Tail(s)[i] = s[i + 1]
           /\ Len(<<r>> \o Tail(s)) = Len(s) /\ (<<r>> \o Tail(s))[1] = r
           /\ \A i \in 2..Len(s) : (<<r>> \o Tail(s))[i] = s[i]
<1>1. Len(s) \in Nat /\ Len(s) >= 1 /\ Head(s) = s[1]
  BY EmptySeq, LenProperties, HeadTailProperties
<1> DEFINE w == Tail(s)
<1>2. /\ w \in Seq(Requests) /\ Len(w) = Len(s) - 1
      /\ \A i \in 1..Len(w) : w[i] = s[i + 1]
  BY <1>1, HeadTailProperties
<1> HIDE DEF w
<1>3. <<r>> \in Seq(Requests) /\ Len(<<r>>) = 1 /\ <<r>>[1] = r
  OBVIOUS
<1> DEFINE z == <<r>> \o w
<1>4. /\ Len(z) = 1 + Len(w)
      /\ \A i \in 1..Len(z) : z[i] = IF i <= 1 THEN <<r>>[i] ELSE w[i - 1]
  BY <1>2, <1>3, ConcatProperties
<1> HIDE DEF z
<1>5. Len(z) = Len(s) /\ z[1] = r
  BY <1>1, <1>2, <1>3, <1>4
<1>6. ASSUME NEW i \in 2..Len(s) PROVE z[i] = s[i]
  <2>1. i \in 1..Len(z) /\ i - 1 \in 1..Len(w) /\ (i - 1) + 1 = i /\ ~ (i <= 1)
    BY <1>1, <1>2, <1>5
  <2> QED BY <1>2, <1>4, <2>1
<1> QED BY <1>1, <1>2, <1>5, <1>6 DEF w, z

(* A write answered leaves writes that have not left.                      *)
LEMMA LanePops ==
    ASSUME NEW L, NEW t, NEW s \in Seq(Requests), s # <<>>, NEW m, LaneKnows(L, t, s, m),
           NEW n, m \subseteq n, Head(s).at = "done" => Head(s).stated \in n
    PROVE  LaneKnows(L, t, Tail(s), n) /\ Tail(s) \in Seq(Requests)
<1>1. /\ Len(s) \in Nat /\ Len(s) >= 1 /\ Head(s) = s[1]
      /\ Tail(s) \in Seq(Requests) /\ Len(Tail(s)) = Len(s) - 1
      /\ \A i \in 1..Len(Tail(s)) : Tail(s)[i] = s[i + 1]
  BY EmptySeq, LenProperties, HeadTailProperties
<1>2. ASSUME NEW i \in 1..Len(Tail(s)) PROVE Tail(s)[i].at = "queued"
  <2>1. i + 1 \in 2..Len(s)
    BY <1>1
  <2> QED BY <1>1, <2>1 DEF LaneKnows
<1>3. ASSUME NEW v \in 1..(Len(L) - 1), L[v + 1].by = t PROVE v \in n
  BY <1>1, <1>3 DEF LaneKnows
<1> DEFINE w == Tail(s)
<1>4. \A i \in 1..Len(w) : w[i].at = "queued"
  BY <1>2
<1>5. Len(w) \in Nat /\ w \in Seq(Requests)
  BY <1>1
<1> HIDE DEF w
<1>6. LaneKnows(L, t, w, n)
  BY <1>3, <1>4, <1>5 DEF LaneKnows
<1> QED BY <1>5, <1>6 DEF w

-----------------------------------------------------------------------------
(* Everything but a write that is stored leaves the record alone.          *)
LEMMA OneLane ==
    ASSUME StateOK, NoneLost, NEW t \in Tabs, log' = log, stray' = stray, lost' = lost,
           \A u \in Tabs \ {t} : queue'[u] = queue[u] /\ moved'[u] = moved[u],
           lost = 0 => LaneKnows(log, t, queue'[t], moved'[t])
    PROVE  NoneLost'
  BY DEF NoneLost

LEMMA DrawnLane ==
    ASSUME StateOK, NoneLost, NEW t \in Tabs, NEW h, NEW S, NEW s,
           Draw(t, h, queue[t], S, s), UNCHANGED <<log, stray, moved, lost>>
    PROVE  NoneLost'
<1>1. queue[t] \in Seq(Requests) /\ queue = [u \in Tabs |-> queue[u]]
  BY DEF StateOK, LaneOK
<1>2. CASE lost = 0
  <2>1. LaneKnows(log, t, queue[t], moved[t])
    BY <1>2 DEF NoneLost
  <2>2. LaneKnows(log, t, queue'[t], moved[t]) /\ \A u \in Tabs \ {t} : queue'[u] = queue[u]
    BY <1>1, <2>1, DrawKnows
  <2> QED BY <2>2, OneLane
<1>3. CASE lost # 0
  BY <1>3 DEF NoneLost
<1> QED BY <1>2, <1>3

LEMMA ActsKnow ==
    ASSUME StateOK, NoneLost, NEW t \in Tabs, Acts(t)
    PROVE  NoneLost'
<1>1. PICK f \in Fields : Set(t, f) \/ Leave(t, f) \/ Commit(t, f)
                          \/ KeepMine(t, f) \/ TakeTheirs(t, f)
  BY DEF Acts
<1>2. UNCHANGED <<log, stray, moved, lost>>
  BY <1>1 DEF Set, Leave, Commit, KeepMine, TakeTheirs
<1>3. \E h, S : Draw(t, h, queue[t], S, served[t])
  BY <1>1 DEF Set, Leave, Commit, KeepMine, TakeTheirs
<1> QED BY <1>2, <1>3, DrawnLane

LEMMA StartKnows ==
    ASSUME StateOK, NoneLost, NEW t \in Tabs, Start(t)
    PROVE  NoneLost'
<1>1. /\ queue[t] # <<>> /\ Head(queue[t]).at = "queued" /\ LaneOK(log, t, queue[t])
      /\ queue = [u \in Tabs |-> queue[u]]
      /\ UNCHANGED <<log, stray, moved, lost>>
  BY DEF Start, StateOK
<1> DEFINE q == Head(queue[t])
<1>2. PICK v \in 1..Version :
        /\ Advances(t, q.read, v)
        /\ queue' = [queue EXCEPT ![t] = <<[q EXCEPT !.at = "out", !.stated = v]>> \o Tail(@)]
  BY DEF Start
<1>3. q \in Requests /\ queue[t] \in Seq(Requests) /\ v \in Nat
  <2>1. Len(log) \in Nat
    BY DEF StateOK, RestOK, Logs
  <2> QED BY <1>1, <2>1, LaneTail DEF AskedOK, LaneOK, Version
<1> HIDE DEF q
<1> DEFINE r == Turned(q, "out", v)
           z == <<r>> \o Tail(queue[t])
<1>4. r \in Requests /\ r.at = "out" /\ r.stated = v
  BY <1>3, TurnedOK
<1>5. queue' = [queue EXCEPT ![t] = z]
  BY <1>1, <1>2 DEF Turned
<1> HIDE DEF r
<1>6. /\ Len(z) = Len(queue[t]) /\ z[1] = r /\ Len(queue[t]) >= 1 /\ Len(queue[t]) \in Nat
      /\ \A i \in 2..Len(queue[t]) : z[i] = queue[t][i]
      /\ queue[t][1].at = "queued"
  BY <1>1, <1>3, <1>4, LaneHead
<1> HIDE DEF z
<1>7. v \notin moved[t]
  BY <1>2 DEF Advances
<1>8. lost = 0 => LaneKnows(log, t, z, moved[t])
  BY <1>4, <1>6, <1>7 DEF NoneLost, LaneKnows
<1> QED BY <1>1, <1>5, <1>8, OneLane

LEMMA HandleKnows ==
    ASSUME StateOK, NoneLost, NEW t \in Tabs, Handle(t)
    PROVE  NoneLost'
<1> DEFINE q == Head(queue[t])
<1>1. /\ queue[t] # <<>> /\ q.at = "out" /\ LaneOK(log, t, queue[t])
      /\ queue = [u \in Tabs |-> queue[u]]
      /\ UNCHANGED <<stray, moved, lost>> /\ log \in Logs /\ Len(log) \in Nat
  BY DEF Handle, StateOK, RestOK, Logs
<1>2. AskedOK(log, q) /\ q \in Requests /\ queue[t] \in Seq(Requests) /\ q.tab = t
  BY <1>1, LaneTail DEF AskedOK, LaneOK
<1>a. q = queue[t][1] /\ Len(queue[t]) >= 1 /\ Len(queue[t]) \in Nat
  BY <1>1, <1>2, LaneHead
<1>b. q.stated \in 1..Len(log)
  BY <1>1, <1>2 DEF AskedOK, StatedOK
<1> HIDE DEF q
<1>3. ASSUME NEW a \in {"queued", "out", "done", "refused"}, Became(t, a)
      PROVE  /\ \A u \in Tabs \ {t} : queue'[u] = queue[u]
             /\ Len(queue'[t]) = Len(queue[t]) /\ queue'[t][1].at = a
             /\ queue'[t][1].stated = q.stated
             /\ \A i \in 2..Len(queue[t]) : queue'[t][i] = queue[t][i]
  <2> DEFINE r == Turns(q, a)
  <2>1. r = [q EXCEPT !.at = a] /\ r \in Requests /\ r.at = a /\ r.stated = q.stated
    BY <1>2, TurnedSame
  <2> HIDE DEF r
  <2>2. queue' = [queue EXCEPT ![t] = <<r>> \o Tail(queue[t])]
    BY <1>3, <2>1 DEF Became, q
  <2>3. /\ Len(<<r>> \o Tail(queue[t])) = Len(queue[t]) /\ (<<r>> \o Tail(queue[t]))[1] = r
        /\ \A i \in 2..Len(queue[t]) : (<<r>> \o Tail(queue[t]))[i] = queue[t][i]
    BY <1>1, <1>2, <2>1, LaneHead
  <2> QED BY <1>1, <2>1, <2>2, <2>3
<1>4. CASE q.stated = Version /\ Stored(q) /\ Became(t, "done")
  <2>1. /\ Len(log') = Len(log) + 1 /\ log'[Len(log) + 1].by = t
        /\ \A v \in 1..Len(log) : log'[v] = log[v]
    <3> DEFINE e == [by |-> q.tab,
                     val |-> [f \in Fields |-> IF f \in DOMAIN q.vals THEN q.vals[f]
                                               ELSE log[Version].val[f]]]
    <3>1. log' = Append(log, e)
      BY <1>4 DEF Stored
    <3>2. e.by = t
      BY <1>2
    <3> HIDE DEF e
    <3> QED BY <1>1, <3>1, <3>2, AppendAny DEF Logs
  <2>2. ASSUME lost = 0, NEW u \in Tabs
        PROVE  LaneKnows(log', u, queue'[u], moved[u])
    <3>1. LaneKnows(log, u, queue[u], moved[u])
      BY <2>2 DEF NoneLost
    <3>2. CASE u = t
      <4>1. ASSUME NEW v \in 1..(Len(log') - 1), log'[v + 1].by = t
            PROVE  v \in moved[t] \/ v = q.stated
        <5>1. CASE v = Len(log)
          BY <1>4, <5>1 DEF Version
        <5>2. CASE v \in 1..(Len(log) - 1)
          <6>1. log[v + 1].by = t
            BY <1>1, <2>1, <4>1, <5>2
          <6> QED BY <1>1, <1>a, <3>1, <3>2, <5>2, <6>1 DEF LaneKnows
        <5> QED BY <1>1, <2>1, <5>1, <5>2
      <4> QED BY <1>3, <1>4, <1>a, <2>1, <3>1, <3>2, <4>1 DEF LaneKnows
    <3>3. CASE u # t
      <4>1. queue'[u] = queue[u]
        BY <1>3, <1>4, <3>3
      <4>2. ASSUME NEW v \in 1..(Len(log') - 1), log'[v + 1].by = u
            PROVE  v \in 1..(Len(log) - 1) /\ log[v + 1].by = u
        BY <1>1, <2>1, <3>3, <4>2
      <4>3. \A n : n < Len(log) /\ n \in Nat => n < Len(log')
        BY <1>1, <2>1
      <4>4. ASSUME Len(queue[u]) >= 1
            PROVE  queue[u][1].stated \in Nat
        <5>1. LaneOK(log, u, queue[u]) /\ queue[u] \in Seq(Requests)
          BY <1>1, StateOK DEF StateOK, LaneOK
        <5>2. queue[u][1] \in Requests
          BY <4>4, <5>1, LenProperties
        <5> DEFINE p == queue[u][1]
        <5>3. p \in Requests
          BY <5>2
        <5> HIDE DEF p
        <5>4. p.stated \in Nat
          BY <5>3 DEF Requests
        <5> QED BY <5>4 DEF p
      <4> QED BY <3>1, <4>1, <4>2, <4>3, <4>4 DEF LaneKnows
    <3> QED BY <3>2, <3>3
  <2> QED BY <1>1, <2>2 DEF NoneLost
<1>5. CASE q.stated # Version /\ Became(t, "refused") /\ UNCHANGED <<log, owed>>
  <2>1. q.stated < Len(log)
    BY <1>1, <1>5, <1>b DEF Version
  <2>2. lost = 0 => LaneKnows(log, t, queue'[t], moved[t])
    BY <1>1, <1>3, <1>5, <1>a, <2>1 DEF NoneLost, LaneKnows
  <2>3. \A u \in Tabs \ {t} : queue'[u] = queue[u]
    BY <1>3, <1>5
  <2> QED BY <1>1, <1>5, <2>2, <2>3, OneLane
<1> QED BY <1>4, <1>5 DEF Handle, q

LEMMA AnswersKnow ==
    ASSUME StateOK, NoneLost, NEW t \in Tabs, Answer(t) \/ Refused(t)
    PROVE  NoneLost'
<1>1. /\ queue[t] # <<>> /\ LaneOK(log, t, queue[t]) /\ queue[t] \in Seq(Requests)
      /\ queue = [u \in Tabs |-> queue[u]] /\ moved = [u \in Tabs |-> moved[u]]
      /\ UNCHANGED <<log, stray, lost>>
  BY DEF Answer, Refused, StateOK, RestOK, LaneOK
<1>2. /\ \A u \in Tabs \ {t} : moved'[u] = moved[u]
      /\ moved[t] \subseteq moved'[t]
      /\ Head(queue[t]).at = "done" => Head(queue[t]).stated \in moved'[t]
  BY <1>1 DEF Answer, Refused
<1>3. \E h : Draw(t, h, Tail(queue[t]), {}, served[t])
  BY DEF Answer, Refused, NotStored
<1>4. CASE lost = 0
  <2>1. LaneKnows(log, t, Tail(queue[t]), moved'[t]) /\ Tail(queue[t]) \in Seq(Requests)
    BY <1>1, <1>2, <1>4, LanePops DEF NoneLost
  <2>2. /\ LaneKnows(log, t, queue'[t], moved'[t])
        /\ \A u \in Tabs \ {t} : queue'[u] = queue[u]
    BY <1>1, <1>3, <2>1, DrawKnows
  <2> QED BY <1>1, <1>2, <2>2, OneLane
<1>5. CASE lost # 0
  BY <1>1, <1>5 DEF NoneLost
<1> QED BY <1>4, <1>5

LEMMA NextKnows == StateOK /\ NoneLost /\ [Next]_vars => NoneLost'
<1> SUFFICES ASSUME StateOK, NoneLost, [Next]_vars PROVE NoneLost'
  OBVIOUS
<1>1. ASSUME NEW t \in Tabs, Acts(t) \/ Writes(t) PROVE NoneLost'
  BY <1>1, ActsKnow, StartKnows, HandleKnows, AnswersKnow DEF Writes
<1>2. ASSUME NEW t \in Tabs, Fails(t) PROVE NoneLost'
  <2>1. lost' = lost + 1 /\ lost \in Nat
    BY <1>2 DEF Fails, NoneLost
  <2> QED BY <2>1 DEF NoneLost
<1>3. ASSUME NEW t \in Tabs, Fetch(t) PROVE NoneLost'
  BY <1>3 DEF Fetch, NoneLost
<1>4. ASSUME NEW t \in Tabs, Deliver(t) PROVE NoneLost'
  <2>1. UNCHANGED <<log, stray, moved, lost>>
    BY <1>4 DEF Deliver
  <2>2. UNCHANGED queue \/ \E h, s : Draw(t, h, queue[t], {}, s)
    BY <1>4 DEF Deliver
  <2>3. CASE UNCHANGED queue
    BY <2>1, <2>3 DEF NoneLost
  <2> QED BY <2>1, <2>2, <2>3, DrawnLane
<1>5. ASSUME NEW q \in stray, HandleStray(q) PROVE NoneLost'
  BY <1>5 DEF HandleStray, NoneLost
<1>6. CASE UNCHANGED vars
  BY <1>6 DEF vars, NoneLost
<1> QED BY <1>1, <1>2, <1>3, <1>4, <1>5, <1>6 DEF Next

(* state/spec.md: while no answer is lost, a write is refused only where   *)
(* somebody else wrote the record: the version after the one it stated is  *)
(* not its tab's own, whose answer would have moved the tab on from there. *)
THEOREM OnlyOthersRefuse == Spec => []RefusedByOthersOnly
<1>1. Init => NoneLost
  <2> SUFFICES ASSUME Init PROVE NoneLost
    OBVIOUS
  <2>1. Len(log) = 1 /\ lost = 0 /\ stray = {} /\ \A t \in Tabs : queue[t] = <<>>
    BY DEF Init
  <2>2. Len(<<>>) = 0
    BY EmptySeq
  <2> QED BY <2>1, <2>2 DEF NoneLost, LaneKnows
<1>2. StateOK /\ NoneLost => RefusedByOthersOnly
  <2> SUFFICES ASSUME StateOK, NoneLost, NEW t \in Tabs, queue[t] # <<>>,
                      Head(queue[t]).at = "refused", lost = 0
               PROVE  \E v \in (Head(queue[t]).stated + 1)..Version : log[v].by # t
    BY DEF RefusedByOthersOnly
  <2>1. LaneOK(log, t, queue[t]) /\ queue[t] \in Seq(Requests) /\ Len(log) \in Nat
    BY DEF StateOK, RestOK, LaneOK, Logs
  <2>2. AskedOK(log, Head(queue[t]))
    BY <2>1, LaneTail
  <2>3. Head(queue[t]) = queue[t][1] /\ Len(queue[t]) >= 1
    BY <2>1, EmptySeq, LenProperties, HeadTailProperties
  <2> DEFINE n == Head(queue[t]).stated
  <2>4. n \in 1..(Len(log) - 1) /\ n \notin moved[t]
    BY <2>1, <2>2, <2>3 DEF AskedOK, StatedOK, NoneLost, LaneKnows
  <2>5. log[n + 1].by # t
    BY <2>3, <2>4 DEF NoneLost, LaneKnows
  <2>6. n + 1 \in (n + 1)..Version
    BY <2>1, <2>4 DEF Version
  <2> QED BY <2>5, <2>6
<1> QED BY <1>1, <1>2, NextKnows, StateAlways, PTL DEF Spec
=============================================================================
