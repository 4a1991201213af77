------------------------- MODULE MergeReviewsProofs -------------------------
(***************************************************************************)
(* A refused edit is kept, whichever tabs its analyst has open.            *)
(*                                                                         *)
(* The records are read, and deleted later.  What a tab read is what is    *)
(* held, but for a record put there in between; a read id never names      *)
(* another record, since a record keeps its id for as long as it is there  *)
(* and no id is given twice.  Both are conjuncts of the inductive          *)
(* invariant.                                                              *)
(*                                                                         *)
(* And an answer "mine" has written what it drops.                         *)
(***************************************************************************)
EXTENDS MergeReviews, TLAPS

Kept == [Rows -> Records \cup {Absent}]

ShownRows == UNION {[R -> 0..MaxVersion] : R \in SUBSET Rows}

SaveRequests ==
    [at : {"save", "record"}, row : Rows, version : 1..(MaxVersion - 1),
     mine : Edits, base : Edits]

JudgeRequests ==
    [at : {"judge"}, read : Kept, todo : SUBSET Rows, settled : SUBSET Rows,
     shown : ShownRows]

AnswerRequests ==
    [at : {"resolve", "overwrite"}, choice : {"mine", "theirs"}, read : Kept,
     todo : SUBSET Rows, row : Rows \cup {Absent}, version : 0..MaxVersion,
     written : SUBSET Rows, gone : SUBSET Rows, shown : ShownRows]

(* What a request in flight holds.                                         *)
RequestOK(q) ==
    \/ q = Idle
    \/ q \in SaveRequests
    \/ q \in JudgeRequests /\ \A r \in q.todo \cup q.settled : q.read[r] # Absent
    \/ q \in AnswerRequests /\ (q.at = "overwrite" => q.row \in Rows /\ q.read[q.row] # Absent
                                                     /\ q.version \in 1..MaxVersion)
                            /\ \A r \in q.todo : q.read[r] # Absent

StateOK ==
    /\ rows \in [Rows -> RowValues \cup {Absent}]
    /\ held \in [Analysts -> Kept]
    /\ serial \in Nat
    /\ copy \in [Sessions -> [Rows -> RowValues \cup {Absent}]]
    /\ owed \in [Analysts -> [Rows -> Edits \cup {Absent}]]
    /\ between \in [Analysts -> SUBSET Rows]
    /\ review \in [Sessions -> ShownRows]
    /\ asked \in [Sessions -> Nat]
    /\ \A s \in Sessions : asked[s] <= MaxRequests[s]
    /\ req = [s \in Sessions |-> req[s]]

(* What a tab read is what is held, but for a record put there since; and  *)
(* a read id names no other record.                                        *)
ReadsOf(a, read) ==
    /\ \A r \in Rows : (held[a][r] # Absent /\ r \notin between[a]) => read[r] = held[a][r]
    /\ \A r \in Rows : read[r] # Absent =>
          /\ read[r].id < serial
          /\ \A b \in Analysts, q \in Rows :
                (held[b][q] # Absent /\ held[b][q].id = read[r].id) => b = a /\ q = r

ReadIsCurrent ==
    \A s \in Sessions :
        req[s].at \in {"judge", "resolve", "overwrite"} => ReadsOf(OwnerOf[s], req[s].read)

IdsAreUnique ==
    /\ \A a \in Analysts, r \in Rows : held[a][r] # Absent => held[a][r].id < serial
    /\ \A a, b \in Analysts, r, q \in Rows :
          (held[a][r] # Absent /\ held[b][q] # Absent /\ held[a][r].id = held[b][q].id)
             => a = b /\ r = q

RequestsOK == \A s \in Sessions : RequestOK(req[s])

IInv == StateOK /\ RequestsOK /\ ReadIsCurrent /\ IdsAreUnique /\ RefusedEditIsKept

-----------------------------------------------------------------------------
(* A request says at which step it is.                                     *)
LEMMA Kinds ==
    ASSUME NEW q, RequestOK(q)
    PROVE  /\ q.at = "idle" => q = Idle
           /\ q.at \in {"save", "record"} => q \in SaveRequests
           /\ q.at = "judge" => q \in JudgeRequests /\ \A r \in q.todo \cup q.settled : q.read[r] # Absent
           /\ q.at \in {"resolve", "overwrite"} =>
                 /\ q \in AnswerRequests
                 /\ q.at = "overwrite" => q.row \in Rows /\ q.read[q.row] # Absent
                                          /\ q.version \in 1..MaxVersion
                 /\ \A r \in q.todo : q.read[r] # Absent
<1>1. CASE q = Idle
  BY <1>1 DEF Idle
<1>2. CASE q \in SaveRequests
  BY <1>2 DEF SaveRequests
<1>3. CASE q \in JudgeRequests /\ \A r \in q.todo \cup q.settled : q.read[r] # Absent
  BY <1>3 DEF JudgeRequests
<1>4. CASE /\ q \in AnswerRequests
           /\ q.at = "overwrite" => q.row \in Rows /\ q.read[q.row] # Absent
                                    /\ q.version \in 1..MaxVersion
           /\ \A r \in q.todo : q.read[r] # Absent
  BY <1>4 DEF AnswerRequests
<1> QED BY <1>1, <1>2, <1>3, <1>4 DEF RequestOK

(* Writing a row keeps it a row.                                           *)
LEMMA WrittenIsARow ==
    ASSUME NEW row \in RowValues, NEW mine \in Edits, row.version < MaxVersion
    PROVE  Written(row, mine) \in RowValues
<1>1. PICK F \in SUBSET Fields : mine \in [F -> Texts]
  BY DEF Edits
<1>2. [f \in Fields |-> IF f \in DOMAIN mine THEN mine[f] ELSE row.text[f]] \in [Fields -> Texts]
  BY <1>1 DEF RowValues
<1>3. row.version + 1 \in 1..MaxVersion
  BY ReviewsAssumption DEF RowValues
<1> QED BY <1>2, <1>3 DEF Written, RowValues

LEMMA RowIsThere ==
    ASSUME StateOK, NEW r \in Rows, rows[r] # Absent
    PROVE  rows[r] \in RowValues
BY DEF StateOK

-----------------------------------------------------------------------------
(* Only the request of one tab changes, and what it read is what is held.  *)
LEMMA OnlyTheRequest ==
    ASSUME IInv, NEW s \in Sessions, UNCHANGED <<held, owed, serial, between>>,
           req' = [t \in Sessions |-> IF t = s THEN req'[s] ELSE req[t]],
           RequestOK(req'[s]),
           req'[s].at \in {"judge", "resolve", "overwrite"}
             => ReadsOf(OwnerOf[s], req'[s].read)
    PROVE  /\ RequestsOK' /\ ReadIsCurrent' /\ IdsAreUnique' /\ RefusedEditIsKept'
           /\ req' = [t \in Sessions |-> req'[t]]
<1> USE DEF IInv
<1>1. \A t \in Sessions : t # s => req'[t] = req[t]
  OBVIOUS
<1>2. RequestsOK'
  BY <1>1 DEF RequestsOK
<1>3. ReadIsCurrent'
  BY <1>1 DEF ReadIsCurrent, ReadsOf
<1>4. IdsAreUnique' /\ RefusedEditIsKept'
  BY DEF IdsAreUnique, RefusedEditIsKept
<1>5. req' = [t \in Sessions |-> req'[t]]
  BY <1>1
<1> QED BY <1>2, <1>3, <1>4, <1>5

(* The tab answers, and nothing it is kept for changes.                    *)
LEMMA Answered ==
    ASSUME IInv, NEW s \in Sessions, Answer(s)
    PROVE  /\ req' = [t \in Sessions |-> IF t = s THEN req'[s] ELSE req[t]]
           /\ req'[s] = Idle /\ RequestOK(req'[s])
           /\ req'[s].at \notin {"judge", "resolve", "overwrite"}
           /\ \A t \in Sessions : t # s => req'[t] = req[t]
           /\ req' = [t \in Sessions |-> req'[t]]
<1>1. req = [t \in Sessions |-> req[t]]
  BY DEF IInv, StateOK
<1>2. /\ req' = [t \in Sessions |-> IF t = s THEN req'[s] ELSE req[t]]
      /\ req'[s] = Idle
  BY <1>1 DEF Answer
<1>3. Idle.at = "idle"
  BY DEF Idle
<1> QED BY <1>2, <1>3 DEF RequestOK

LEMMA AskedFor ==
    ASSUME IInv, NEW s \in Sessions, NEW op, NEW request, Ask(s, op, request),
           RequestOK(request),
           request.at \in {"judge", "resolve", "overwrite"}
             => request.read = held[OwnerOf[s]]
    PROVE  IInv'
<1>1. req = [t \in Sessions |-> req[t]]
  BY DEF IInv, StateOK
<1>2. /\ req' = [t \in Sessions |-> IF t = s THEN req'[s] ELSE req[t]]
      /\ req'[s] = request
  BY <1>1 DEF Ask
<1>3. UNCHANGED <<rows, held, serial, copy, review, owed, between>>
  BY DEF Ask
<1>a. request.at \in {"judge", "resolve", "overwrite"} => ReadsOf(OwnerOf[s], request.read)
  <2>1. OwnerOf[s] \in Analysts
    BY ReviewsAssumption
  <2> QED BY <2>1 DEF IInv, IdsAreUnique, ReadsOf
<1>4. /\ RequestsOK' /\ ReadIsCurrent' /\ IdsAreUnique' /\ RefusedEditIsKept'
      /\ req' = [t \in Sessions |-> req'[t]]
  BY <1>2, <1>3, <1>a, OnlyTheRequest
<1>5. /\ asked' \in [Sessions -> Nat]
      /\ \A t \in Sessions : asked'[t] <= MaxRequests[t]
  <2>1. /\ asked \in [Sessions -> Nat] /\ \A t \in Sessions : asked[t] <= MaxRequests[t]
        /\ asked' = [asked EXCEPT ![s] = asked[s] + 1] /\ asked[s] < MaxRequests[s]
    BY DEF Ask, IInv, StateOK
  <2>2. MaxRequests \in [Sessions -> Nat]
    BY ReviewsAssumption
  <2>3. asked' \in [Sessions -> Nat]
    BY <2>1
  <2>4. \A t \in Sessions : asked'[t] = IF t = s THEN asked[s] + 1 ELSE asked[t]
    BY <2>1
  <2>5. \A t \in Sessions : asked[t] \in Nat /\ MaxRequests[t] \in Nat
    BY <2>1, <2>2
  <2> QED BY <2>1, <2>3, <2>4, <2>5
<1> QED BY <1>3, <1>4, <1>5 DEF IInv, StateOK

LEMMA SaveKeeps ==
    ASSUME IInv, NEW s \in Sessions, Save(s)
    PROVE  IInv'
<1>1. PICK r \in Rows, mine \in Forms :
        /\ copy[s][r] # Absent
        /\ copy[s][r].version < MaxVersion
        /\ Ask(s, "save",
               [at |-> "save", row |-> r, version |-> copy[s][r].version, mine |-> mine,
                base |-> [f \in DOMAIN mine |-> copy[s][r].text[f]]])
  BY DEF Save
<1>2. copy[s][r] \in RowValues
  BY <1>1 DEF IInv, StateOK
<1>3. PICK F \in SUBSET Fields \ {{}} : mine \in [F -> Texts]
  BY FormsAssumption DEF Edits
<1> DEFINE base == [f \in DOMAIN mine |-> copy[s][r].text[f]]
           request == [at |-> "save", row |-> r, version |-> copy[s][r].version,
                       mine |-> mine, base |-> base]
<1>4. base \in [F -> Texts]
  BY <1>2, <1>3 DEF RowValues
<1>5. base \in Edits /\ mine \in Edits
  BY <1>3, <1>4 DEF Edits
<1>6. copy[s][r].version \in 1..(MaxVersion - 1)
  BY <1>1, <1>2, ReviewsAssumption DEF RowValues
<1> HIDE DEF base
<1>7. request \in SaveRequests /\ request.at = "save"
  BY <1>5, <1>6 DEF SaveRequests
<1>8. Ask(s, "save", request)
  BY <1>1 DEF base
<1> HIDE DEF request
<1> QED BY <1>7, <1>8, AskedFor DEF RequestOK

LEMMA WriteKeeps ==
    ASSUME IInv, NEW s \in Sessions, Write(s)
    PROVE  IInv'
<1> DEFINE r == req[s].row
<1>1. UNCHANGED <<held, serial, copy, review, asked, owed, between>> /\ req[s].at = "save"
  BY DEF Write
<1>2. req[s] \in SaveRequests
  BY <1>1, Kinds DEF IInv, RequestsOK
<1>3. r \in Rows
  BY <1>2 DEF SaveRequests
<1>4. CASE req' = [req EXCEPT ![s].at = "record"] /\ UNCHANGED rows
  <2>1. req' = [t \in Sessions |-> IF t = s THEN req'[s] ELSE req[t]]
    BY <1>4 DEF IInv, StateOK
  <2>2. req'[s] = [req[s] EXCEPT !.at = "record"]
    BY <1>4 DEF IInv, StateOK
  <2>3. req'[s] \in SaveRequests /\ req'[s].at = "record"
    BY <1>2, <2>2 DEF SaveRequests
  <2>4. RequestOK(req'[s])
    BY <2>3 DEF RequestOK
  <2>5. /\ RequestsOK' /\ ReadIsCurrent' /\ IdsAreUnique' /\ RefusedEditIsKept'
        /\ req' = [t \in Sessions |-> req'[t]]
    BY <1>1, <2>1, <2>3, <2>4, OnlyTheRequest
  <2> QED BY <1>1, <1>4, <2>5 DEF IInv, StateOK
<1>5. CASE Answer(s) /\ rows' \in [Rows -> RowValues \cup {Absent}]
  <2>1. /\ RequestsOK' /\ ReadIsCurrent' /\ IdsAreUnique' /\ RefusedEditIsKept'
        /\ req' = [t \in Sessions |-> req'[t]]
    BY <1>1, <1>5, Answered, OnlyTheRequest
  <2> QED BY <1>1, <1>5, <2>1 DEF IInv, StateOK
<1>6. CASE rows[r] = Absent
  BY <1>5, <1>6 DEF Write, IInv, StateOK
<1>7. CASE rows[r] # Absent /\ rows[r].version # req[s].version
  BY <1>4, <1>7 DEF Write
<1>8. CASE rows[r] # Absent /\ rows[r].version = req[s].version
  <2>1. rows[r] \in RowValues
    BY <1>3, <1>8, RowIsThere DEF IInv
  <2>2. rows[r].version < MaxVersion /\ req[s].mine \in Edits
    BY <1>2, <1>8, ReviewsAssumption DEF SaveRequests
  <2>3. Written(rows[r], req[s].mine) \in RowValues
    BY <2>1, <2>2, WrittenIsARow
  <2>4. rows' = [rows EXCEPT ![r] = Written(@, req[s].mine)] /\ Answer(s)
    BY <1>8 DEF Write
  <2>5. rows' \in [Rows -> RowValues \cup {Absent}]
    BY <1>3, <2>3, <2>4 DEF IInv, StateOK
  <2> QED BY <1>5, <2>4, <2>5
<1> QED BY <1>6, <1>7, <1>8

LEMMA UpsertedIsARecord ==
    ASSUME NEW old \in Records \cup {Absent}, NEW base \in Edits, NEW mine \in Edits,
           serial \in Nat
    PROVE  /\ Upserted(old, base, mine) \in Records
           /\ Upserted(old, base, mine).mine = mine
           /\ Upserted(old, base, mine).id = IF old = Absent THEN serial ELSE old.id
           /\ Upserted(old, base, mine) # Absent
<1>1. CASE old = Absent
  BY <1>1, AbsentIsNone DEF Upserted, Records
<1>2. CASE old # Absent
  BY <1>2, AbsentIsNone DEF Upserted, Records
<1> QED BY <1>1, <1>2

LEMMA RecordKeeps ==
    ASSUME IInv, NEW s \in Sessions, Record(s)
    PROVE  IInv'
<1> DEFINE r == req[s].row
           a == OwnerOf[s]
           new == Upserted(held[a][r], req[s].base, req[s].mine)
<1>1. /\ req[s] \in SaveRequests
      /\ UNCHANGED <<rows, copy, review, asked>>
      /\ Answer(s)
  BY Kinds DEF Record, IInv, RequestsOK
<1>2. r \in Rows /\ a \in Analysts /\ req[s].base \in Edits /\ req[s].mine \in Edits
  BY <1>1, ReviewsAssumption DEF SaveRequests
<1>3. /\ held \in [Analysts -> Kept] /\ held[a] \in Kept /\ serial \in Nat
      /\ held[a][r] \in Records \cup {Absent}
      /\ between \in [Analysts -> SUBSET Rows]
      /\ owed \in [Analysts -> [Rows -> Edits \cup {Absent}]]
  BY <1>2 DEF IInv, StateOK, Kept
<1>4. /\ new \in Records /\ new.mine = req[s].mine /\ new # Absent
      /\ new.id = IF held[a][r] = Absent THEN serial ELSE held[a][r].id
  <2>1. held[a][r] \in Records \cup {Absent} /\ serial \in Nat
    BY <1>3
  <2>2. req[s].base \in Edits /\ req[s].mine \in Edits
    BY <1>2
  <2> QED
    <3> DEFINE old == held[a][r]
               base == req[s].base
               mine == req[s].mine
    <3>1. old \in Records \cup {Absent} /\ base \in Edits /\ mine \in Edits /\ serial \in Nat
      BY <2>1, <2>2
    <3> HIDE DEF old, base, mine, a, r
    <3>2. /\ Upserted(old, base, mine) \in Records
          /\ Upserted(old, base, mine).mine = mine
          /\ Upserted(old, base, mine).id = IF old = Absent THEN serial ELSE old.id
          /\ Upserted(old, base, mine) # Absent
      BY <3>1, UpsertedIsARecord
    <3> QED BY <3>2 DEF old, base, mine
<1>5. /\ held' = [held EXCEPT ![a][r] = new]
      /\ owed' = [owed EXCEPT ![a][r] = req[s].mine]
      /\ serial' = IF held[a][r] = Absent THEN serial + 1 ELSE serial
      /\ between' = [between EXCEPT ![a] = IF Reading(a) THEN @ \cup {r} ELSE @ \ {r}]
  BY DEF Record
<1> HIDE DEF new, r, a
<1>b. /\ between' \in [Analysts -> SUBSET Rows]
      /\ \A b \in Analysts, q \in Rows :
            q \in between'[b] <=> IF b = a /\ q = r THEN Reading(a) ELSE q \in between[b]
  BY <1>2, <1>3, <1>5
<1>6. held' \in [Analysts -> Kept]
  BY <1>2, <1>3, <1>4, <1>5 DEF Kept
<1>7. owed' \in [Analysts -> [Rows -> Edits \cup {Absent}]]
  BY <1>2, <1>3, <1>5
<1>8. \A b \in Analysts, q \in Rows :
         held'[b][q] = IF b = a /\ q = r THEN new ELSE held[b][q]
  BY <1>2, <1>3, <1>5 DEF Kept
<1>9. \A b \in Analysts, q \in Rows :
         owed'[b][q] = IF b = a /\ q = r THEN req[s].mine ELSE owed[b][q]
  BY <1>2, <1>3, <1>5
<1>10. serial' \in Nat /\ serial' >= serial
  BY <1>3, <1>5
<1>11. /\ \A t \in Sessions : t # s => req'[t] = req[t]
       /\ req'[s] = Idle /\ RequestOK(req'[s])
       /\ req'[s].at \notin {"judge", "resolve", "overwrite"}
       /\ req' = [t \in Sessions |-> req'[t]]
  BY <1>1, Answered
<1>12. StateOK'
  BY <1>1, <1>6, <1>7, <1>10, <1>11, <1>b DEF IInv, StateOK
<1>13. RequestsOK'
  BY <1>11 DEF IInv, RequestsOK
<1>15. \A b \in Analysts, q \in Rows : held[b][q] # Absent => held[b][q].id < serial
  BY DEF IInv, IdsAreUnique
<1>16. \A b \in Analysts, q \in Rows : held[b][q] # Absent => held[b][q].id \in Nat
  BY <1>3 DEF Kept, Records
<1>14. ReadIsCurrent'
  <2> SUFFICES ASSUME NEW t \in Sessions, req'[t].at \in {"judge", "resolve", "overwrite"}
               PROVE  ReadsOf(OwnerOf[t], req[t].read)'
    BY DEF ReadIsCurrent
  <2> DEFINE c == OwnerOf[t]
             read == req[t].read
  <2>1. req'[t] = req[t] /\ t # s
    BY <1>11
  <2>2. ReadsOf(c, read) /\ c \in Analysts /\ read \in Kept
    BY <2>1, Kinds, ReviewsAssumption
       DEF IInv, ReadIsCurrent, RequestsOK, JudgeRequests, AnswerRequests
  <2>3. c = a => r \in between'[a]
    BY <1>2, <1>b, <2>1 DEF Reading
  <2> HIDE DEF c, read
  <2>4. ASSUME NEW x \in Rows, held'[c][x] # Absent, x \notin between'[c]
        PROVE  read[x] = held'[c][x]
    BY <1>8, <1>b, <2>2, <2>3, <2>4 DEF ReadsOf
  <2>5. ASSUME NEW x \in Rows, read[x] # Absent
        PROVE  /\ read[x].id < serial'
               /\ \A b \in Analysts, q \in Rows :
                     (held'[b][q] # Absent /\ held'[b][q].id = read[x].id) => b = c /\ q = x
    <3>1. read[x].id \in Nat /\ read[x].id < serial /\ serial' \in Nat /\ serial \in Nat
      BY <1>3, <1>10, <2>2, <2>5 DEF ReadsOf, Kept, Records
    <3>2. read[x].id < serial'
      BY <1>10, <3>1
    <3>3. ASSUME NEW b \in Analysts, NEW q \in Rows, held'[b][q] # Absent,
                 held'[b][q].id = read[x].id
          PROVE  b = c /\ q = x
      <4>1. CASE ~(b = a /\ q = r)
        BY <1>8, <2>2, <2>5, <3>3, <4>1 DEF ReadsOf
      <4>2. CASE b = a /\ q = r
        <5>1. new.id = read[x].id
          BY <1>8, <3>3, <4>2
        <5>2. held[a][r] # Absent /\ held[a][r].id = read[x].id
          BY <1>4, <3>1, <5>1
        <5> QED BY <1>2, <2>2, <2>5, <4>2, <5>2 DEF ReadsOf
      <4> QED BY <4>1, <4>2
    <3> QED BY <3>2, <3>3
  <2>6. ReadsOf(c, read)'
    <3>1. c' = c /\ read' = read
      BY <2>1 DEF c, read
    <3> QED BY <2>4, <2>5, <3>1 DEF ReadsOf
  <2> QED BY <2>1, <2>6 DEF c, read
<1>17. IdsAreUnique'
  <2>1. \A b \in Analysts, q \in Rows : held'[b][q] # Absent => held'[b][q].id < serial'
    BY <1>2, <1>3, <1>4, <1>5, <1>8, <1>10, <1>15, <1>16
  <2>2. ASSUME NEW b \in Analysts, NEW c \in Analysts, NEW p \in Rows, NEW q \in Rows,
               held'[b][p] # Absent, held'[c][q] # Absent, held'[b][p].id = held'[c][q].id
        PROVE  b = c /\ p = q
    <3>1. \A d \in Analysts, x \in Rows :
             (held[d][x] # Absent /\ held[d][x].id = new.id) => d = a /\ x = r
      BY <1>2, <1>4, <1>15, <1>16, <1>3 DEF IInv, IdsAreUnique
    <3>2. CASE b = a /\ p = r
      BY <1>8, <2>2, <3>1, <3>2
    <3>3. CASE c = a /\ q = r
      BY <1>8, <2>2, <3>1, <3>3
    <3>4. CASE ~(b = a /\ p = r) /\ ~(c = a /\ q = r)
      BY <1>8, <2>2, <3>4 DEF IInv, IdsAreUnique
    <3> QED BY <3>2, <3>3, <3>4
  <2> QED BY <2>1, <2>2 DEF IdsAreUnique
<1>18. RefusedEditIsKept'
  BY <1>4, <1>8, <1>9, <1>b DEF IInv, RefusedEditIsKept
<1> QED BY <1>12, <1>13, <1>14, <1>17, <1>18 DEF IInv

LEMMA RemoveKeeps ==
    ASSUME IInv, NEW s \in Sessions, Remove(s)
    PROVE  IInv'
<1>1. PICK r \in Rows :
        /\ asked[s] < MaxRequests[s]
        /\ rows' = [rows EXCEPT ![r] = Absent]
        /\ asked' = [asked EXCEPT ![s] = asked[s] + 1]
        /\ UNCHANGED <<held, serial, copy, review, req, owed, between>>
  BY DEF Remove
<1>2. asked' \in [Sessions -> Nat] /\ \A t \in Sessions : asked'[t] <= MaxRequests[t]
  <2>1. /\ asked \in [Sessions -> Nat] /\ \A t \in Sessions : asked[t] <= MaxRequests[t]
    BY DEF IInv, StateOK
  <2>2. MaxRequests \in [Sessions -> Nat]
    BY ReviewsAssumption
  <2>3. asked' \in [Sessions -> Nat]
    BY <1>1, <2>1
  <2>4. \A t \in Sessions : asked'[t] = IF t = s THEN asked[s] + 1 ELSE asked[t]
    BY <1>1, <2>1
  <2>5. \A t \in Sessions : asked[t] \in Nat /\ MaxRequests[t] \in Nat
    BY <2>1, <2>2
  <2> QED BY <1>1, <2>1, <2>3, <2>4, <2>5
<1>3. rows' \in [Rows -> RowValues \cup {Absent}]
  BY <1>1 DEF IInv, StateOK
<1>4. StateOK'
  BY <1>1, <1>2, <1>3 DEF IInv, StateOK
<1>5. RequestsOK' /\ ReadIsCurrent' /\ IdsAreUnique' /\ RefusedEditIsKept'
  BY <1>1 DEF IInv, RequestsOK, ReadIsCurrent, ReadsOf, IdsAreUnique, RefusedEditIsKept
<1> QED BY <1>4, <1>5 DEF IInv

LEMMA LookKeeps ==
    ASSUME IInv, NEW s \in Sessions, Look(s)
    PROVE  IInv'
<1>1. StateOK'
  BY DEF Look, IInv, StateOK
<1>2. RequestsOK' /\ ReadIsCurrent' /\ IdsAreUnique' /\ RefusedEditIsKept'
  BY DEF Look, IInv, RequestsOK, ReadIsCurrent, ReadsOf, IdsAreUnique, RefusedEditIsKept
<1> QED BY <1>1, <1>2 DEF IInv

-----------------------------------------------------------------------------
LEMMA PendingKeeps ==
    ASSUME IInv, NEW s \in Sessions, Pending(s)
    PROVE  IInv'
<1> DEFINE request == [at |-> "judge", read |-> Mine(s), todo |-> Recorded(Mine(s)),
                       settled |-> {}, shown |-> <<>>]
<1>1. Mine(s) \in Kept /\ Recorded(Mine(s)) \in SUBSET Rows
  BY ReviewsAssumption DEF IInv, StateOK, Mine, Recorded
<1>2. <<>> \in ShownRows
  <2>1. <<>> \in [{} -> 0..MaxVersion]
    OBVIOUS
  <2> QED BY <2>1 DEF ShownRows
<1>3. request \in JudgeRequests
      /\ \A r \in request.todo \cup request.settled : request.read[r] # Absent
  BY <1>1, <1>2 DEF JudgeRequests, Recorded
<1>4. request.read = held[OwnerOf[s]]
  BY DEF Mine
<1>5. Ask(s, "pending", request)
  BY DEF Pending
<1> HIDE DEF request
<1> QED BY <1>3, <1>4, <1>5, AskedFor DEF RequestOK

LEMMA JudgeKeeps ==
    ASSUME IInv, NEW s \in Sessions, Judge(s)
    PROVE  IInv'
<1> DEFINE q == req[s]
<1>1. /\ q \in JudgeRequests /\ \A r \in q.todo \cup q.settled : q.read[r] # Absent
      /\ q.at = "judge" /\ ReadsOf(OwnerOf[s], q.read)
      /\ UNCHANGED <<rows, held, serial, copy, review, asked, owed, between>>
  BY Kinds DEF Judge, IInv, RequestsOK, ReadIsCurrent
<1>a. PICK r \in q.todo :
        req' = [req EXCEPT
           ![s].todo = @ \ {r},
           ![s].settled = IF rows[r] # Absent /\ Disagreement(q.read[r], rows[r]) = {}
                          THEN @ \cup {r} ELSE @,
           ![s].shown = IF rows[r] = Absent THEN Shows(s, r, 0)
                        ELSE IF Disagreement(q.read[r], rows[r]) = {} THEN @
                        ELSE Shows(s, r, rows[r].version)]
  BY DEF Judge
<1> DEFINE settled == IF rows[r] # Absent /\ Disagreement(q.read[r], rows[r]) = {}
                      THEN q.settled \cup {r} ELSE q.settled
           shown == IF rows[r] = Absent THEN Shows(s, r, 0)
                    ELSE IF Disagreement(q.read[r], rows[r]) = {} THEN q.shown
                    ELSE Shows(s, r, rows[r].version)
<1>2. /\ settled = IF rows[r] # Absent /\ Disagreement(q.read[r], rows[r]) = {}
                    THEN q.settled \cup {r} ELSE q.settled
      /\ shown = IF rows[r] = Absent THEN Shows(s, r, 0)
                 ELSE IF Disagreement(q.read[r], rows[r]) = {} THEN q.shown
                 ELSE Shows(s, r, rows[r].version)
      /\ req' = [req EXCEPT ![s].todo = @ \ {r}, ![s].settled = settled, ![s].shown = shown]
  BY <1>a
<1> HIDE DEF settled, shown
<1>3. r \in Rows /\ q.read[r] # Absent
  BY <1>1, <1>2 DEF JudgeRequests
<1>4. settled \in SUBSET Rows /\ \A x \in settled : q.read[x] # Absent
  <2>1. settled \subseteq q.settled \cup {r}
    BY <1>2
  <2> QED BY <1>1, <1>3, <2>1 DEF JudgeRequests
<1>5. shown \in ShownRows
  <2>1. PICK S \in SUBSET Rows : q.shown \in [S -> 0..MaxVersion]
    BY <1>1 DEF JudgeRequests, ShownRows
  <2>2. ASSUME NEW version \in 0..MaxVersion
        PROVE  Shows(s, r, version) \in ShownRows
    <3>1. Shows(s, r, version) \in [S \cup {r} -> 0..MaxVersion]
      BY <2>1 DEF Shows
    <3>2. S \cup {r} \in SUBSET Rows
      BY <1>3
    <3> QED BY <3>1, <3>2 DEF ShownRows
  <2>3. 0 \in 0..MaxVersion /\ (rows[r] # Absent => rows[r].version \in 0..MaxVersion)
    BY <1>3, RowIsThere, ReviewsAssumption DEF IInv, RowValues
  <2>4. q.shown \in ShownRows
    BY <1>1 DEF JudgeRequests
  <2> QED BY <1>2, <2>2, <2>3, <2>4
<1>6. req' = [t \in Sessions |-> IF t = s THEN req'[s] ELSE req[t]]
  BY <1>2 DEF IInv, StateOK
<1>7. req'[s] = [q EXCEPT !.todo = @ \ {r}, !.settled = settled, !.shown = shown]
  BY <1>2 DEF IInv, StateOK
<1> HIDE DEF q
<1>8. /\ req'[s] \in JudgeRequests /\ req'[s].todo = q.todo \ {r} /\ req'[s].read = q.read
      /\ req'[s].settled = settled
  BY <1>1, <1>4, <1>5, <1>7 DEF JudgeRequests
<1>9. RequestOK(req'[s])
  BY <1>1, <1>4, <1>8 DEF RequestOK
<1>10. /\ RequestsOK' /\ ReadIsCurrent' /\ IdsAreUnique' /\ RefusedEditIsKept'
       /\ req' = [t \in Sessions |-> req'[t]]
  BY <1>1, <1>6, <1>8, <1>9, OnlyTheRequest
<1> QED BY <1>1, <1>10 DEF IInv, StateOK

(* Records are deleted for one analyst, those in gone: the edits they held *)
(* are owed no more, but for those recorded in between.                    *)
LEMMA DeletingKeeps ==
    ASSUME IInv, NEW s \in Sessions, Answer(s),
           UNCHANGED <<rows, serial, copy, asked, between>>,
           review' \in [Sessions -> ShownRows],
           NEW gone \in SUBSET Rows,
           held' = [b \in Analysts |-> [r \in Rows |->
                      IF b = OwnerOf[s] /\ r \in gone THEN Absent ELSE held[b][r]]],
           owed' \in [Analysts -> [Rows -> Edits \cup {Absent}]],
           \A b \in Analysts, r \in Rows : owed'[b][r] \in {owed[b][r], Absent},
           \A r \in gone : r \notin between[OwnerOf[s]] => owed'[OwnerOf[s]][r] = Absent
    PROVE  IInv'
<1>1. /\ \A t \in Sessions : t # s => req'[t] = req[t]
      /\ req'[s] = Idle /\ RequestOK(req'[s])
      /\ req'[s].at \notin {"judge", "resolve", "overwrite"}
      /\ req' = [t \in Sessions |-> req'[t]]
  BY Answered
<1>2. held' \in [Analysts -> Kept]
  BY DEF IInv, StateOK, Kept
<1>3. StateOK'
  BY <1>1, <1>2 DEF IInv, StateOK
<1>4. RequestsOK'
  BY <1>1 DEF IInv, RequestsOK
<1>6. \A b \in Analysts, r \in Rows : held'[b][r] # Absent => held'[b][r] = held[b][r]
  OBVIOUS
<1>5. ReadIsCurrent'
  <2> SUFFICES ASSUME NEW t \in Sessions, req'[t].at \in {"judge", "resolve", "overwrite"}
               PROVE  ReadsOf(OwnerOf[t], req[t].read)'
    BY DEF ReadIsCurrent
  <2>1. req'[t] = req[t]
    BY <1>1
  <2>2. ReadsOf(OwnerOf[t], req[t].read) /\ OwnerOf[t] \in Analysts
    BY <2>1, ReviewsAssumption DEF IInv, ReadIsCurrent
  <2> QED BY <1>6, <2>1, <2>2 DEF ReadsOf
<1>7. IdsAreUnique'
  BY <1>6 DEF IInv, IdsAreUnique
<1>8. RefusedEditIsKept'
  <2> SUFFICES ASSUME NEW b \in Analysts, NEW r \in Rows, owed'[b][r] # Absent,
                      r \notin between[b]
               PROVE  held'[b][r] # Absent /\ held'[b][r].mine = owed'[b][r]
    BY DEF RefusedEditIsKept
  <2>1. owed'[b][r] = owed[b][r] /\ ~(b = OwnerOf[s] /\ r \in gone)
    OBVIOUS
  <2>2. held'[b][r] = held[b][r]
    BY <2>1
  <2> QED BY <2>1, <2>2 DEF IInv, RefusedEditIsKept
<1> QED BY <1>3, <1>4, <1>5, <1>7, <1>8 DEF IInv

LEMMA DropKeeps ==
    ASSUME IInv, NEW s \in Sessions, Drop(s)
    PROVE  IInv'
<1> DEFINE q == req[s]
           a == OwnerOf[s]
           gone == {r \in Rows : held[a][r] # Absent /\ held[a][r].id \in SettledIds(s)}
<1>1. /\ q \in JudgeRequests /\ \A r \in q.settled : q.read[r] # Absent
      /\ ReadsOf(a, q.read) /\ a \in Analysts
  BY Kinds, ReviewsAssumption DEF Drop, IInv, RequestsOK, ReadIsCurrent
<1>2. q.settled \in SUBSET Rows /\ q.shown \in ShownRows
  BY <1>1 DEF JudgeRequests
<1>3. \A b \in Analysts, r \in Rows :
         (held[b][r] # Absent /\ held[b][r].id \in SettledIds(s)) => b = a /\ r \in q.settled
  BY <1>1, <1>2 DEF ReadsOf, SettledIds
<1>4. held' = [b \in Analysts |-> [r \in Rows |->
                 IF b = a /\ r \in gone THEN Absent ELSE held[b][r]]]
  <2>1. held' = [b \in Analysts |-> [r \in Rows |->
              IF held[b][r] # Absent /\ held[b][r].id \in SettledIds(s)
              THEN Absent ELSE held[b][r]]]
    BY DEF Drop
  <2>2. \A b \in Analysts, r \in Rows :
           (held[b][r] # Absent /\ held[b][r].id \in SettledIds(s)) <=> (b = a /\ r \in gone)
    BY <1>1, <1>3
  <2> QED BY <2>1, <2>2
<1>5. owed' = [owed EXCEPT ![a] = [r \in Rows |->
              IF r \in q.settled /\ owed[a][r] = q.read[r].mine THEN Absent ELSE owed[a][r]]]
  BY DEF Drop
<1>6. owed \in [Analysts -> [Rows -> Edits \cup {Absent}]]
  BY DEF IInv, StateOK
<1> HIDE DEF q, a, gone
<1>7. owed' \in [Analysts -> [Rows -> Edits \cup {Absent}]]
  BY <1>1, <1>5, <1>6
<1>8. \A b \in Analysts, r \in Rows : owed'[b][r] =
         IF b = a /\ r \in q.settled /\ owed[a][r] = q.read[r].mine THEN Absent ELSE owed[b][r]
  BY <1>1, <1>5, <1>6
<1>9. ASSUME NEW r \in gone, r \notin between[a]
      PROVE  owed'[a][r] = Absent
  <2>1. r \in Rows /\ r \in q.settled /\ held[a][r] # Absent
    BY <1>1, <1>3 DEF gone
  <2>2. q.read[r] = held[a][r]
    BY <1>1, <1>9, <2>1 DEF ReadsOf
  <2>3. owed[a][r] = Absent \/ owed[a][r] = q.read[r].mine
    BY <1>1, <1>9, <2>1, <2>2 DEF IInv, RefusedEditIsKept
  <2> QED BY <1>1, <1>8, <2>1, <2>3
<1>10. review' \in [Sessions -> ShownRows]
  BY <1>2 DEF Drop, IInv, StateOK, q
<1>11. Answer(s) /\ UNCHANGED <<rows, serial, copy, asked, between>>
  BY DEF Drop
<1>12. \A b \in Analysts, r \in Rows : owed'[b][r] \in {owed[b][r], Absent}
  BY <1>8
<1>13. /\ gone \in SUBSET Rows
       /\ held' = [b \in Analysts |-> [r \in Rows |->
                     IF b = OwnerOf[s] /\ r \in gone THEN Absent ELSE held[b][r]]]
       /\ \A r \in gone : r \notin between[OwnerOf[s]] => owed'[OwnerOf[s]][r] = Absent
  <2>1. gone \in SUBSET Rows
    BY DEF gone
  <2> QED BY <1>4, <1>9, <2>1 DEF a
<1> QED BY <1>7, <1>10, <1>11, <1>12, <1>13, DeletingKeeps

-----------------------------------------------------------------------------
LEMMA ResolveKeeps ==
    ASSUME IInv, NEW s \in Sessions, Resolve(s)
    PROVE  IInv'
<1>1. PICK choice \in {"mine", "theirs"} :
        Ask(s, "resolve",
               [at |-> "resolve", choice |-> choice, read |-> Mine(s),
                todo |-> IF choice = "mine" THEN Recorded(Mine(s)) ELSE {},
                row |-> Absent, version |-> 0, written |-> {}, gone |-> {},
                shown |-> review[s]])
  BY DEF Resolve
<1> DEFINE todo == IF choice = "mine" THEN Recorded(Mine(s)) ELSE {}
           request == [at |-> "resolve", choice |-> choice, read |-> Mine(s),
                       todo |-> todo, row |-> Absent, version |-> 0,
                       written |-> {}, gone |-> {}, shown |-> review[s]]
<1>2. Mine(s) \in Kept /\ Mine(s) = held[OwnerOf[s]] /\ review[s] \in ShownRows
  BY ReviewsAssumption DEF IInv, StateOK, Mine
<1>3. todo \in SUBSET Rows /\ \A r \in todo : Mine(s)[r] # Absent
  BY DEF Recorded
<1>4. 0 \in 0..MaxVersion
  BY ReviewsAssumption
<1> HIDE DEF todo
<1>5. /\ request \in AnswerRequests /\ request.at = "resolve"
      /\ request.todo = todo /\ request.read = Mine(s)
  BY <1>2, <1>3, <1>4 DEF AnswerRequests
<1>6. Ask(s, "resolve", request)
  BY <1>1 DEF todo
<1> HIDE DEF request
<1>7. RequestOK(request)
  BY <1>3, <1>5 DEF RequestOK
<1> QED BY <1>2, <1>5, <1>6, <1>7, AskedFor

LEMMA ReadRowKeeps ==
    ASSUME IInv, NEW s \in Sessions, ReadRow(s)
    PROVE  IInv'
<1> DEFINE q == req[s]
<1>1. /\ q \in AnswerRequests /\ \A r \in q.todo : q.read[r] # Absent
      /\ q.at = "resolve" /\ ReadsOf(OwnerOf[s], q.read)
      /\ UNCHANGED <<rows, held, serial, copy, review, asked, owed, between>>
  BY Kinds DEF ReadRow, IInv, RequestsOK, ReadIsCurrent
<1>2. PICK r \in q.todo :
        req' = [req EXCEPT
             ![s].todo = @ \ {r},
             ![s].at = IF rows[r] = Absent THEN @ ELSE "overwrite",
             ![s].row = r,
             ![s].version = IF rows[r] = Absent THEN 0 ELSE rows[r].version,
             ![s].gone = IF rows[r] = Absent THEN @ \cup {r} ELSE @]
  BY DEF ReadRow
<1> DEFINE at == IF rows[r] = Absent THEN q.at ELSE "overwrite"
           version == IF rows[r] = Absent THEN 0 ELSE rows[r].version
           gone == IF rows[r] = Absent THEN q.gone \cup {r} ELSE q.gone
<1>3. r \in Rows /\ q.read[r] # Absent
  BY <1>1, <1>2 DEF AnswerRequests
<1>4. /\ at \in {"resolve", "overwrite"} /\ version \in 0..MaxVersion
      /\ at = "overwrite" => version \in 1..MaxVersion
      /\ gone \in SUBSET Rows
  BY <1>1, <1>2, <1>3, RowIsThere, ReviewsAssumption DEF AnswerRequests, RowValues, IInv
<1>5. req' = [t \in Sessions |-> IF t = s THEN req'[s] ELSE req[t]]
  BY <1>2 DEF IInv, StateOK
<1>6. req'[s] = [q EXCEPT !.todo = @ \ {r}, !.at = at, !.row = r, !.version = version,
                          !.gone = gone]
  BY <1>2 DEF IInv, StateOK
<1>b. q \in AnswerRequests
  BY <1>1
<1> HIDE DEF q, at, version, gone
<1> DEFINE todo == q.todo \ {r}
<1>c. todo \in SUBSET Rows /\ q.todo \ {r} = todo
  BY <1>b DEF AnswerRequests
<1> HIDE DEF todo
<1>d. req'[s] = [q EXCEPT !.todo = todo, !.at = at, !.row = r, !.version = version, !.gone = gone]
  BY <1>6, <1>c
<1>7. /\ req'[s] \in AnswerRequests /\ req'[s].todo = q.todo \ {r} /\ req'[s].read = q.read
      /\ req'[s].at = at /\ req'[s].row = r /\ req'[s].version = version
  BY <1>3, <1>4, <1>b, <1>c, <1>d DEF AnswerRequests
<1>8. RequestOK(req'[s])
  BY <1>1, <1>3, <1>4, <1>7 DEF RequestOK
<1>9. /\ RequestsOK' /\ ReadIsCurrent' /\ IdsAreUnique' /\ RefusedEditIsKept'
      /\ req' = [t \in Sessions |-> req'[t]]
  BY <1>1, <1>5, <1>7, <1>8, OnlyTheRequest
<1> QED BY <1>1, <1>9 DEF IInv, StateOK

LEMMA OverwriteKeeps ==
    ASSUME IInv, NEW s \in Sessions, Overwrite(s)
    PROVE  IInv'
<1> DEFINE q == req[s]
           r == q.row
<1>1. /\ q \in AnswerRequests /\ \A x \in q.todo : q.read[x] # Absent
      /\ q.at = "overwrite" /\ ReadsOf(OwnerOf[s], q.read)
      /\ r \in Rows /\ q.read[r] # Absent
      /\ q.version < MaxVersion
      /\ UNCHANGED <<held, serial, copy, review, asked, owed, between>>
  BY Kinds DEF Overwrite, IInv, RequestsOK, ReadIsCurrent
<1>2. CASE ~(rows[r] # Absent /\ rows[r].version = q.version)
  <2>1. Answer(s) /\ UNCHANGED rows
    BY <1>2 DEF Overwrite
  <2>2. /\ RequestsOK' /\ ReadIsCurrent' /\ IdsAreUnique' /\ RefusedEditIsKept'
        /\ req' = [t \in Sessions |-> req'[t]]
    BY <1>1, <2>1, Answered, OnlyTheRequest
  <2> QED BY <1>1, <2>1, <2>2 DEF IInv, StateOK
<1>3. CASE rows[r] # Absent /\ rows[r].version = q.version
  <2>1. /\ rows' = [rows EXCEPT ![r] = Written(@, q.read[r].mine)]
        /\ req' = [req EXCEPT ![s].at = "resolve", ![s].written = @ \cup {r}]
    BY <1>3 DEF Overwrite
  <2>2. rows[r] \in RowValues /\ q.read[r].mine \in Edits
    BY <1>1, <1>3, RowIsThere DEF IInv, AnswerRequests, Kept, Records
  <2>3. Written(rows[r], q.read[r].mine) \in RowValues
    BY <1>1, <1>3, <2>2, WrittenIsARow
  <2>4. rows' \in [Rows -> RowValues \cup {Absent}]
    BY <1>1, <2>1, <2>3 DEF IInv, StateOK
  <2>5. req' = [t \in Sessions |-> IF t = s THEN req'[s] ELSE req[t]]
    BY <2>1 DEF IInv, StateOK
  <2>6. req'[s] = [q EXCEPT !.at = "resolve", !.written = @ \cup {r}]
    BY <2>1 DEF IInv, StateOK
  <2> DEFINE written == q.written \cup {r}
  <2>7. /\ req'[s] \in AnswerRequests /\ req'[s].at = "resolve"
        /\ req'[s].read = q.read /\ req'[s].todo = q.todo
    <3>1. written \in SUBSET Rows /\ q \in AnswerRequests
      BY <1>1 DEF AnswerRequests
    <3>2. req'[s] = [q EXCEPT !.at = "resolve", !.written = written]
      BY <2>6
    <3> HIDE DEF q, written
    <3> QED BY <3>1, <3>2 DEF AnswerRequests
  <2> HIDE DEF q, r
  <2>8. RequestOK(req'[s])
    BY <1>1, <2>7 DEF RequestOK
  <2>9. /\ RequestsOK' /\ ReadIsCurrent' /\ IdsAreUnique' /\ RefusedEditIsKept'
        /\ req' = [t \in Sessions |-> req'[t]]
    BY <1>1, <2>5, <2>7, <2>8, OnlyTheRequest
  <2> QED BY <1>1, <2>4, <2>9 DEF IInv, StateOK
<1> QED BY <1>2, <1>3

LEMMA ClearKeeps ==
    ASSUME IInv, NEW s \in Sessions, Clear(s)
    PROVE  IInv'
<1> DEFINE q == req[s]
           a == OwnerOf[s]
           gone == IF Recorded(q.read) = {} THEN {} ELSE Rows
<1>1. q \in AnswerRequests /\ ReadsOf(a, q.read) /\ a \in Analysts
  BY Kinds, ReviewsAssumption DEF Clear, IInv, RequestsOK, ReadIsCurrent
<1>2. /\ held \in [Analysts -> Kept]
      /\ owed \in [Analysts -> [Rows -> Edits \cup {Absent}]]
  BY DEF IInv, StateOK
<1>3. /\ held' = IF Recorded(q.read) = {} THEN held
                 ELSE [held EXCEPT ![a] = [r \in Rows |-> Absent]]
      /\ owed' = [owed EXCEPT ![a] = [r \in Rows |->
           IF q.read[r] # Absent /\ owed[a][r] = q.read[r].mine THEN Absent ELSE owed[a][r]]]
  BY DEF Clear
<1> HIDE DEF q, a
<1>4. held' = [b \in Analysts |-> [r \in Rows |->
                 IF b = a /\ r \in gone THEN Absent ELSE held[b][r]]]
  <2>1. \A b \in Analysts : held[b] = [r \in Rows |-> held[b][r]]
    BY <1>2 DEF Kept
  <2>2. CASE Recorded(q.read) = {}
    BY <1>2, <1>3, <2>1, <2>2
  <2>3. CASE Recorded(q.read) # {}
    <3>1. held' = [b \in Analysts |-> IF b = a THEN [r \in Rows |-> Absent] ELSE held[b]]
      BY <1>2, <1>3, <2>3
    <3>2. gone = Rows
      BY <2>3
    <3> HIDE DEF gone
    <3>3. ASSUME NEW b \in Analysts
          PROVE  (IF b = a THEN [r \in Rows |-> Absent] ELSE held[b])
                   = [r \in Rows |-> IF b = a /\ r \in gone THEN Absent ELSE held[b][r]]
      <4>1. CASE b = a
        BY <3>2, <4>1
      <4>2. CASE b # a
        <5>1. [r \in Rows |-> IF b = a /\ r \in gone THEN Absent ELSE held[b][r]]
                = [r \in Rows |-> held[b][r]]
          BY <4>2
        <5> QED BY <2>1, <4>2, <5>1
      <4> QED BY <4>1, <4>2
    <3> QED BY <3>1, <3>3
  <2> QED BY <2>2, <2>3
<1>5. owed' \in [Analysts -> [Rows -> Edits \cup {Absent}]]
  BY <1>1, <1>2, <1>3
<1>6. \A b \in Analysts, r \in Rows : owed'[b][r] =
         IF b = a /\ q.read[r] # Absent /\ owed[a][r] = q.read[r].mine
         THEN Absent ELSE owed[b][r]
  BY <1>1, <1>2, <1>3
<1>7. ASSUME NEW r \in gone, r \notin between[a]
      PROVE  owed'[a][r] = Absent
  <2>1. r \in Rows
    BY DEF gone
  <2>2. owed[a][r] # Absent =>
          held[a][r] # Absent /\ held[a][r].mine = owed[a][r] /\ q.read[r] = held[a][r]
    BY <1>1, <1>7, <2>1 DEF IInv, RefusedEditIsKept, ReadsOf
  <2> QED BY <1>1, <1>6, <2>1, <2>2
<1>8. review' \in [Sessions -> ShownRows]
  <2>1. <<>> \in [{} -> 0..MaxVersion]
    OBVIOUS
  <2> QED BY <2>1 DEF Clear, IInv, StateOK, ShownRows
<1>9. Answer(s) /\ UNCHANGED <<rows, serial, copy, asked, between>>
  BY DEF Clear
<1>10. \A b \in Analysts, r \in Rows : owed'[b][r] \in {owed[b][r], Absent}
  BY <1>6
<1>11. /\ gone \in SUBSET Rows
       /\ held' = [b \in Analysts |-> [r \in Rows |->
                     IF b = OwnerOf[s] /\ r \in gone THEN Absent ELSE held[b][r]]]
       /\ \A r \in gone : r \notin between[OwnerOf[s]] => owed'[OwnerOf[s]][r] = Absent
  BY <1>4, <1>7 DEF a
<1> HIDE DEF gone
<1> QED BY <1>5, <1>8, <1>9, <1>10, <1>11, DeletingKeeps

LEMMA AbortKeeps ==
    ASSUME IInv, NEW s \in Sessions, Abort(s)
    PROVE  IInv'
<1>1. Answer(s) /\ UNCHANGED <<rows, held, serial, copy, review, asked, owed, between>>
  BY DEF Abort
<1>2. /\ RequestsOK' /\ ReadIsCurrent' /\ IdsAreUnique' /\ RefusedEditIsKept'
      /\ req' = [t \in Sessions |-> req'[t]]
  BY <1>1, Answered, OnlyTheRequest
<1> QED BY <1>1, <1>2 DEF IInv, StateOK

-----------------------------------------------------------------------------
LEMMA InitHolds == Init => IInv
<1> SUFFICES ASSUME Init PROVE IInv
  OBVIOUS
<1>1. [version |-> 1, text |-> [f \in Fields |-> Blank]] \in RowValues
  BY ReviewsAssumption DEF RowValues
<1>2. <<>> \in ShownRows
  <2>1. <<>> \in [{} -> 0..MaxVersion]
    OBVIOUS
  <2> QED BY <2>1 DEF ShownRows
<1>3. rows \in [Rows -> RowValues \cup {Absent}]
  BY <1>1 DEF Init
<1>4. StateOK
  BY <1>2, <1>3, ReviewsAssumption DEF Init, StateOK, Kept
<1>5. RequestsOK /\ ReadIsCurrent
  BY DEF Init, RequestsOK, RequestOK, ReadIsCurrent, Idle
<1>6. IdsAreUnique /\ RefusedEditIsKept
  BY DEF Init, IdsAreUnique, RefusedEditIsKept
<1> QED BY <1>4, <1>5, <1>6 DEF IInv

LEMMA StepHolds ==
    ASSUME IInv, [Next]_vars
    PROVE  IInv'
<1>1. CASE UNCHANGED vars
  BY <1>1 DEF vars, IInv, StateOK, RequestsOK, ReadIsCurrent, ReadsOf, IdsAreUnique, RefusedEditIsKept
<1>2. ASSUME NEW s \in Sessions,
             \/ Save(s) \/ Write(s) \/ Record(s) \/ Remove(s) \/ Look(s)
             \/ Pending(s) \/ Judge(s) \/ Drop(s)
             \/ Resolve(s) \/ ReadRow(s) \/ Overwrite(s) \/ Clear(s)
             \/ Abort(s)
      PROVE  IInv'
  BY <1>2, SaveKeeps, WriteKeeps, RecordKeeps, RemoveKeeps, LookKeeps, PendingKeeps,
     JudgeKeeps, DropKeeps, ResolveKeeps, ReadRowKeeps, OverwriteKeeps, ClearKeeps, AbortKeeps
<1> QED BY <1>1, <1>2 DEF Next

(* Whatever tabs are open and wherever a request stops half way, an edit    *)
(* answered 409 (entities.controller.ts patch) stays in its record until    *)
(* its analyst answers it or it is found to agree, unless another of their  *)
(* tabs had read the records and not yet deleted when it was recorded.      *)
THEOREM RefusedEditsAreKept == Spec => []RefusedEditIsKept
<1>1. IInv /\ [Next]_vars => IInv'
  BY StepHolds
<1>2. IInv => RefusedEditIsKept
  BY DEF IInv
<1> QED BY InitHolds, <1>1, <1>2, PTL DEF Spec

(* Type correctness.                                                       *)
THEOREM ReviewTypes == Spec => []TypeOK
<1>1. IInv /\ [Next]_vars => IInv'
  BY StepHolds
<1>2. IInv => TypeOK
  <2> SUFFICES ASSUME IInv PROVE TypeOK
    OBVIOUS
  <2>1. \A s \in Sessions : asked[s] \in 0..MaxRequests[s]
    BY ReviewsAssumption DEF IInv, StateOK
  <2> QED BY <2>1 DEF IInv, StateOK, TypeOK, Kept
<1> QED BY InitHolds, <1>1, <1>2, PTL DEF Spec

-----------------------------------------------------------------------------
(* Of the records an answer "mine" read, each is still to be looked at, is *)
(* the one about to be written, was written over or was found gone.        *)
AnswerFields ==
    {"at", "choice", "read", "todo", "row", "version", "written", "gone", "shown"}

AnswerGoesThrough(q) ==
    q.at \in {"resolve", "overwrite"} =>
        /\ DOMAIN q = AnswerFields
        /\ q.choice = "mine" =>
              Recorded(q.read) = q.todo \cup q.written \cup q.gone
                                 \cup (IF q.at = "overwrite" THEN {q.row} ELSE {})

AnswersGoThrough ==
    /\ req = [s \in Sessions |-> req[s]]
    /\ \A s \in Sessions : "at" \in DOMAIN req[s] /\ AnswerGoesThrough(req[s])

(* A step of a tab changes its own request.                                *)
LEMMA OthersGoOn ==
    ASSUME AnswersGoThrough, NEW s \in Sessions, NEW q, "at" \in DOMAIN q,
           AnswerGoesThrough(q), req' = [req EXCEPT ![s] = q]
    PROVE  AnswersGoThrough'
<1>1. \A t \in Sessions : req'[t] = IF t = s THEN q ELSE req[t]
  BY DEF AnswersGoThrough
<1>2. req' = [t \in Sessions |-> req'[t]]
  BY DEF AnswersGoThrough
<1>3. ASSUME NEW t \in Sessions PROVE "at" \in DOMAIN req'[t] /\ AnswerGoesThrough(req'[t])
  BY <1>1 DEF AnswersGoThrough
<1> QED BY <1>2, <1>3 DEF AnswersGoThrough, AnswerGoesThrough

LEMMA ReadRowGoesThrough ==
    ASSUME AnswersGoThrough, NEW s \in Sessions, ReadRow(s)
    PROVE  AnswersGoThrough'
<1> DEFINE q == req[s]
<1>1. PICK r \in q.todo :
          req' = [req EXCEPT
             ![s].todo = @ \ {r},
             ![s].at = IF rows[r] = Absent THEN @ ELSE "overwrite",
             ![s].row = r,
             ![s].version = IF rows[r] = Absent THEN 0 ELSE rows[r].version,
             ![s].gone = IF rows[r] = Absent THEN @ \cup {r} ELSE @]
  BY DEF ReadRow
<1> DEFINE a == IF rows[r] = Absent THEN q.at ELSE "overwrite"
           v == IF rows[r] = Absent THEN 0 ELSE rows[r].version
           g == IF rows[r] = Absent THEN q.gone \cup {r} ELSE q.gone
           n == [q EXCEPT !.todo = q.todo \ {r}, !.at = a, !.row = r, !.version = v, !.gone = g]
<1>2. q.at = "resolve" /\ AnswerGoesThrough(q) /\ req = [t \in Sessions |-> req[t]]
  BY DEF ReadRow, AnswersGoThrough
<1>3. req' = [req EXCEPT ![s] = n]
  BY <1>1, <1>2 DEF AnswerGoesThrough
<1>4. /\ (a = "resolve" /\ g = q.gone \cup {r}) \/ (a = "overwrite" /\ g = q.gone)
      /\ DOMAIN q = AnswerFields
      /\ q.choice = "mine" => Recorded(q.read) = q.todo \cup q.written \cup q.gone
      /\ r \in q.todo
  BY <1>1, <1>2 DEF AnswerGoesThrough
<1> HIDE DEF a, v, g, q
<1>5. /\ DOMAIN n = AnswerFields
      /\ n.at = a /\ n.todo = q.todo \ {r} /\ n.row = r /\ n.gone = g
      /\ n.choice = q.choice /\ n.read = q.read /\ n.written = q.written
  BY <1>4 DEF AnswerFields
<1> HIDE DEF n
<1>6. AnswerGoesThrough(n) /\ "at" \in DOMAIN n
  BY <1>4, <1>5 DEF AnswerGoesThrough, AnswerFields
<1> QED BY <1>3, <1>6, OthersGoOn

LEMMA OverwriteGoesThrough ==
    ASSUME AnswersGoThrough, NEW s \in Sessions, Overwrite(s)
    PROVE  AnswersGoThrough'
<1> DEFINE q == req[s]
           n == [q EXCEPT !.at = "resolve", !.written = q.written \cup {q.row}]
<1>1. q.at = "overwrite" /\ AnswerGoesThrough(q) /\ req = [t \in Sessions |-> req[t]]
  BY DEF Overwrite, AnswersGoThrough
<1>2. req' = [req EXCEPT ![s] = Idle] \/ req' = [req EXCEPT ![s] = n]
  BY <1>1 DEF Overwrite, Answer, AnswerGoesThrough
<1>3. /\ DOMAIN q = AnswerFields
      /\ q.choice = "mine" =>
            Recorded(q.read) = q.todo \cup q.written \cup q.gone \cup {q.row}
  BY <1>1 DEF AnswerGoesThrough
<1> HIDE DEF q
<1>4. /\ DOMAIN n = AnswerFields
      /\ n.at = "resolve" /\ n.written = q.written \cup {q.row}
      /\ n.choice = q.choice /\ n.read = q.read /\ n.todo = q.todo /\ n.gone = q.gone
  BY <1>3 DEF AnswerFields
<1> HIDE DEF n
<1>5. AnswerGoesThrough(n) /\ "at" \in DOMAIN n
  BY <1>3, <1>4 DEF AnswerGoesThrough, AnswerFields
<1>6. AnswerGoesThrough(Idle) /\ "at" \in DOMAIN Idle
  BY DEF AnswerGoesThrough, Idle
<1> QED BY <1>2, <1>5, <1>6, OthersGoOn

LEMMA AnswersStep ==
    ASSUME AnswersGoThrough, [Next]_vars
    PROVE  AnswersGoThrough'
<1>1. ASSUME NEW s \in Sessions, Answer(s) PROVE AnswersGoThrough'
  <2>1. AnswerGoesThrough(Idle) /\ "at" \in DOMAIN Idle
    BY DEF AnswerGoesThrough, Idle
  <2> QED BY <1>1, <2>1, OthersGoOn DEF Answer
<1>2. ASSUME UNCHANGED req PROVE AnswersGoThrough'
  BY <1>2 DEF AnswersGoThrough, AnswerGoesThrough
<1>3. ASSUME NEW s \in Sessions, Save(s) PROVE AnswersGoThrough'
  <2>1. PICK q : q.at = "save" /\ "at" \in DOMAIN q /\ req' = [req EXCEPT ![s] = q]
    BY <1>3 DEF Save, Ask
  <2> QED BY <2>1, OthersGoOn DEF AnswerGoesThrough
<1>4. ASSUME NEW s \in Sessions, Write(s) PROVE AnswersGoThrough'
  <2> DEFINE q == [req[s] EXCEPT !.at = "record"]
  <2>1. Answer(s) \/ req' = [req EXCEPT ![s] = q]
    BY <1>4 DEF Write
  <2>2. q.at = "record" /\ "at" \in DOMAIN q
    BY DEF AnswersGoThrough
  <2> HIDE DEF q
  <2>3. AnswerGoesThrough(q)
    BY <2>2 DEF AnswerGoesThrough
  <2> QED BY <1>1, <2>1, <2>2, <2>3, OthersGoOn
<1>5. ASSUME NEW s \in Sessions, Pending(s) PROVE AnswersGoThrough'
  <2>1. PICK q : q.at = "judge" /\ "at" \in DOMAIN q /\ req' = [req EXCEPT ![s] = q]
    BY <1>5 DEF Pending, Ask
  <2> QED BY <2>1, OthersGoOn DEF AnswerGoesThrough
<1>6. ASSUME NEW s \in Sessions, Judge(s) PROVE AnswersGoThrough'
  <2>1. PICK r \in req[s].todo :
          req' = [req EXCEPT
             ![s].todo = @ \ {r},
             ![s].settled = IF rows[r] # Absent /\ Disagreement(req[s].read[r], rows[r]) = {}
                            THEN @ \cup {r} ELSE @,
             ![s].shown = IF rows[r] = Absent THEN Shows(s, r, 0)
                          ELSE IF Disagreement(req[s].read[r], rows[r]) = {} THEN @
                          ELSE Shows(s, r, rows[r].version)]
    BY <1>6 DEF Judge
  <2> DEFINE settled == IF rows[r] # Absent /\ Disagreement(req[s].read[r], rows[r]) = {}
                        THEN req[s].settled \cup {r} ELSE req[s].settled
             shown == IF rows[r] = Absent THEN Shows(s, r, 0)
                      ELSE IF Disagreement(req[s].read[r], rows[r]) = {} THEN req[s].shown
                      ELSE Shows(s, r, rows[r].version)
  <2>2. req' = [req EXCEPT ![s].todo = @ \ {r}, ![s].settled = settled, ![s].shown = shown]
    BY <2>1
  <2> HIDE DEF settled, shown
  <2> DEFINE q == [req[s] EXCEPT !.todo = @ \ {r}, !.settled = settled, !.shown = shown]
  <2>3. req' = [req EXCEPT ![s] = q]
    BY <2>2 DEF AnswersGoThrough
  <2>4. q.at = "judge" /\ "at" \in DOMAIN q
    BY <1>6 DEF Judge, AnswersGoThrough
  <2> HIDE DEF q
  <2> QED BY <2>3, <2>4, OthersGoOn DEF AnswerGoesThrough
<1>7. ASSUME NEW s \in Sessions, Resolve(s) PROVE AnswersGoThrough'
  <2>1. PICK choice \in {"mine", "theirs"} :
            req' = [req EXCEPT ![s] =
               [at |-> "resolve", choice |-> choice, read |-> Mine(s),
                todo |-> IF choice = "mine" THEN Recorded(Mine(s)) ELSE {},
                row |-> Absent, version |-> 0, written |-> {}, gone |-> {},
                shown |-> review[s]]]
    BY <1>7 DEF Resolve, Ask
  <2> DEFINE q == [at |-> "resolve", choice |-> choice, read |-> Mine(s),
                   todo |-> IF choice = "mine" THEN Recorded(Mine(s)) ELSE {},
                   row |-> Absent, version |-> 0, written |-> {}, gone |-> {},
                   shown |-> review[s]]
  <2>2. AnswerGoesThrough(q) /\ "at" \in DOMAIN q
    BY DEF AnswerGoesThrough, AnswerFields
  <2> HIDE DEF q
  <2>3. req' = [req EXCEPT ![s] = q]
    BY <2>1 DEF q
  <2> QED BY <2>2, <2>3, OthersGoOn
<1>8. ASSUME NEW s \in Sessions,
             \/ Record(s) \/ Remove(s) \/ Look(s) \/ Drop(s) \/ Clear(s) \/ Abort(s)
      PROVE  Answer(s) \/ UNCHANGED req
  BY <1>8 DEF Record, Remove, Look, Drop, Clear, Abort
<1> QED BY <1>1, <1>2, <1>3, <1>4, <1>5, <1>6, <1>7, <1>8, ReadRowGoesThrough,
           OverwriteGoesThrough DEF Next, vars

(* conflicts.service.ts resolve(): however many tabs an analyst has, an     *)
(* answer "mine" drops records only when each row it read a record of was  *)
(* written over by that answer, or was found gone.                         *)
THEOREM MineIsWritten == Spec => MineIsWrittenBeforeItIsDropped
<1> DEFINE Dropping(s) ==
        (/\ req[s].at = "resolve" /\ req[s].choice = "mine" /\ req'[s] = Idle
         /\ held'[OwnerOf[s]] # held[OwnerOf[s]])
            => Recorded(req[s].read) = req[s].written \cup req[s].gone
<1>1. Init => AnswersGoThrough
  BY DEF Init, AnswersGoThrough, AnswerGoesThrough, Idle
<1>2. ASSUME AnswersGoThrough, [Next]_vars, NEW s \in Sessions PROVE Dropping(s)
  <2> SUFFICES ASSUME req[s].at = "resolve", req[s].choice = "mine", req'[s] = Idle,
                      held' # held
               PROVE  Recorded(req[s].read) = req[s].written \cup req[s].gone
    OBVIOUS
  <2>1. req'[s] # req[s]
    BY DEF Idle
  <2>2. PICK t \in Sessions : Record(t) \/ Drop(t) \/ Clear(t)
    <3>1. UNCHANGED vars => UNCHANGED held
      BY DEF vars
    <3>2. ASSUME NEW t \in Sessions, Save(t) \/ Pending(t) \/ Resolve(t) PROVE UNCHANGED held
      BY <3>2 DEF Save, Pending, Resolve, Ask
    <3>3. ASSUME NEW t \in Sessions, Write(t) \/ Remove(t) \/ Look(t) PROVE UNCHANGED held
      BY <3>3 DEF Write, Remove, Look
    <3>4. ASSUME NEW t \in Sessions, Judge(t) \/ ReadRow(t) \/ Overwrite(t) \/ Abort(t)
          PROVE  UNCHANGED held
      BY <3>4 DEF Judge, ReadRow, Overwrite, Abort
    <3> QED BY <1>2, <3>1, <3>2, <3>3, <3>4 DEF Next
  <2>3. Answer(t)
    BY <2>2 DEF Record, Drop, Clear
  <2>4. t = s
    BY <1>2, <2>1, <2>3 DEF Answer, AnswersGoThrough
  <2>5. req[s].todo = {}
    BY <2>2, <2>4 DEF Record, Drop, Clear
  <2> QED BY <1>2, <2>5 DEF AnswersGoThrough, AnswerGoesThrough
<1>3. AnswersGoThrough /\ [Next]_vars => [\A s \in Sessions : Dropping(s)]_vars
  BY <1>2
<1>4. AnswersGoThrough /\ [Next]_vars => AnswersGoThrough'
  BY AnswersStep
<1> QED BY <1>1, <1>3, <1>4, PTL DEF Spec, MineIsWrittenBeforeItIsDropped
=============================================================================
