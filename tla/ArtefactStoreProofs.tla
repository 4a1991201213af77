------------------------ MODULE ArtefactStoreProofs ------------------------
(***************************************************************************)
(* Where the bytes of a case are, for any number of cases, records,        *)
(* digests, requests, failures and crashes. As long as no analyst loses    *)
(* reach to a case with an act under way, what a record names is held and  *)
(* what a sent report froze stays; and whoever loses it, what nothing      *)
(* names leaves, unless an act failed or died.                             *)
(*                                                                         *)
(* Only the first act of a lane is past its wait.  Hence between the asking *)
(* of what is still named and the letting go of the rest no record comes   *)
(* to name other bytes, and between the bytes of an attachment landing and *)
(* its record naming them nothing is let go (StateOK).  What is held is    *)
(* named, or the first act has it to name or to let go; and a record that  *)
(* was not changed since an attachment read it still names what the        *)
(* attachment lets go of (NamesInv).                                       *)
(***************************************************************************)
EXTENDS ArtefactStore, TLAPS, SequenceTheorems

Ops == {"attach", "remove", "delete", "import"}

Stages == {"queued", "kept", "written", "asked"}

Acts ==
    {a \in [op : Ops, at : Stages, reads : UNION {[S -> Nat] : S \in SUBSET Rows},
            hash : Hashes \cup {None}, letgo : SUBSET Hashes, sees : BOOLEAN] :
        a.op = "attach" => a.hash \in Hashes}

Arrivals == [case : Cases, old : Hashes \cup {None}, act : {a \in Acts : a.at = "queued" /\ a.op = "attach"}]

Reports ==
    [figure : Rows \cup {None}, version : Nat, sent : BOOLEAN, frozen : Hashes \cup {None},
     drawn : BOOLEAN]

Sends == [at : {"read", "drawn"}, version : Nat, drawn : BOOLEAN, hash : Hashes \cup {None}]

TypeInv ==
    /\ open \in [Cases -> {"no", "yes", "gone"}]
    /\ row \in [Cases -> [Rows -> Records \cup {None}]]
    /\ held \in [Cases -> SUBSET Hashes]
    /\ arriving \in SUBSET Arrivals
    /\ lane \in [Cases -> Seq(Acts)]
    /\ report \in [Cases -> Reports]
    /\ sending \in [Cases -> Sends \cup {None}]
    /\ reading \in [Cases -> (SUBSET Hashes) \cup {None}]
    /\ withdrawn \in Nat

(* A figure is a record that is there.                                     *)
FigureOK(w, p) == p.figure = None \/ w[p.figure] # None

(* Nothing is asked of a case before it is there, and only the first act   *)
(* of a lane is past its wait.                                             *)
LaneOK(o, l) ==
    /\ o = "no" => l = <<>>
    /\ \A i \in 2..Len(l) : l[i].at = "queued"

(* What is being read in is not there yet.                                 *)
ReadOK(o, s) == s # None => o = "no"

(* A record's bytes are held.                                              *)
RowsHeld(w, h) == \A r \in Rows : w[r] # None /\ w[r].stored => w[r].hash \in h \cup {None}

(* No record names what is let go.                                         *)
Spared(w, S) == \A r \in Rows : w[r] # None /\ w[r].stored => w[r].hash \notin S

FirstOK(o, w, h, a) ==
    /\ a.at = "kept" => a.op = "attach" /\ a.hash \in h
    /\ a.at = "asked" /\ o = "yes" => Spared(w, a.letgo)
    /\ a.op = "delete" /\ a.at # "queued" => o = "gone"

CaseOK(o, w, h, l, s) ==
    /\ o = "yes" => RowsHeld(w, h)
    /\ s # None => h = s
    /\ l # <<>> => FirstOK(o, w, h, l[1])

Seen ==
    /\ \A a \in arriving : a.act.sees
    /\ \A c \in Cases : \A i \in 1..Len(lane[c]) : lane[c][i].sees

StateOK ==
    /\ TypeInv
    /\ \A a \in arriving : open[a.case] # "no"
    /\ \A c \in Cases : FigureOK(row[c], report[c]) /\ LaneOK(open[c], lane[c]) /\ ReadOK(open[c], reading[c])
    /\ withdrawn = 0 =>
          Seen /\ \A c \in Cases : CaseOK(open[c], row[c], held[c], lane[c], reading[c])

-----------------------------------------------------------------------------
(* The lane once its first act has ended.                                  *)
LEMMA EndedLane ==
    ASSUME NEW s \in Seq(Acts), s # <<>>
    PROVE  /\ RemoveAt(s, 1) \in Seq(Acts)
           /\ Len(RemoveAt(s, 1)) = Len(s) - 1
           /\ \A i \in 1..(Len(s) - 1) : RemoveAt(s, 1)[i] = s[i + 1]
  <1>1. SubSeq(s, 1, 1 - 1) = <<>>
    BY SubSeqEmpty
  <1>2. SubSeq(s, 1 + 1, Len(s)) = Tail(s)
    BY TailIsSubSeq
  <1>3. /\ Tail(s) \in Seq(Acts) /\ Len(Tail(s)) = Len(s) - 1
        /\ \A i \in 1..Len(Tail(s)) : Tail(s)[i] = s[i + 1]
    BY HeadTailProperties
  <1>4. <<>> \o Tail(s) = Tail(s)
    BY <1>3, ConcatEmptySeq
  <1>5. RemoveAt(s, 1) = Tail(s)
    BY <1>1, <1>2, <1>4, Zenon DEF RemoveAt
  <1> QED
    BY <1>3, <1>5, Zenon

(* The lane with its act i at another stage.                               *)
LEMMA ReplacedLane ==
    ASSUME NEW s \in Seq(Acts), NEW i \in 1..Len(s), NEW a \in Acts
    PROVE  /\ ReplaceAt(s, i, a) \in Seq(Acts)
           /\ Len(ReplaceAt(s, i, a)) = Len(s)
           /\ ReplaceAt(s, i, a)[i] = a
           /\ \A j \in 1..Len(s) \ {i} : ReplaceAt(s, i, a)[j] = s[j]
  BY SMT DEF ReplaceAt

LEMMA InitOK == Init => StateOK
  <1> SUFFICES ASSUME Init PROVE StateOK
    OBVIOUS
  <1>1. TypeInv
    BY StoreAssumption DEF Init, TypeInv, Records, Reports, Draft
  <1>2. \A c \in Cases : FigureOK(row[c], report[c]) /\ LaneOK(open[c], lane[c]) /\ ReadOK(open[c], reading[c])
    BY DEF Init, FigureOK, LaneOK, ReadOK, Draft
  <1>3. Seen
    BY DEF Init, Seen
  <1>4. \A c \in Cases : CaseOK(open[c], row[c], held[c], lane[c], reading[c])
    BY DEF Init, CaseOK, RowsHeld
  <1> QED
    BY <1>1, <1>2, <1>3, <1>4 DEF StateOK, Init
-----------------------------------------------------------------------------
(* What an act's end does to the lanes.                                    *)
LEMMA EndedStep ==
    ASSUME TypeInv, NEW c \in Cases, lane[c] # <<>>, lane' = Ended(c, 1),
           NEW o, LaneOK(o, lane[c])
    PROVE  /\ lane' \in [Cases -> Seq(Acts)]
           /\ \A d \in Cases \ {c} : lane'[d] = lane[d]
           /\ LaneOK(o, lane'[c])
           /\ lane'[c] # <<>> => lane'[c][1].at = "queued"
           /\ \A i \in 1..Len(lane'[c]) : \E j \in 1..Len(lane[c]) : lane'[c][i] = lane[c][j]
  <1>1. lane \in [Cases -> Seq(Acts)] /\ lane[c] \in Seq(Acts)
    BY DEF TypeInv
  <1>2. /\ lane' = [lane EXCEPT ![c] = RemoveAt(lane[c], 1)]
        /\ lane'[c] = RemoveAt(lane[c], 1)
    BY <1>1 DEF Ended
  <1>3. /\ lane'[c] \in Seq(Acts) /\ Len(lane'[c]) = Len(lane[c]) - 1
        /\ \A i \in 1..(Len(lane[c]) - 1) : lane'[c][i] = lane[c][i + 1]
    BY <1>1, <1>2, EndedLane
  <1>4. lane' \in [Cases -> Seq(Acts)] /\ \A d \in Cases \ {c} : lane'[d] = lane[d]
    BY <1>1, <1>2, <1>3
  <1>5. o # "no"
    BY DEF LaneOK
  <1>6. \A i \in 1..Len(lane'[c]) : i + 1 \in 2..Len(lane[c]) /\ lane'[c][i] = lane[c][i + 1]
    BY <1>1, <1>3
  <1>7. \A i \in 1..Len(lane'[c]) : lane'[c][i].at = "queued"
    BY <1>6 DEF LaneOK
  <1>8. lane'[c] # <<>> => 1 \in 1..Len(lane'[c])
    BY <1>3
  <1> QED
    BY <1>1, <1>3, <1>4, <1>5, <1>6, <1>7, <1>8 DEF LaneOK

(* What a stage of the first act does to the lanes.                        *)
LEMMA StageStep ==
    ASSUME TypeInv, NEW c \in Cases, lane[c] # <<>>, NEW at \in Stages, NEW letgo \in SUBSET Hashes,
           Stage(c, 1, at, letgo), NEW o, LaneOK(o, lane[c])
    PROVE  /\ lane' \in [Cases -> Seq(Acts)]
           /\ \A d \in Cases \ {c} : lane'[d] = lane[d]
           /\ LaneOK(o, lane'[c]) /\ o # "no"
           /\ lane'[c] # <<>> /\ Len(lane'[c]) = Len(lane[c])
           /\ \A i \in 2..Len(lane[c]) : lane'[c][i] = lane[c][i]
           /\ lane'[c][1].at = at /\ lane'[c][1].letgo = letgo
           /\ lane'[c][1].op = lane[c][1].op /\ lane'[c][1].hash = lane[c][1].hash
           /\ lane'[c][1].sees = lane[c][1].sees
  <1> DEFINE a == [lane[c][1] EXCEPT !.at = at, !.letgo = letgo]
  <1>1. lane \in [Cases -> Seq(Acts)] /\ lane[c] \in Seq(Acts) /\ 1 \in 1..Len(lane[c])
    BY DEF TypeInv
  <1>2. lane[c][1] \in Acts
    BY <1>1
  <1>3. /\ a \in Acts /\ a.at = at /\ a.letgo = letgo
        /\ a.op = lane[c][1].op /\ a.hash = lane[c][1].hash /\ a.sees = lane[c][1].sees
    BY <1>2 DEF Acts
  <1>4. lane' = [lane EXCEPT ![c] = ReplaceAt(lane[c], 1, a)]
    BY <1>1 DEF Stage
  <1> HIDE DEF a
  <1>5. /\ ReplaceAt(lane[c], 1, a) \in Seq(Acts)
        /\ Len(ReplaceAt(lane[c], 1, a)) = Len(lane[c])
        /\ ReplaceAt(lane[c], 1, a)[1] = a
        /\ \A j \in 1..Len(lane[c]) \ {1} : ReplaceAt(lane[c], 1, a)[j] = lane[c][j]
    BY <1>1, <1>3, ReplacedLane
  <1>6. lane'[c] = ReplaceAt(lane[c], 1, a)
    BY <1>1, <1>4
  <1>7. lane' \in [Cases -> Seq(Acts)] /\ \A d \in Cases \ {c} : lane'[d] = lane[d]
    BY <1>1, <1>4, <1>5
  <1>8. \A i \in 2..Len(lane[c]) : lane'[c][i] = lane[c][i]
    BY <1>1, <1>5, <1>6
  <1>9. o # "no"
    BY DEF LaneOK
  <1>10. lane'[c] # <<>> /\ Len(lane'[c]) = Len(lane[c])
    BY <1>1, <1>5, <1>6, EmptySeq
  <1>11. LaneOK(o, lane'[c])
    BY <1>8, <1>9, <1>10 DEF LaneOK
  <1> QED
    BY <1>3, <1>5, <1>6, <1>7, <1>8, <1>9, <1>10, <1>11

(* What one more act does to the lanes.                                    *)
LEMMA AppendStep ==
    ASSUME TypeInv, NEW c \in Cases, NEW a \in Acts, lane' = [lane EXCEPT ![c] = Append(@, a)]
    PROVE  /\ lane' \in [Cases -> Seq(Acts)]
           /\ \A d \in Cases \ {c} : lane'[d] = lane[d]
           /\ lane'[c] # <<>> /\ Len(lane'[c]) = Len(lane[c]) + 1 /\ Len(lane[c]) \in Nat
           /\ \A i \in 1..Len(lane[c]) : lane'[c][i] = lane[c][i]
           /\ lane'[c][Len(lane[c]) + 1] = a
           /\ lane[c] # <<>> => lane'[c][1] = lane[c][1]
           /\ lane[c] = <<>> => lane'[c][1] = a /\ Len(lane'[c]) = 1
  <1>1. lane \in [Cases -> Seq(Acts)] /\ lane[c] \in Seq(Acts)
    BY DEF TypeInv
  <1>2. lane'[c] = Append(lane[c], a)
    BY <1>1
  <1>3. /\ Append(lane[c], a) \in Seq(Acts)
        /\ Len(Append(lane[c], a)) = Len(lane[c]) + 1
        /\ \A i \in 1..Len(lane[c]) : Append(lane[c], a)[i] = lane[c][i]
        /\ Append(lane[c], a)[Len(lane[c]) + 1] = a
    BY <1>1, AppendProperties
  <1>4. lane' \in [Cases -> Seq(Acts)] /\ \A d \in Cases \ {c} : lane'[d] = lane[d]
    BY <1>1, <1>3
  <1>5. Len(lane[c]) \in Nat /\ (lane[c] # <<>> => 1 \in 1..Len(lane[c])) /\ (lane[c] = <<>> => Len(lane[c]) = 0)
    BY <1>1, EmptySeq
  <1>6. lane'[c] # <<>>
    BY <1>2, <1>3, <1>5, EmptySeq
  <1> QED
    BY <1>2, <1>3, <1>4, <1>5, <1>6

(* A step within one case says nothing of the others.                      *)
LEMMA WithinCase ==
    ASSUME StateOK, TypeInv', NEW c \in Cases,
           \A d \in Cases \ {c} :
               /\ open'[d] = open[d] /\ row'[d] = row[d] /\ held'[d] = held[d]
               /\ lane'[d] = lane[d] /\ report'[d] = report[d] /\ reading'[d] = reading[d],
           \A a \in arriving' :
               a \in arriving \/ (open[a.case] # "no" /\ (withdrawn = 0 => a.act.sees)),
           withdrawn' = withdrawn,
           open'[c] = "no" => open[c] = "no",
           FigureOK(row'[c], report'[c]), LaneOK(open'[c], lane'[c]),
           ReadOK(open'[c], reading'[c]),
           withdrawn = 0 =>
               /\ \A i \in 1..Len(lane'[c]) : lane'[c][i].sees
               /\ CaseOK(open'[c], row'[c], held'[c], lane'[c], reading'[c])
    PROVE  StateOK'
  <1>1. \A d \in Cases : FigureOK(row'[d], report'[d]) /\ LaneOK(open'[d], lane'[d])
                         /\ ReadOK(open'[d], reading'[d])
    BY DEF StateOK
  <1>2. ASSUME NEW a \in arriving' PROVE open'[a.case] # "no"
    <2>1. a.case \in Cases
      BY DEF TypeInv, Arrivals
    <2>2. open[a.case] # "no"
      BY DEF StateOK
    <2> QED
      BY <2>1, <2>2
  <1>3. ASSUME withdrawn' = 0
        PROVE  Seen' /\ \A d \in Cases : CaseOK(open'[d], row'[d], held'[d], lane'[d], reading'[d])
    <2>1. withdrawn = 0 /\ Seen /\ \A d \in Cases : CaseOK(open[d], row[d], held[d], lane[d], reading[d])
      BY <1>3 DEF StateOK
    <2>2. \A a \in arriving' : a.act.sees
      BY <2>1 DEF Seen
    <2>3. \A d \in Cases : \A i \in 1..Len(lane'[d]) : lane'[d][i].sees
      BY <2>1 DEF Seen
    <2>4. \A d \in Cases : CaseOK(open'[d], row'[d], held'[d], lane'[d], reading'[d])
      BY <2>1
    <2> QED
      BY <2>2, <2>3, <2>4 DEF Seen
  <1> QED
    BY <1>1, <1>2, <1>3 DEF StateOK

(* An act is queued on a case that is there.                               *)
LEMMA QueueOK ==
    ASSUME StateOK, NEW c \in Cases, NEW a \in Acts, a.at = "queued", withdrawn = 0 => a.sees,
           open[c] # "no", lane' = [lane EXCEPT ![c] = Append(@, a)],
           arriving' \subseteq arriving,
           UNCHANGED <<open, row, held, report, sending, reading, withdrawn>>
    PROVE  StateOK'
  <1> USE DEF StateOK
  <1>1. /\ lane' \in [Cases -> Seq(Acts)]
        /\ \A d \in Cases \ {c} : lane'[d] = lane[d]
        /\ lane'[c] # <<>> /\ Len(lane'[c]) = Len(lane[c]) + 1 /\ Len(lane[c]) \in Nat
        /\ \A i \in 1..Len(lane[c]) : lane'[c][i] = lane[c][i]
        /\ lane'[c][Len(lane[c]) + 1] = a
        /\ lane[c] # <<>> => lane'[c][1] = lane[c][1]
        /\ lane[c] = <<>> => lane'[c][1] = a /\ Len(lane'[c]) = 1
    BY AppendStep
  <1>2. TypeInv'
    BY <1>1 DEF TypeInv
  <1>3. LaneOK(open'[c], lane'[c]) /\ ReadOK(open'[c], reading'[c])
    BY <1>1 DEF LaneOK
  <1>4. ASSUME withdrawn = 0
        PROVE  /\ \A i \in 1..Len(lane'[c]) : lane'[c][i].sees
               /\ CaseOK(open'[c], row'[c], held'[c], lane'[c], reading'[c])
    <2>1. Seen /\ CaseOK(open[c], row[c], held[c], lane[c], reading[c])
      BY <1>4
    <2>2. \A i \in 1..Len(lane'[c]) : lane'[c][i].sees
      <3>1. \A i \in 1..Len(lane'[c]) : i \in 1..Len(lane[c]) \/ i = Len(lane[c]) + 1
        BY <1>1
      <3>2. a.sees /\ \A i \in 1..Len(lane[c]) : lane[c][i].sees
        BY <1>4, <2>1 DEF Seen
      <3> QED
        BY <1>1, <3>1, <3>2
    <2>3. FirstOK(open[c], row[c], held[c], lane'[c][1])
      BY <1>1, <2>1 DEF CaseOK, FirstOK
    <2> QED
      BY <2>1, <2>2, <2>3 DEF CaseOK
  <1> QED
    BY <1>1, <1>2, <1>3, <1>4, WithinCase

-----------------------------------------------------------------------------
(* A case with an act queued.                                              *)
LEMMA FirstAct ==
    ASSUME StateOK, NEW c \in Cases, lane[c] # <<>>
    PROVE  /\ lane[c][1] \in Acts /\ open[c] # "no" /\ LaneOK(open[c], lane[c])
           /\ reading[c] = None
           /\ withdrawn = 0 =>
                 /\ lane[c][1].sees
                 /\ \A i \in 1..Len(lane[c]) : lane[c][i].sees
                 /\ FirstOK(open[c], row[c], held[c], lane[c][1])
                 /\ open[c] = "yes" => RowsHeld(row[c], held[c])
  <1>1. lane[c] \in Seq(Acts) /\ 1 \in 1..Len(lane[c])
    BY DEF StateOK, TypeInv
  <1>2. LaneOK(open[c], lane[c]) /\ open[c] # "no"
    BY DEF StateOK, LaneOK
  <1> QED
    BY <1>1, <1>2 DEF StateOK, Seen, CaseOK, ReadOK

(* An act ends, perhaps having changed what its case holds.                *)
LEMMA EndOK ==
    ASSUME StateOK, NEW c \in Cases, lane[c] # <<>>, lane' = Ended(c, 1),
           held' \in [Cases -> SUBSET Hashes], \A d \in Cases \ {c} : held'[d] = held[d],
           UNCHANGED <<open, row, arriving, report, sending, reading, withdrawn>>,
           withdrawn = 0 /\ open[c] = "yes" => RowsHeld(row[c], held'[c])
    PROVE  StateOK'
  <1>1. TypeInv /\ LaneOK(open[c], lane[c])
    BY FirstAct DEF StateOK
  <1>2. /\ lane' \in [Cases -> Seq(Acts)]
        /\ \A d \in Cases \ {c} : lane'[d] = lane[d]
        /\ LaneOK(open[c], lane'[c])
        /\ lane'[c] # <<>> => lane'[c][1].at = "queued"
        /\ \A i \in 1..Len(lane'[c]) : \E j \in 1..Len(lane[c]) : lane'[c][i] = lane[c][j]
    BY <1>1, EndedStep
  <1>3. TypeInv'
    BY <1>1, <1>2 DEF TypeInv
  <1>4. ASSUME withdrawn = 0
        PROVE  /\ \A i \in 1..Len(lane'[c]) : lane'[c][i].sees
               /\ CaseOK(open'[c], row'[c], held'[c], lane'[c], reading'[c])
    BY <1>2, <1>4, FirstAct DEF CaseOK, FirstOK
  <1>5. FigureOK(row'[c], report'[c]) /\ ReadOK(open'[c], reading'[c])
    BY DEF StateOK
  <1> QED
    BY <1>2, <1>3, <1>4, <1>5, WithinCase

(* An act goes to its next stage.                                          *)
LEMMA StageOK ==
    ASSUME StateOK, NEW c \in Cases, lane[c] # <<>>, NEW at \in Stages, NEW letgo \in SUBSET Hashes,
           Stage(c, 1, at, letgo),
           open' \in [Cases -> {"no", "yes", "gone"}],
           row' \in [Cases -> [Rows -> Records \cup {None}]],
           held' \in [Cases -> SUBSET Hashes],
           report' \in [Cases -> Reports],
           \A d \in Cases \ {c} : /\ open'[d] = open[d] /\ row'[d] = row[d]
                                  /\ held'[d] = held[d] /\ report'[d] = report[d],
           UNCHANGED <<arriving, sending, reading, withdrawn>>,
           open'[c] \in {"gone", open[c]},
           FigureOK(row'[c], report'[c]),
           withdrawn = 0 =>
               /\ open'[c] = "yes" => RowsHeld(row'[c], held'[c])
               /\ at = "kept" => lane[c][1].op = "attach" /\ lane[c][1].hash \in held'[c]
               /\ at = "asked" /\ open'[c] = "yes" => Spared(row'[c], letgo)
               /\ at # "queued" /\ lane[c][1].op = "delete" => open'[c] = "gone"
    PROVE  StateOK'
  <1>1. TypeInv /\ LaneOK(open[c], lane[c])
    BY FirstAct DEF StateOK
  <1>2. /\ lane' \in [Cases -> Seq(Acts)]
        /\ \A d \in Cases \ {c} : lane'[d] = lane[d]
        /\ LaneOK(open[c], lane'[c]) /\ open[c] # "no"
        /\ lane'[c] # <<>> /\ Len(lane'[c]) = Len(lane[c])
        /\ \A i \in 2..Len(lane[c]) : lane'[c][i] = lane[c][i]
        /\ lane'[c][1].at = at /\ lane'[c][1].letgo = letgo
        /\ lane'[c][1].op = lane[c][1].op /\ lane'[c][1].hash = lane[c][1].hash
        /\ lane'[c][1].sees = lane[c][1].sees
    BY <1>1, StageStep
  <1>3. TypeInv'
    BY <1>1, <1>2 DEF TypeInv
  <1>4. LaneOK(open'[c], lane'[c])
    BY <1>2 DEF LaneOK
  <1>5. ASSUME withdrawn = 0
        PROVE  /\ \A i \in 1..Len(lane'[c]) : lane'[c][i].sees
               /\ CaseOK(open'[c], row'[c], held'[c], lane'[c], reading'[c])
    <2>1. \A i \in 1..Len(lane'[c]) : lane'[c][i].sees
      <3>1. \A i \in 1..Len(lane'[c]) : i = 1 \/ i \in 2..Len(lane[c])
        BY <1>2
      <3> QED
        BY <1>2, <1>5, <3>1, FirstAct
    <2>2. FirstOK(open'[c], row'[c], held'[c], lane'[c][1])
      BY <1>2, <1>5 DEF FirstOK
    <2> QED
      BY <1>5, <2>1, <2>2, FirstAct DEF CaseOK
  <1>6. (open'[c] = "no" => open[c] = "no") /\ ReadOK(open'[c], reading'[c])
    BY <1>2, FirstAct DEF ReadOK
  <1> QED
    BY <1>2, <1>3, <1>4, <1>5, <1>6, WithinCase

-----------------------------------------------------------------------------
(* The bytes of an attachment land.                                        *)
LEMMA KeepOK == ASSUME StateOK, NEW c \in Cases, lane[c] # <<>>, Keep(c, 1) PROVE StateOK'
  <1>1. lane[c][1].hash \in Hashes /\ lane[c][1].letgo \in SUBSET Hashes
    BY FirstAct DEF Acts, Keep
  <1>2. TypeInv
    BY DEF StateOK
  <1>3. held' \in [Cases -> SUBSET Hashes] /\ held'[c] = held[c] \cup {lane[c][1].hash}
        /\ \A d \in Cases \ {c} : held'[d] = held[d]
    BY <1>1, <1>2 DEF Keep, TypeInv
  <1>4. Stage(c, 1, "kept", lane[c][1].letgo) /\ lane[c][1].op = "attach" /\ "kept" \in Stages
    BY DEF Keep, Stages
  <1>5. UNCHANGED <<open, row, arriving, report, sending, reading, withdrawn>>
    BY DEF Keep
  <1>6. withdrawn = 0 /\ open'[c] = "yes" => RowsHeld(row'[c], held'[c])
    BY <1>3, <1>5, FirstAct DEF RowsHeld
  <1>7. FigureOK(row'[c], report'[c])
    BY <1>5 DEF StateOK
  <1> QED
    BY <1>1, <1>2, <1>3, <1>4, <1>5, <1>6, <1>7, StageOK DEF TypeInv

(* The record comes to name them, or stays.                                *)
LEMMA AttachedOK == ASSUME StateOK, NEW c \in Cases, lane[c] # <<>>, Attached(c, 1) PROVE StateOK'
  <1> DEFINE act == lane[c][1]
             r == CHOOSE x \in DOMAIN act.reads : TRUE
             taken == Current(c, act, r)
             new == [hash |-> act.hash, stored |-> TRUE, version |-> row[c][r].version + 1]
  <1>1. act \in Acts /\ act.hash \in Hashes /\ act.letgo \in SUBSET Hashes /\ act.op = "attach"
        /\ act.at = "kept"
    BY FirstAct DEF Acts, Attached
  <1>2. TypeInv
    BY DEF StateOK
  <1>3. row' = IF taken THEN [row EXCEPT ![c][r] = new] ELSE row
    BY DEF Attached
  <1>4. Stage(c, 1, "written", LetGo(act, taken)) /\ "written" \in Stages
    BY DEF Attached, Stages
  <1>5. UNCHANGED <<open, held, arriving, report, sending, reading, withdrawn>>
    BY DEF Attached
  <1>6. LetGo(act, taken) \in SUBSET Hashes
    BY <1>1 DEF LetGo
  <1>7. taken => row[c][r] # None
    BY DEF Current
  <1>8a. taken /\ r \in Rows => new \in Records
    <2>1. taken /\ r \in Rows => row[c][r] \in Records
      BY <1>2, <1>7 DEF TypeInv
    <2> QED
      BY <1>1, <2>1 DEF Records
  <1> HIDE DEF taken, r, act, new
  <1>8. /\ row' \in [Cases -> [Rows -> Records \cup {None}]]
        /\ \A d \in Cases \ {c} : row'[d] = row[d]
        /\ \A x \in Rows : row'[c][x] = IF taken /\ x = r THEN new ELSE row[c][x]
    <2>1. CASE taken /\ r \in Rows
      BY <1>2, <1>3, <1>8a, <2>1 DEF TypeInv
    <2>2. CASE taken /\ r \notin Rows
      <3>1. row' = row
        BY <1>2, <1>3, <2>2 DEF TypeInv
      <3> QED
        BY <1>2, <2>2, <3>1 DEF TypeInv
    <2>3. CASE ~taken
      BY <1>2, <1>3, <2>3 DEF TypeInv
    <2> QED
      BY <2>1, <2>2, <2>3
  <1>9. withdrawn = 0 => act.hash \in held[c]
    BY <1>1, FirstAct DEF FirstOK, act
  <1>10. withdrawn = 0 /\ open'[c] = "yes" => RowsHeld(row'[c], held'[c])
    BY <1>5, <1>8, <1>9, FirstAct DEF RowsHeld, new
  <1>11. FigureOK(row'[c], report'[c])
    <2>1. FigureOK(row[c], report[c]) /\ report[c].figure \in Rows \cup {None}
      BY <1>2 DEF StateOK, TypeInv, Reports
    <2>2. taken /\ r \in Rows => new # None
      BY <1>8a, StoreAssumption
    <2> QED
      BY <1>5, <1>7, <1>8, <2>1, <2>2 DEF FigureOK
  <1>12. act.op = "attach"
    BY <1>1
  <1> QED
    BY <1>2, <1>4, <1>5, <1>6, <1>8, <1>10, <1>11, <1>12, StageOK DEF TypeInv, act

(* Nothing changes but the lane.                                           *)
LEMMA EndsOnly ==
    ASSUME StateOK, NEW c \in Cases, lane[c] # <<>>, lane' = Ended(c, 1),
           UNCHANGED <<open, row, held, arriving, report, sending, reading, withdrawn>>
    PROVE  StateOK'
  <1>1. held \in [Cases -> SUBSET Hashes]
    BY DEF StateOK, TypeInv
  <1>2. withdrawn = 0 /\ open[c] = "yes" => RowsHeld(row[c], held'[c])
    BY FirstAct
  <1> QED
    BY <1>1, <1>2, EndOK

(* The records go, and what is drawn of them.                              *)
LEMMA RemovedOK == ASSUME StateOK, NEW c \in Cases, lane[c] # <<>>, Removed(c, 1) PROVE StateOK'
  <1> DEFINE act == lane[c][1]
             here == DOMAIN act.reads \cap Present(c)
             ok == act.sees /\ here # {} /\ \A r \in here : Current(c, act, r)
             gone == {row[c][r].hash : r \in here} \ {None}
  <1>1. TypeInv
    BY DEF StateOK
  <1>2. UNCHANGED <<open, held, arriving, sending, reading, withdrawn>> /\ act.op = "remove"
    BY DEF Removed
  <1>3. CASE ~ok
    <2>1. lane' = Ended(c, 1) /\ UNCHANGED <<row, report>>
      BY <1>3, Zenon DEF Removed
    <2> QED
      BY <1>2, <2>1, EndsOnly
  <1>4. CASE ok
    <2>1. /\ row' = [row EXCEPT ![c] = [r \in Rows |-> IF r \in here THEN None ELSE @[r]]]
          /\ report' = [report EXCEPT ![c].figure = IF @ \in here THEN None ELSE @]
          /\ Stage(c, 1, "written", gone)
      BY <1>4, Zenon DEF Removed
    <2>2. gone \in SUBSET Hashes
      BY <1>1 DEF TypeInv, Records, Present
    <2>3. here \subseteq Rows
      BY DEF Present
    <2> HIDE DEF here, gone, act
    <2>4. /\ row' \in [Cases -> [Rows -> Records \cup {None}]]
          /\ \A d \in Cases \ {c} : row'[d] = row[d]
          /\ \A r \in Rows : row'[c][r] = IF r \in here THEN None ELSE row[c][r]
      BY <1>1, <2>1 DEF TypeInv
    <2>5. /\ report' \in [Cases -> Reports]
          /\ \A d \in Cases \ {c} : report'[d] = report[d]
          /\ report'[c].figure = IF report[c].figure \in here THEN None ELSE report[c].figure
      BY <1>1, <2>1 DEF TypeInv, Reports
    <2>6. FigureOK(row'[c], report'[c])
      <3>1. FigureOK(row[c], report[c]) /\ report[c].figure \in Rows \cup {None}
        BY <1>1 DEF StateOK, TypeInv, Reports
      <3> QED
        BY <2>4, <2>5, <3>1 DEF FigureOK
    <2>7. withdrawn = 0 /\ open'[c] = "yes" => RowsHeld(row'[c], held'[c])
      BY <1>2, <2>4, FirstAct DEF RowsHeld
    <2>8. open' \in [Cases -> {"no", "yes", "gone"}] /\ held' \in [Cases -> SUBSET Hashes]
      BY <1>1, <1>2 DEF TypeInv
    <2>9. "written" \in Stages /\ lane[c][1].op # "delete"
      BY <1>2 DEF Stages, act
    <2> QED
      BY <1>2, <2>1, <2>2, <2>4, <2>5, <2>6, <2>7, <2>8, <2>9, StageOK
  <1> QED
    BY <1>3, <1>4

(* The case goes, and with it all of its records.                          *)
LEMMA DeletedOK == ASSUME StateOK, NEW c \in Cases, lane[c] # <<>>, Deleted(c, 1) PROVE StateOK'
  <1>1. TypeInv
    BY DEF StateOK
  <1>2. UNCHANGED <<held, arriving, sending, reading, withdrawn>>
    BY DEF Deleted
  <1>3. CASE ~(lane[c][1].sees /\ open[c] = "yes")
    <2>1. lane' = Ended(c, 1) /\ UNCHANGED <<open, row, report>>
      BY <1>3, Zenon DEF Deleted
    <2> QED
      BY <1>2, <2>1, EndsOnly
  <1>4. CASE lane[c][1].sees /\ open[c] = "yes"
    <2>1. /\ open' = [open EXCEPT ![c] = "gone"]
          /\ row' = [row EXCEPT ![c] = [r \in Rows |-> None]]
          /\ report' = [report EXCEPT ![c] = Draft(None)]
          /\ Stage(c, 1, "written", {})
      BY <1>4, Zenon DEF Deleted
    <2>2. /\ open' \in [Cases -> {"no", "yes", "gone"}] /\ open'[c] = "gone"
          /\ row' \in [Cases -> [Rows -> Records \cup {None}]]
          /\ held' \in [Cases -> SUBSET Hashes]
          /\ \A d \in Cases \ {c} : open'[d] = open[d] /\ row'[d] = row[d] /\ held'[d] = held[d]
      BY <1>1, <1>2, <2>1 DEF TypeInv
    <2>3. /\ report' \in [Cases -> Reports]
          /\ \A d \in Cases \ {c} : report'[d] = report[d]
          /\ report'[c].figure = None
      BY <1>1, <2>1 DEF TypeInv, Reports, Draft
    <2>4. FigureOK(row'[c], report'[c])
      BY <2>3 DEF FigureOK
    <2>5. "written" \in Stages /\ {} \in SUBSET Hashes
      BY DEF Stages
    <2> QED
      BY <1>2, <2>1, <2>2, <2>3, <2>4, <2>5, StageOK
  <1> QED
    BY <1>3, <1>4

(* The directory of a deleted case goes.                                   *)
LEMMA DiscardOK == ASSUME StateOK, NEW c \in Cases, lane[c] # <<>>, Discard(c, 1) PROVE StateOK'
  <1>1. held' = [held EXCEPT ![c] = {}] /\ lane' = Ended(c, 1)
        /\ UNCHANGED <<open, row, arriving, report, sending, reading, withdrawn>>
    BY DEF Discard
  <1>2. held' \in [Cases -> SUBSET Hashes] /\ \A d \in Cases \ {c} : held'[d] = held[d]
    BY <1>1 DEF StateOK, TypeInv
  <1>3. withdrawn = 0 => open[c] = "gone"
    BY FirstAct DEF FirstOK, Discard
  <1> QED
    BY <1>1, <1>2, <1>3, EndOK

(* What nothing names is picked.                                           *)
LEMMA AskOK == ASSUME StateOK, NEW c \in Cases, lane[c] # <<>>, Ask(c, 1) PROVE StateOK'
  <1> DEFINE act == lane[c][1]
             letgo == IF act.sees THEN act.letgo \ Named(c) ELSE act.letgo
  <1>1. TypeInv
    BY DEF StateOK
  <1>2. UNCHANGED <<open, row, held, arriving, report, sending, reading, withdrawn>> /\ act.op # "delete"
    BY DEF Ask
  <1>3. CASE act.letgo = {}
    BY <1>2, <1>3, EndsOnly DEF Ask
  <1>4. CASE act.letgo # {}
    <2>1. Stage(c, 1, "asked", letgo) /\ "asked" \in Stages
      BY <1>4 DEF Ask, Stages
    <2>2. letgo \in SUBSET Hashes
      BY FirstAct DEF Acts
    <2>3. withdrawn = 0 => Spared(row[c], letgo)
      <3>1. SUFFICES ASSUME withdrawn = 0, NEW r \in Rows, row[c][r] # None, row[c][r].stored
                     PROVE  row[c][r].hash \notin letgo
        BY DEF Spared
      <3>2. act.sees
        BY <3>1, FirstAct
      <3>3. row[c][r].hash \in Named(c) \cup {None}
        BY <3>1 DEF Named, Present
      <3> QED
        BY <2>2, <3>2, <3>3, StoreAssumption
    <2>4. FigureOK(row'[c], report'[c]) /\ (withdrawn = 0 /\ open[c] = "yes" => RowsHeld(row[c], held[c]))
      BY <1>2, FirstAct DEF StateOK
    <2> HIDE DEF letgo
    <2>5. withdrawn = 0 =>
             /\ open'[c] = "yes" => RowsHeld(row'[c], held'[c])
             /\ open'[c] = "yes" => Spared(row'[c], letgo)
      BY <1>2, <2>3, <2>4
    <2> QED
      BY <1>1, <1>2, <2>1, <2>2, <2>4, <2>5, StageOK DEF TypeInv
  <1> QED
    BY <1>3, <1>4

(* It is let go.                                                           *)
LEMMA ForgetOK == ASSUME StateOK, NEW c \in Cases, lane[c] # <<>>, Forget(c, 1) PROVE StateOK'
  <1>1. held' = [held EXCEPT ![c] = @ \ lane[c][1].letgo] /\ lane' = Ended(c, 1)
        /\ UNCHANGED <<open, row, arriving, report, sending, reading, withdrawn>>
    BY DEF Forget
  <1>2. held' \in [Cases -> SUBSET Hashes] /\ held'[c] = held[c] \ lane[c][1].letgo
        /\ \A d \in Cases \ {c} : held'[d] = held[d]
    BY <1>1 DEF StateOK, TypeInv
  <1>3. withdrawn = 0 /\ open[c] = "yes" => RowsHeld(row[c], held'[c])
    BY <1>2, FirstAct DEF FirstOK, Spared, RowsHeld, Forget
  <1> QED
    BY <1>1, <1>2, <1>3, EndOK

LEMMA RunOK == ASSUME StateOK, NEW c \in Cases, Run(c) PROVE StateOK'
  <1>1. lane[c] # <<>>
    BY DEF Run, Turn
  <1>2. \/ Keep(c, 1) \/ Attached(c, 1) \/ Removed(c, 1) \/ Deleted(c, 1)
        \/ Discard(c, 1) \/ Ask(c, 1) \/ Forget(c, 1)
    BY DEF Run, Turn
  <1> QED
    BY <1>1, <1>2, KeepOK, AttachedOK, RemovedOK, DeletedOK, DiscardOK, AskOK, ForgetOK

LEMMA FailOK == ASSUME StateOK, NEW c \in Cases, Fail(c) PROVE StateOK'
  <1>1. /\ lane[c] # <<>> /\ lane' = Ended(c, 1)
        /\ UNCHANGED <<open, row, held, arriving, report, sending, reading, withdrawn>>
    BY DEF Fail, Turn
  <1> QED
    BY <1>1, EndsOnly

-----------------------------------------------------------------------------
(* An attachment begins to arrive.                                         *)
LEMMA AttachOK ==
    ASSUME StateOK, NEW c \in Cases, NEW r \in Rows, NEW h \in Hashes, Attach(c, r, h)
    PROVE  StateOK'
  <1> DEFINE a == [case |-> c, old |-> row[c][r].hash, act |-> Act("attach", Versions(c, {r}), h)]
  <1>1. TypeInv /\ FigureOK(row[c], report[c]) /\ LaneOK(open[c], lane[c]) /\ ReadOK(open[c], reading[c])
    BY DEF StateOK
  <1>2. /\ arriving' = arriving \cup {a} /\ open[c] = "yes" /\ row[c][r] # None
        /\ UNCHANGED <<open, row, held, lane, report, sending, reading, withdrawn>>
    BY DEF Attach, Present
  <1>3. row[c][r] \in Records
    BY <1>1, <1>2 DEF TypeInv
  <1>4. Versions(c, {r}) \in [{r} -> Nat]
    BY <1>3 DEF Versions, Records
  <1>5. Versions(c, {r}) \in UNION {[S -> Nat] : S \in SUBSET Rows}
    BY <1>4
  <1>6. a \in Arrivals /\ a.case = c /\ a.act.sees
    BY <1>3, <1>5 DEF Arrivals, Acts, Ops, Stages, Act, Records
  <1> HIDE DEF a
  <1>7. TypeInv'
    BY <1>1, <1>2, <1>6 DEF TypeInv
  <1>8. withdrawn = 0 =>
          /\ \A i \in 1..Len(lane'[c]) : lane'[c][i].sees
          /\ CaseOK(open'[c], row'[c], held'[c], lane'[c], reading'[c])
    BY <1>2 DEF StateOK, Seen
  <1> QED
    BY <1>1, <1>2, <1>6, <1>7, <1>8, WithinCase

(* Its act is queued.                                                      *)
LEMMA LandsOK == ASSUME StateOK, NEW a \in arriving, Lands(a) PROVE StateOK'
  <1> DEFINE act == [a.act EXCEPT !.letgo = {a.old} \ {None}]
  <1>1. a \in Arrivals /\ a.case \in Cases /\ open[a.case] # "no" /\ (withdrawn = 0 => a.act.sees)
    BY DEF StateOK, TypeInv, Arrivals, Seen
  <1>2. /\ arriving' \subseteq arriving /\ lane' = [lane EXCEPT ![a.case] = Append(@, act)]
        /\ UNCHANGED <<open, row, held, report, sending, reading, withdrawn>>
    BY DEF Lands
  <1>3. a.act \in Acts /\ a.act.at = "queued" /\ a.old \in Hashes \cup {None}
    BY <1>1 DEF Arrivals
  <1>4. act \in Acts /\ act.at = "queued" /\ act.sees = a.act.sees
    BY <1>3 DEF Acts
  <1> HIDE DEF act
  <1> QED
    BY <1>1, <1>2, <1>4, QueueOK

LEMMA AskedOK ==
    ASSUME StateOK, NEW c \in Cases, NEW op \in Ops \ {"attach"},
           NEW reads \in UNION {[S -> Nat] : S \in SUBSET Rows}, Queue(c, Act(op, reads, None))
    PROVE  StateOK'
  <1>1. /\ lane' = [lane EXCEPT ![c] = Append(@, Act(op, reads, None))]
        /\ open[c] # "no" /\ UNCHANGED <<open, row, held, arriving, report, sending, reading, withdrawn>>
    BY DEF Queue
  <1>2. Act(op, reads, None) \in Acts /\ Act(op, reads, None).at = "queued" /\ Act(op, reads, None).sees
    BY DEF Act, Acts, Stages
  <1> QED
    BY <1>1, <1>2, QueueOK

LEMMA RemoveRecordsOK ==
    ASSUME StateOK, NEW c \in Cases, NEW S \in SUBSET Rows, RemoveRecords(c, S) PROVE StateOK'
  <1>1. \A r \in S : row[c][r] \in Records
    BY DEF RemoveRecords, Present, StateOK, TypeInv
  <1>2. Versions(c, S) \in [S -> Nat]
    BY <1>1 DEF Versions, Records
  <1>3. Versions(c, S) \in UNION {[T -> Nat] : T \in SUBSET Rows}
    BY <1>2
  <1> QED
    BY <1>3, AskedOK DEF RemoveRecords, Ops

(* The case is asked to be deleted; the act names no record.               *)
LEMMA DeleteOK == ASSUME StateOK, NEW c \in Cases, Delete(c) PROVE StateOK'
  <1>1. <<>> \in [{} -> Nat]
    OBVIOUS
  <1>2. <<>> \in UNION {[T -> Nat] : T \in SUBSET Rows}
    BY <1>1
  <1> QED
    BY <1>2, AskedOK DEF Delete, Ops

(* A record changes otherwise.                                             *)
LEMMA EditOK == ASSUME StateOK, NEW c \in Cases, NEW r \in Rows, Edit(c, r) PROVE StateOK'
  <1> DEFINE new == [row[c][r] EXCEPT !.version = @ + 1]
  <1>1. TypeInv /\ FigureOK(row[c], report[c]) /\ LaneOK(open[c], lane[c]) /\ ReadOK(open[c], reading[c])
    BY DEF StateOK
  <1>2. /\ row' = [row EXCEPT ![c] = [row[c] EXCEPT ![r] = new]] /\ row[c][r] # None
        /\ UNCHANGED <<open, held, arriving, lane, report, sending, reading, withdrawn>>
    BY <1>1 DEF Edit, Present, TypeInv
  <1>3. row[c][r] \in Records
    BY <1>1, <1>2 DEF TypeInv
  <1>4. new \in Records /\ new.hash = row[c][r].hash /\ new.stored = row[c][r].stored
    BY <1>3 DEF Records
  <1>5. new # None
    BY <1>4, StoreAssumption
  <1> HIDE DEF new
  <1>6. /\ row' \in [Cases -> [Rows -> Records \cup {None}]]
        /\ \A d \in Cases \ {c} : row'[d] = row[d]
        /\ \A x \in Rows : row'[c][x] = IF x = r THEN new ELSE row[c][x]
    BY <1>1, <1>2, <1>4 DEF TypeInv
  <1>7. TypeInv'
    BY <1>1, <1>2, <1>6 DEF TypeInv
  <1>8. FigureOK(row'[c], report'[c])
    <2>1. report[c].figure \in Rows \cup {None}
      BY <1>1 DEF TypeInv, Reports
    <2> QED
      BY <1>1, <1>2, <1>5, <1>6, <2>1 DEF FigureOK
  <1>9. ASSUME withdrawn = 0
        PROVE  /\ \A i \in 1..Len(lane'[c]) : lane'[c][i].sees
               /\ CaseOK(open'[c], row'[c], held'[c], lane'[c], reading'[c])
    <2>1. Seen /\ CaseOK(open[c], row[c], held[c], lane[c], reading[c])
      BY <1>9 DEF StateOK
    <2>2. RowsHeld(row[c], held[c]) => RowsHeld(row'[c], held[c])
      BY <1>2, <1>4, <1>6 DEF RowsHeld
    <2>3. \A S : Spared(row[c], S) => Spared(row'[c], S)
      BY <1>2, <1>4, <1>6 DEF Spared
    <2> QED
      BY <1>2, <2>1, <2>2, <2>3 DEF Seen, CaseOK, FirstOK
  <1> QED
    BY <1>1, <1>2, <1>6, <1>7, <1>8, <1>9, WithinCase

(* The report or the send of it moves.                                     *)
LEMMA ReportOnly ==
    ASSUME StateOK, report' \in [Cases -> Reports], sending' \in [Cases -> Sends \cup {None}],
           UNCHANGED <<open, row, held, arriving, lane, reading, withdrawn>>,
           \A c \in Cases : FigureOK(row[c], report'[c])
    PROVE  StateOK'
  <1>1. TypeInv'
    BY DEF StateOK, TypeInv
  <1>2. Seen' <=> Seen
    BY DEF Seen
  <1>3. \A c \in Cases : FigureOK(row'[c], report'[c]) /\ LaneOK(open'[c], lane'[c])
                        /\ ReadOK(open'[c], reading'[c])
    BY DEF StateOK
  <1>4. withdrawn' = 0 => Seen' /\ \A c \in Cases : CaseOK(open'[c], row'[c], held'[c], lane'[c], reading'[c])
    BY <1>2 DEF StateOK
  <1>5. \A a \in arriving' : open'[a.case] # "no"
    BY DEF StateOK
  <1> QED
    BY <1>1, <1>3, <1>4, <1>5 DEF StateOK

LEMMA PlaceOK == ASSUME StateOK, NEW c \in Cases, NEW r \in Rows, Place(c, r) PROVE StateOK'
  <1> DEFINE new == [report[c] EXCEPT !.figure = r, !.version = @ + 1]
  <1>1. TypeInv
    BY DEF StateOK
  <1>2. report' = [report EXCEPT ![c] = new]
    BY <1>1 DEF Place, TypeInv, Reports
  <1>3. new \in Reports /\ new.figure = r
    <2>1. report[c] \in Reports
      BY <1>1 DEF TypeInv
    <2>2. report[c].version + 1 \in Nat
      BY <2>1 DEF Reports
    <2>3. ASSUME NEW v \in Nat
          PROVE  [report[c] EXCEPT !.figure = r, !.version = v] \in Reports
                 /\ [report[c] EXCEPT !.figure = r, !.version = v].figure = r
      BY <2>1 DEF Reports
    <2> QED
      BY <2>2, <2>3, Zenon
  <1> HIDE DEF new
  <1>4. /\ report' \in [Cases -> Reports] /\ report'[c].figure = r
        /\ \A d \in Cases \ {c} : report'[d] = report[d]
    BY <1>1, <1>2, <1>3 DEF TypeInv
  <1>5. row[c][r] # None /\ UNCHANGED <<open, row, held, arriving, lane, sending, reading, withdrawn>>
    BY DEF Place, Present
  <1>6. \A d \in Cases : FigureOK(row[d], report'[d])
    BY <1>4, <1>5 DEF StateOK, FigureOK
  <1> QED
    BY <1>1, <1>4, <1>5, <1>6, ReportOnly DEF TypeInv

LEMMA SendOK == ASSUME StateOK, NEW c \in Cases, Send(c) PROVE StateOK'
  <1> DEFINE figure == report[c].figure
             hash == IF figure = None THEN None ELSE row[c][figure].hash
             s == [at |-> "read", version |-> report[c].version, drawn |-> FALSE, hash |-> hash]
  <1>1. TypeInv /\ FigureOK(row[c], report[c])
    BY DEF StateOK
  <1>2. sending' = [sending EXCEPT ![c] = s]
    BY DEF Send
  <1>3. figure \in Rows \cup {None} /\ report[c].version \in Nat
    BY <1>1 DEF TypeInv, Reports
  <1>4. figure # None => row[c][figure] \in Records
    BY <1>1, <1>3 DEF TypeInv, FigureOK
  <1>5. hash \in Hashes \cup {None}
    BY <1>4 DEF Records
  <1>6. s \in Sends
    BY <1>3, <1>5 DEF Sends
  <1> HIDE DEF s
  <1>7. sending' \in [Cases -> Sends \cup {None}]
    BY <1>1, <1>2, <1>6 DEF TypeInv
  <1>8. UNCHANGED <<open, row, held, arriving, lane, report, reading, withdrawn>>
    BY DEF Send
  <1> QED
    BY <1>1, <1>7, <1>8, ReportOnly DEF StateOK, TypeInv

LEMMA FiguresOK == ASSUME StateOK, NEW c \in Cases, Figures(c) PROVE StateOK'
  <1> DEFINE s == [sending[c] EXCEPT !.at = "drawn", !.drawn = (sending[c].hash \in held[c])]
  <1>1. TypeInv
    BY DEF StateOK
  <1>2. sending[c] \in Sends
    BY <1>1 DEF Figures, TypeInv
  <1>3. sending' = [sending EXCEPT ![c] = s]
    BY <1>1, <1>2 DEF Figures, TypeInv, Sends
  <1>4. s \in Sends
    <2>1. ASSUME NEW b \in BOOLEAN PROVE [sending[c] EXCEPT !.at = "drawn", !.drawn = b] \in Sends
      BY <1>2 DEF Sends
    <2>2. (sending[c].hash \in held[c]) \in BOOLEAN
      OBVIOUS
    <2> QED
      BY <2>1, <2>2, Zenon
  <1> HIDE DEF s
  <1>5. sending' \in [Cases -> Sends \cup {None}]
    BY <1>1, <1>3, <1>4 DEF TypeInv
  <1>6. UNCHANGED <<open, row, held, arriving, lane, report, reading, withdrawn>>
    BY DEF Figures
  <1> QED
    BY <1>1, <1>5, <1>6, ReportOnly DEF StateOK, TypeInv

LEMMA StampOK == ASSUME StateOK, NEW c \in Cases, Stamp(c) PROVE StateOK'
  <1> DEFINE s == sending[c]
             ok == open[c] = "yes" /\ Unmoved(c, s)
             p == [report[c] EXCEPT !.sent = TRUE, !.frozen = s.hash, !.drawn = s.drawn]
  <1>1. TypeInv
    BY DEF StateOK
  <1>2. s \in Sends
    BY <1>1 DEF Stamp, TypeInv
  <1>3. sending' = [sending EXCEPT ![c] = None]
        /\ UNCHANGED <<open, row, held, arriving, lane, reading, withdrawn>>
    BY DEF Stamp
  <1>4. report' = IF ok THEN [report EXCEPT ![c] = p] ELSE report
    BY <1>1 DEF Stamp, TypeInv, Reports
  <1>5. p \in Reports /\ p.figure = report[c].figure
    <2>1. report[c] \in Reports
      BY <1>1 DEF TypeInv
    <2>2. s.hash \in Hashes \cup {None} /\ s.drawn \in BOOLEAN
      BY <1>2 DEF Sends
    <2> HIDE DEF s
    <2> QED
      BY <2>1, <2>2 DEF Reports
  <1> HIDE DEF p, ok, s
  <1>6. report' \in [Cases -> Reports] /\ \A d \in Cases : report'[d].figure = report[d].figure
    BY <1>1, <1>4, <1>5 DEF TypeInv
  <1>7. sending' \in [Cases -> Sends \cup {None}]
    BY <1>1, <1>3 DEF TypeInv
  <1>8. \A d \in Cases : FigureOK(row[d], report'[d])
    BY <1>6 DEF StateOK, FigureOK
  <1> QED
    BY <1>3, <1>6, <1>7, <1>8, ReportOnly

-----------------------------------------------------------------------------
(* The bytes of an archive land where no case is yet.                      *)
LEMMA ImportOK == ASSUME StateOK, NEW c \in Cases, Import(c) PROVE StateOK'
  <1>1. TypeInv /\ FigureOK(row[c], report[c]) /\ LaneOK(open[c], lane[c])
    BY DEF StateOK
  <1>2. PICK files \in SUBSET Hashes :
            /\ reading' = [reading EXCEPT ![c] = files]
            /\ held' = [held EXCEPT ![c] = files]
    BY DEF Import
  <1>3. open[c] = "no" /\ UNCHANGED <<open, row, arriving, lane, report, sending, withdrawn>>
    BY DEF Import
  <1>4. TypeInv'
    BY <1>1, <1>2, <1>3 DEF TypeInv
  <1>5. /\ reading'[c] = files /\ held'[c] = files /\ lane[c] = <<>>
        /\ \A d \in Cases \ {c} : held'[d] = held[d] /\ reading'[d] = reading[d]
    BY <1>1, <1>2, <1>3 DEF TypeInv, LaneOK
  <1>6. withdrawn = 0 =>
          /\ \A i \in 1..Len(lane'[c]) : lane'[c][i].sees
          /\ CaseOK(open'[c], row'[c], held'[c], lane'[c], reading'[c])
    BY <1>3, <1>5 DEF CaseOK, StateOK, Seen
  <1>7. ReadOK(open'[c], reading'[c])
    BY <1>3 DEF ReadOK
  <1> QED
    BY <1>1, <1>3, <1>4, <1>5, <1>6, <1>7, WithinCase

(* They are discarded with the archive.                                    *)
LEMMA RefusedOK == ASSUME StateOK, NEW c \in Cases, Refused(c) PROVE StateOK'
  <1>1. TypeInv /\ FigureOK(row[c], report[c]) /\ LaneOK(open[c], lane[c]) /\ ReadOK(open[c], reading[c])
    BY DEF StateOK
  <1>2. /\ reading' = [reading EXCEPT ![c] = None] /\ held' = [held EXCEPT ![c] = {}]
        /\ reading[c] # None
        /\ UNCHANGED <<open, row, arriving, lane, report, sending, withdrawn>>
    BY DEF Refused
  <1>3. TypeInv'
    BY <1>1, <1>2 DEF TypeInv
  <1>4. /\ reading'[c] = None /\ open[c] = "no" /\ lane[c] = <<>>
        /\ \A d \in Cases \ {c} : held'[d] = held[d] /\ reading'[d] = reading[d]
    BY <1>1, <1>2 DEF TypeInv, LaneOK, ReadOK
  <1>5. withdrawn = 0 =>
          /\ \A i \in 1..Len(lane'[c]) : lane'[c][i].sees
          /\ CaseOK(open'[c], row'[c], held'[c], lane'[c], reading'[c])
    BY <1>2, <1>4 DEF CaseOK, StateOK, Seen
  <1>6. ReadOK(open'[c], reading'[c])
    BY <1>4 DEF ReadOK
  <1> QED
    BY <1>1, <1>2, <1>3, <1>4, <1>5, <1>6, WithinCase

(* The records an archive states, with what it carries.                    *)
LEMMA ImportedOK == ASSUME StateOK, NEW c \in Cases, Imported(c) PROVE StateOK'
  <1>1. TypeInv /\ FigureOK(row[c], report[c]) /\ LaneOK(open[c], lane[c]) /\ ReadOK(open[c], reading[c])
    BY DEF StateOK
  <1>2. /\ reading[c] # None /\ reading' = [reading EXCEPT ![c] = None]
        /\ open' = [open EXCEPT ![c] = "yes"]
        /\ UNCHANGED <<held, arriving, sending, withdrawn>>
    BY DEF Imported
  <1>3. open[c] = "no" /\ lane[c] = <<>> /\ reading[c] \in SUBSET Hashes
    BY <1>1, <1>2 DEF TypeInv, LaneOK, ReadOK
  <1> DEFINE act == [op |-> "import", at |-> "written", reads |-> <<>>, hash |-> None,
                    letgo |-> reading[c], sees |-> TRUE]
  <1>4. act \in Acts /\ act.at = "written" /\ act.sees /\ act.op = "import"
    <2>1. <<>> \in [{} -> Nat]
      OBVIOUS
    <2>2. <<>> \in UNION {[T -> Nat] : T \in SUBSET Rows}
      BY <2>1
    <2> QED
      BY <1>3, <2>2 DEF Acts, Ops, Stages
  <1>5. lane' = [lane EXCEPT ![c] = Append(@, act)]
    BY DEF Imported
  <1> HIDE DEF act
  <1>6. /\ lane' \in [Cases -> Seq(Acts)] /\ \A d \in Cases \ {c} : lane'[d] = lane[d]
        /\ lane'[c][1] = act /\ Len(lane'[c]) = 1 /\ lane'[c] # <<>>
    BY <1>1, <1>3, <1>4, <1>5, AppendStep, Zenon
  <1>7. PICK hash \in [Rows -> Hashes \cup {None}], stated \in BOOLEAN, frozen \in Hashes \cup {None} :
          /\ row' = [row EXCEPT ![c] = [r \in Rows |->
                [hash |-> hash[r], version |-> 1,
                 stored |-> Carried(reading[c], hash[r], stated)]]]
          /\ report' = [report EXCEPT ![c] =
                [figure |-> None, version |-> 1, sent |-> frozen # None, frozen |-> frozen,
                 drawn |-> frozen \in reading[c]]]
    BY Zenon DEF Imported
  <1> DEFINE entry(r) == [hash |-> hash[r], version |-> 1, stored |-> Carried(reading[c], hash[r], stated)]
             new == [r \in Rows |-> entry(r)]
             paper == [figure |-> None, version |-> 1, sent |-> frozen # None,
                       frozen |-> frozen, drawn |-> frozen \in reading[c]]
  <1>8. \A r \in Rows : /\ entry(r) \in Records /\ entry(r).hash = hash[r]
                        /\ entry(r).stored <=> Carried(reading[c], hash[r], stated)
    <2>1. \A r \in Rows : Carried(reading[c], hash[r], stated) \in BOOLEAN
      BY DEF Carried
    <2> QED
      BY <2>1 DEF Records
  <1>9. paper \in Reports /\ paper.figure = None
    <2>1. (frozen # None) \in BOOLEAN /\ (frozen \in reading[c]) \in BOOLEAN
      OBVIOUS
    <2>2. ASSUME NEW x \in BOOLEAN, NEW y \in BOOLEAN
          PROVE  [figure |-> None, version |-> 1, sent |-> x, frozen |-> frozen, drawn |-> y] \in Reports
      BY DEF Reports
    <2> QED
      BY <2>1, <2>2, Zenon
  <1>10. row' = [row EXCEPT ![c] = new] /\ report' = [report EXCEPT ![c] = paper]
    BY <1>7, Zenon
  <1> HIDE DEF paper
  <1>11. new \in [Rows -> Records \cup {None}]
    BY <1>8
  <1>12. \A r \in Rows : new[r].hash = hash[r] /\ (new[r].stored <=> Carried(reading[c], hash[r], stated))
    BY <1>8
  <1> HIDE DEF new
  <1>13. TypeInv'
    BY <1>1, <1>2, <1>6, <1>9, <1>10, <1>11 DEF TypeInv
  <1>14. /\ row'[c] = new /\ report'[c] = paper /\ open'[c] = "yes" /\ reading'[c] = None
         /\ \A d \in Cases \ {c} : /\ row'[d] = row[d] /\ report'[d] = report[d]
                                  /\ open'[d] = open[d] /\ reading'[d] = reading[d]
    BY <1>1, <1>2, <1>10 DEF TypeInv
  <1>15. FigureOK(row'[c], report'[c]) /\ LaneOK(open'[c], lane'[c]) /\ ReadOK(open'[c], reading'[c])
    BY <1>6, <1>9, <1>14 DEF FigureOK, LaneOK, ReadOK
  <1>16. ASSUME withdrawn = 0
         PROVE  /\ \A i \in 1..Len(lane'[c]) : lane'[c][i].sees
                /\ CaseOK(open'[c], row'[c], held'[c], lane'[c], reading'[c])
    <2>1. held[c] = reading[c]
      BY <1>2, <1>16 DEF StateOK, CaseOK
    <2>2. RowsHeld(row'[c], held'[c])
      BY <1>2, <1>12, <1>14, <2>1 DEF RowsHeld, Carried
    <2>3. FirstOK(open'[c], row'[c], held'[c], lane'[c][1])
      BY <1>4, <1>6 DEF FirstOK
    <2> QED
      BY <1>4, <1>6, <1>14, <2>2, <2>3 DEF CaseOK
  <1> QED
    BY <1>1, <1>2, <1>6, <1>13, <1>14, <1>15, <1>16, WithinCase

-----------------------------------------------------------------------------
(* Reach is lost to a case with an act under way.                          *)
LEMMA WithdrawOK == ASSUME StateOK, Withdraw PROVE StateOK'
  <1>1. TypeInv
    BY DEF StateOK
  <1>2. withdrawn' # 0 /\ withdrawn' \in Nat
        /\ UNCHANGED <<open, row, held, report, sending, reading>>
    BY <1>1 DEF Withdraw, TypeInv
  <1>3. CASE \E a \in arriving :
               /\ arriving' = (arriving \ {a}) \cup {[a EXCEPT !.act = Blinded(@)]}
               /\ UNCHANGED lane
    <2>1. PICK a \in arriving : arriving' = (arriving \ {a}) \cup {[a EXCEPT !.act = Blinded(@)]}
      BY <1>3
    <2>2. a \in Arrivals /\ open[a.case] # "no"
      BY <1>1 DEF TypeInv, StateOK
    <2>3. a.act \in Acts /\ a.act.at = "queued" /\ a.act.op = "attach"
      BY <2>2 DEF Arrivals
    <2>4. Blinded(a.act) \in Acts /\ Blinded(a.act).at = "queued" /\ Blinded(a.act).op = "attach"
      BY <2>3 DEF Blinded, Acts
    <2>5. [a EXCEPT !.act = Blinded(@)] \in Arrivals /\ [a EXCEPT !.act = Blinded(@)].case = a.case
      BY <2>2, <2>4 DEF Arrivals
    <2>6. arriving' \in SUBSET Arrivals /\ \A b \in arriving' : open[b.case] # "no"
      BY <1>1, <2>1, <2>2, <2>5 DEF TypeInv, StateOK
    <2> QED
      BY <1>1, <1>2, <1>3, <2>6 DEF TypeInv, StateOK
  <1>4. CASE \E c \in Cases : \E i \in 1..Len(lane[c]) :
               /\ lane' = [lane EXCEPT ![c] = ReplaceAt(@, i, Blinded(@[i]))]
               /\ UNCHANGED arriving
    <2>1. PICK c \in Cases : \E i \in 1..Len(lane[c]) :
               /\ lane' = [lane EXCEPT ![c] = ReplaceAt(@, i, Blinded(@[i]))]
               /\ UNCHANGED arriving
      BY <1>4
    <2>2. PICK i \in 1..Len(lane[c]) :
               /\ lane' = [lane EXCEPT ![c] = ReplaceAt(@, i, Blinded(@[i]))]
               /\ UNCHANGED arriving
      BY <2>1
    <2>3. lane[c] \in Seq(Acts) /\ lane[c][i] \in Acts /\ lane \in [Cases -> Seq(Acts)]
      BY <1>1 DEF TypeInv
    <2>4. Blinded(lane[c][i]) \in Acts /\ Blinded(lane[c][i]).at = lane[c][i].at
      BY <2>3 DEF Blinded, Acts
    <2> DEFINE s == ReplaceAt(lane[c], i, Blinded(lane[c][i]))
    <2>5. /\ s \in Seq(Acts) /\ Len(s) = Len(lane[c]) /\ s[i] = Blinded(lane[c][i])
          /\ \A j \in 1..Len(lane[c]) \ {i} : s[j] = lane[c][j]
      BY <2>3, <2>4, ReplacedLane
    <2>6. lane' = [lane EXCEPT ![c] = s]
      BY <2>2, <2>3
    <2> HIDE DEF s
    <2>7. lane' \in [Cases -> Seq(Acts)] /\ lane'[c] = s /\ \A d \in Cases \ {c} : lane'[d] = lane[d]
      BY <2>3, <2>5, <2>6
    <2>8. lane[c] # <<>>
      BY <2>3
    <2>9. LaneOK(open[c], s)
      <3>1. LaneOK(open[c], lane[c]) /\ open[c] # "no"
        BY <2>8 DEF StateOK, LaneOK
      <3>2. \A j \in 2..Len(s) : s[j].at = lane[c][j].at
        BY <2>3, <2>4, <2>5
      <3> QED
        BY <2>5, <3>1, <3>2 DEF LaneOK
    <2>10. TypeInv'
      BY <1>1, <1>2, <2>2, <2>7 DEF TypeInv
    <2>11. \A d \in Cases : FigureOK(row'[d], report'[d]) /\ LaneOK(open'[d], lane'[d])
                           /\ ReadOK(open'[d], reading'[d])
      BY <1>2, <2>7, <2>9 DEF StateOK
    <2> QED
      BY <1>2, <2>2, <2>10, <2>11 DEF StateOK
  <1> QED
    BY <1>3, <1>4 DEF Withdraw

(* Nothing queued or arriving survives a crash.                            *)
LEMMA CrashOK == ASSUME StateOK, Crash PROVE StateOK'
  <1>1. TypeInv
    BY DEF StateOK
  <1>2. /\ arriving' = {} /\ lane' = [c \in Cases |-> <<>>]
        /\ sending' = [c \in Cases |-> None] /\ reading' = [c \in Cases |-> None]
        /\ UNCHANGED <<open, row, held, report, withdrawn>>
    BY DEF Crash
  <1>3. TypeInv'
    BY <1>1, <1>2 DEF TypeInv
  <1>4. \A c \in Cases : FigureOK(row'[c], report'[c]) /\ LaneOK(open'[c], lane'[c])
                        /\ ReadOK(open'[c], reading'[c])
    BY <1>2 DEF StateOK, LaneOK, ReadOK
  <1>5. Seen'
    BY <1>2 DEF Seen
  <1>6. withdrawn = 0 => \A c \in Cases : CaseOK(open'[c], row'[c], held'[c], lane'[c], reading'[c])
    BY <1>2 DEF StateOK, CaseOK
  <1> QED
    BY <1>2, <1>3, <1>4, <1>5, <1>6 DEF StateOK

LEMMA NextOK == StateOK /\ [Next]_vars => StateOK'
  <1> SUFFICES ASSUME StateOK, [Next]_vars PROVE StateOK'
    OBVIOUS
  <1>1. CASE \E c \in Cases : Analyst(c)
    BY <1>1, EditOK, PlaceOK, AttachOK, RemoveRecordsOK, DeleteOK, SendOK, ImportOK DEF Analyst
  <1>2. CASE \E c \in Cases : Server(c)
    BY <1>2, RunOK, FiguresOK, StampOK, ImportedOK, RefusedOK DEF Server
  <1>3. CASE \E c \in Cases : Fail(c)
    BY <1>3, FailOK
  <1>4. CASE \E a \in arriving : Lands(a)
    BY <1>4, LandsOK
  <1>5. CASE Withdraw
    BY <1>5, WithdrawOK
  <1>6. CASE Crash
    BY <1>6, CrashOK
  <1>7. CASE UNCHANGED vars
    <2>1. Seen' <=> Seen
      BY <1>7 DEF vars, Seen
    <2>2. TypeInv'
      BY <1>7 DEF vars, StateOK, TypeInv
    <2> QED
      BY <1>7, <2>1, <2>2 DEF vars, StateOK
  <1> QED
    BY <1>1, <1>2, <1>3, <1>4, <1>5, <1>6, <1>7 DEF Next

LEMMA Inductive == Spec => []StateOK
  BY InitOK, NextOK, PTL DEF Spec

-----------------------------------------------------------------------------
(* Every variable has its type, only the first act of a lane is past its   *)
(* wait, and a figure is a record that is there.                           *)
THEOREM StoreTypes == Spec => []TypeOK
  <1>1. StateOK => TypeOK
    <2> SUFFICES ASSUME StateOK PROVE TypeOK
      OBVIOUS
    <2>1. TypeInv
      BY DEF StateOK
    <2>2. \A a \in Acts : ActOK(a)
      BY DEF Acts, Ops, Stages, ActOK
    <2>3. \A a \in arriving : ActOK(a.act)
      BY <2>1, <2>2 DEF TypeInv, Arrivals
    <2>4. \A c \in Cases : \A i \in 1..Len(lane[c]) : ActOK(lane[c][i]) /\ (i > 1 => lane[c][i].at = "queued")
      <3>1. SUFFICES ASSUME NEW c \in Cases, NEW i \in 1..Len(lane[c])
                     PROVE  ActOK(lane[c][i]) /\ (i > 1 => lane[c][i].at = "queued")
        OBVIOUS
      <3>2. lane[c] \in Seq(Acts) /\ LaneOK(open[c], lane[c])
        BY <2>1 DEF TypeInv, StateOK
      <3> QED
        BY <2>2, <3>2 DEF LaneOK
    <2>5. \A c \in Cases : report[c].figure \in Present(c) \cup {None}
      BY <2>1 DEF TypeInv, Reports, StateOK, FigureOK, Present
    <2> QED
      BY <2>1, <2>3, <2>4, <2>5 DEF TypeInv, TypeOK
  <1> QED
    BY <1>1, Inductive, PTL

(* Until an analyst loses reach to a case with an act of theirs under way, *)
(* the bytes a record says its case holds are held.                        *)
THEOREM WhatIsNamedIsHeld == Spec => []NamedIsHeld
  <1>1. StateOK => NamedIsHeld
    BY DEF StateOK, CaseOK, RowsHeld, NamedIsHeld, Present
  <1> QED
    BY <1>1, Inductive, PTL

-----------------------------------------------------------------------------
(* What is picked in a lane: by its first act alone.                       *)
Picked(l) == UNION {l[i].letgo : i \in {j \in 1..Len(l) : l[j].at = "asked"}}

LEMMA OnlyFirstPicks ==
    ASSUME NEW o, NEW l \in Seq(Acts), LaneOK(o, l)
    PROVE  Picked(l) = IF l # <<>> /\ l[1].at = "asked" THEN l[1].letgo ELSE {}
  <1>1. \A i \in 1..Len(l) : l[i].at = "asked" => i = 1
    BY DEF LaneOK
  <1>2. l # <<>> <=> 1 \in 1..Len(l)
    BY EmptySeq
  <1> QED
    BY <1>1, <1>2 DEF Picked

LEMMA PickedNow ==
    ASSUME StateOK, NEW c \in Cases, lane[c] # <<>>, lane[c][1].at = "asked"
    PROVE  LettingGo(c) = lane[c][1].letgo
  <1>1. lane[c] \in Seq(Acts) /\ LaneOK(open[c], lane[c])
    BY DEF StateOK, TypeInv
  <1> QED
    BY <1>1, OnlyFirstPicks DEF LettingGo, Picked

(* What the first act of the next lane has not picked is not picked.       *)
LEMMA PickedNext ==
    ASSUME StateOK', NEW c \in Cases, NEW f,
           lane'[c] # <<>> /\ lane'[c][1].at = "asked" => f \notin lane'[c][1].letgo
    PROVE  f \notin LettingGo(c)'
  <1>1. lane'[c] \in Seq(Acts) /\ LaneOK(open'[c], lane'[c])
    BY DEF StateOK, TypeInv
  <1>2. Picked(lane'[c]) = IF lane'[c] # <<>> /\ lane'[c][1].at = "asked" THEN lane'[c][1].letgo ELSE {}
    BY <1>1, OnlyFirstPicks
  <1> QED
    BY <1>2 DEF LettingGo, Picked

Stays(c, f) == f \notin LettingGo(c)' /\ (f \in held[c] => f \in held'[c])

(* An act queued behind the others picks nothing.                          *)
LEMMA QueueStays ==
    ASSUME StateOK, StateOK', NEW c \in Cases, NEW d \in Cases, NEW f, f \notin LettingGo(c),
           NEW a \in Acts, a.at # "asked", lane' = [lane EXCEPT ![d] = Append(@, a)], held' = held
    PROVE  Stays(c, f)
  <1>1. TypeInv
    BY DEF StateOK
  <1>2. /\ \A e \in Cases \ {d} : lane'[e] = lane[e]
        /\ lane[d] # <<>> => lane'[d][1] = lane[d][1]
        /\ lane[d] = <<>> => lane'[d][1] = a
    BY <1>1, AppendStep
  <1>3. lane'[c] # <<>> /\ lane'[c][1].at = "asked" => f \notin lane'[c][1].letgo
    BY <1>2, PickedNow
  <1> QED
    BY <1>3, PickedNext DEF Stays

(* Nor does an act that goes to a stage at which it has not picked it.     *)
LEMMA StageStays ==
    ASSUME StateOK, StateOK', NEW c \in Cases, NEW f, lane[c] # <<>>,
           NEW at \in Stages, NEW letgo \in SUBSET Hashes,
           Stage(c, 1, at, letgo), at = "asked" => f \notin letgo
    PROVE  Stays(c, f) \/ ~(f \in held[c] => f \in held'[c])
  <1>1. TypeInv /\ LaneOK(open[c], lane[c])
    BY DEF StateOK
  <1>2. lane'[c][1].at = at /\ lane'[c][1].letgo = letgo
    BY <1>1, StageStep
  <1> QED
    BY <1>2, PickedNext DEF Stays

(* The first act of the case, at each of its steps.                        *)
LEMMA RunStays ==
    ASSUME StateOK, StateOK', NEW c \in Cases, Run(c), withdrawn = 0, open'[c] = "yes",
           report[c].sent, report[c].frozen \notin LettingGo(c)
    PROVE  Stays(c, report[c].frozen)
  <1> DEFINE f == report[c].frozen
  <1>1. TypeInv /\ lane[c] # <<>>
    BY DEF StateOK, Run, Turn
  <1>2. /\ lane[c][1] \in Acts /\ lane[c][1].letgo \in SUBSET Hashes
        /\ LaneOK(open[c], lane[c]) /\ FirstOK(open[c], row[c], held[c], lane[c][1])
        /\ lane[c][1].sees
    BY <1>1, FirstAct DEF Acts
  <1>3. f \in Named(c) \cup {None}
    BY DEF Named
  <1>4. lane[c][1].at = "asked" => f \notin lane[c][1].letgo
    BY <1>1, PickedNow
  <1>5. lane' = Ended(c, 1) => Stays(c, f) \/ ~(f \in held[c] => f \in held'[c])
    BY <1>1, <1>2, EndedStep, PickedNext DEF Stays
  <1>6. ASSUME NEW at \in Stages, NEW letgo \in SUBSET Hashes,
               Stage(c, 1, at, letgo), at = "asked" => f \notin letgo
        PROVE  Stays(c, f) \/ ~(f \in held[c] => f \in held'[c])
    BY <1>1, <1>6, StageStays
  <1>7. CASE Keep(c, 1)
    BY <1>1, <1>2, <1>6, <1>7 DEF Keep, Stages, TypeInv
  <1>8. CASE Attached(c, 1)
    <2>1. \A taken \in BOOLEAN : LetGo(lane[c][1], taken) \in SUBSET Hashes
      BY <1>2, <1>8 DEF LetGo, Attached, Acts
    <2>2. PICK letgo \in SUBSET Hashes : Stage(c, 1, "written", letgo)
      BY <1>8, <2>1 DEF Attached, Current
    <2> QED BY <1>6, <1>8, <2>2 DEF Attached, Stages
  <1>9. CASE Removed(c, 1)
    <2>1. lane' = Ended(c, 1) \/ \E letgo \in SUBSET Hashes : Stage(c, 1, "written", letgo)
      <3> DEFINE here == DOMAIN lane[c][1].reads \cap Present(c)
                 gone == {row[c][r].hash : r \in here} \ {None}
      <3>1. gone \in SUBSET Hashes
        BY <1>1 DEF TypeInv, Records, Present
      <3> QED BY <1>9, <3>1, Zenon DEF Removed
    <2> QED BY <1>5, <1>6, <1>9, <2>1 DEF Removed, Stages
  <1>10. CASE Deleted(c, 1)
    <2>1. lane' = Ended(c, 1) \/ Stage(c, 1, "written", {})
      BY <1>10 DEF Deleted
    <2> QED BY <1>5, <1>6, <1>10, <2>1 DEF Deleted, Stages
  <1>11. CASE Discard(c, 1)
    BY <1>2, <1>11 DEF Discard, FirstOK
  <1>12. CASE Ask(c, 1)
    <2>1. \/ lane' = Ended(c, 1)
          \/ Stage(c, 1, "asked", lane[c][1].letgo \ Named(c))
      BY <1>2, <1>12 DEF Ask
    <2>2. f \notin lane[c][1].letgo \ Named(c)
      BY <1>2, <1>3, StoreAssumption
    <2> QED BY <1>2, <1>5, <1>6, <1>12, <2>1, <2>2 DEF Ask, Stages
  <1>13. CASE Forget(c, 1)
    BY <1>1, <1>4, <1>5, <1>13 DEF Forget, TypeInv
  <1> QED
    BY <1>7, <1>8, <1>9, <1>10, <1>11, <1>12, <1>13 DEF Run, Turn

(* Every lane keeps its picks where the first act stays or ends.           *)
LEMMA StepStays ==
    ASSUME StateOK, StateOK', Next, NEW c \in Cases, withdrawn = 0, open'[c] = "yes",
           report[c].sent, report[c].frozen \notin LettingGo(c)
    PROVE  Stays(c, report[c].frozen)
  <1> DEFINE f == report[c].frozen
  <1>1. TypeInv
    BY DEF StateOK
  <1>2. ASSUME lane'[c] = lane[c], held'[c] = held[c] PROVE Stays(c, f)
    BY <1>2 DEF Stays, LettingGo
  <1>3. ASSUME NEW d \in Cases, d # c, Run(d) PROVE Stays(c, f)
    <2>1. lane' = [lane EXCEPT ![d] = lane'[d]] /\ held' = [held EXCEPT ![d] = held'[d]]
      BY <1>1, <1>3 DEF TypeInv, Run, Keep, Attached, Removed, Deleted, Discard, Ask, Forget, Stage, Ended
    <2> QED BY <1>1, <1>2, <1>3, <2>1 DEF TypeInv
  <1>4. ASSUME NEW d \in Cases, Analyst(d) PROVE Stays(c, f)
    <2>1. CASE lane' = lane /\ held' = held
      BY <1>2, <2>1
    <2>2. CASE Import(d)
      <3>1. d # c
        BY <1>1, <2>2 DEF Import, TypeInv
      <3> QED BY <1>1, <1>2, <2>2, <3>1 DEF Import, TypeInv
    <2>3. ASSUME NEW S \in SUBSET Rows, RemoveRecords(d, S) PROVE Stays(c, f)
      <3>1. Versions(d, S) \in UNION {[T -> Nat] : T \in SUBSET Rows}
        BY <1>1, <2>3 DEF RemoveRecords, Present, TypeInv, Versions, Records
      <3>2. Act("remove", Versions(d, S), None) \in Acts
        BY <3>1 DEF Act, Acts, Stages, Ops
      <3> QED BY <2>3, <3>2, QueueStays DEF RemoveRecords, Queue, Act
    <2>4. CASE Delete(d)
      <3>1. <<>> \in [{} -> Nat]
        OBVIOUS
      <3>2. <<>> \in UNION {[T -> Nat] : T \in SUBSET Rows}
        BY <3>1
      <3>3. Act("delete", <<>>, None) \in Acts
        BY <3>2 DEF Act, Acts, Stages, Ops
      <3> QED BY <2>4, <3>3, QueueStays DEF Delete, Queue, Act
    <2> QED BY <1>4, <2>1, <2>2, <2>3, <2>4 DEF Analyst, Edit, Place, Attach, Send
  <1>5. ASSUME NEW d \in Cases, Figures(d) \/ Stamp(d) PROVE Stays(c, f)
    BY <1>2, <1>5 DEF Figures, Stamp
  <1>6. ASSUME NEW d \in Cases, Imported(d) PROVE Stays(c, f)
    <2> DEFINE a == [op |-> "import", at |-> "written", reads |-> <<>>, hash |-> None,
                     letgo |-> reading[d], sees |-> TRUE]
    <2>1. lane' = [lane EXCEPT ![d] = Append(@, a)] /\ held' = held /\ reading[d] \in SUBSET Hashes
      BY <1>1, <1>6 DEF Imported, TypeInv
    <2>2. <<>> \in [{} -> Nat]
      OBVIOUS
    <2>3. <<>> \in UNION {[T -> Nat] : T \in SUBSET Rows}
      BY <2>2
    <2>4. a \in Acts /\ a.at = "written"
      BY <2>1, <2>3 DEF Acts, Ops, Stages
    <2> HIDE DEF a
    <2> QED BY <2>1, <2>4, QueueStays
  <1>7. ASSUME NEW d \in Cases, Refused(d) PROVE Stays(c, f)
    <2>1. open[d] = "no"
      BY <1>7 DEF Refused, StateOK, ReadOK
    <2>2. d # c
      BY <1>7, <2>1 DEF Refused
    <2> QED BY <1>1, <1>2, <1>7, <2>2 DEF Refused, TypeInv
  <1>8. ASSUME NEW d \in Cases, Fail(d) PROVE Stays(c, f)
    <2>1. lane[d] # <<>> /\ lane' = Ended(d, 1) /\ held' = held
      BY <1>8 DEF Fail, Turn
    <2>2. LaneOK(open[d], lane[d])
      BY DEF StateOK
    <2>3. CASE d = c
      BY <1>1, <2>1, <2>2, <2>3, EndedStep, PickedNext DEF Stays
    <2>4. CASE d # c
      BY <1>1, <1>2, <2>1, <2>2, <2>4, EndedStep
    <2> QED BY <2>3, <2>4
  <1>9. ASSUME NEW a \in arriving, Lands(a) PROVE Stays(c, f)
    <2> DEFINE act == [a.act EXCEPT !.letgo = {a.old} \ {None}]
    <2>1. a.case \in Cases /\ a.act \in Acts /\ a.act.at = "queued" /\ a.old \in Hashes \cup {None}
      BY <1>1 DEF TypeInv, Arrivals
    <2>2. act \in Acts /\ act.at = "queued"
      BY <2>1 DEF Acts
    <2>3. lane' = [lane EXCEPT ![a.case] = Append(@, act)] /\ held' = held
      BY <1>9 DEF Lands
    <2> HIDE DEF act
    <2> QED BY <2>1, <2>2, <2>3, QueueStays
  <1>10. CASE Withdraw
    <2>1. held' = held
      BY <1>10 DEF Withdraw
    <2>2. CASE lane' = lane
      BY <1>2, <2>1, <2>2
    <2>3. CASE \E d \in Cases : \E i \in 1..Len(lane[d]) :
                 lane' = [lane EXCEPT ![d] = ReplaceAt(@, i, Blinded(@[i]))]
      <3>1. PICK d \in Cases : \E i \in 1..Len(lane[d]) :
                 lane' = [lane EXCEPT ![d] = ReplaceAt(@, i, Blinded(@[i]))]
        BY <2>3
      <3>2. PICK i \in 1..Len(lane[d]) : lane' = [lane EXCEPT ![d] = ReplaceAt(@, i, Blinded(@[i]))]
        BY <3>1
      <3>3. lane[d] \in Seq(Acts) /\ lane[d][i] \in Acts
        BY <1>1 DEF TypeInv
      <3>4. /\ Blinded(lane[d][i]) \in Acts /\ Blinded(lane[d][i]).at = lane[d][i].at
            /\ Blinded(lane[d][i]).letgo = lane[d][i].letgo
        <4>1. Blinded(lane[d][i]) \in Acts /\ Blinded(lane[d][i]).at = lane[d][i].at
          BY <3>3 DEF Blinded, Acts
        <4>2. Blinded(lane[d][i]).letgo = lane[d][i].letgo
          BY <3>3 DEF Blinded, Acts
        <4> QED BY <4>1, <4>2
      <3>5. lane'[d] = ReplaceAt(lane[d], i, Blinded(lane[d][i])) /\ (d # c => lane'[c] = lane[c])
        BY <1>1, <3>2 DEF TypeInv
      <3>6. /\ Len(lane'[d]) = Len(lane[d]) /\ lane'[d][i] = Blinded(lane[d][i])
            /\ \A j \in 1..Len(lane[d]) \ {i} : lane'[d][j] = lane[d][j]
        <4> DEFINE s == ReplaceAt(lane[d], i, Blinded(lane[d][i]))
        <4>1. Len(s) = Len(lane[d]) /\ s[i] = Blinded(lane[d][i])
              /\ \A j \in 1..Len(lane[d]) \ {i} : s[j] = lane[d][j]
          BY <3>3, <3>4, ReplacedLane
        <4>2. lane'[d] = s
          BY <3>5
        <4> HIDE DEF s
        <4> QED BY <4>1, <4>2
      <3>7. \A j \in 1..Len(lane[d]) : lane'[d][j].at = lane[d][j].at /\ lane'[d][j].letgo = lane[d][j].letgo
        BY <3>4, <3>6
      <3>8. d = c => LettingGo(c)' = LettingGo(c)
        BY <3>6, <3>7 DEF LettingGo
      <3> QED BY <1>2, <2>1, <3>5, <3>8 DEF Stays
    <2> QED BY <1>10, <2>2, <2>3 DEF Withdraw
  <1>11. CASE Crash
    BY <1>11, PickedNext DEF Crash, Stays
  <1> QED
    BY <1>3, <1>4, <1>5, <1>6, <1>7, <1>8, <1>9, <1>10, <1>11, RunStays DEF Next, Server

(* What a sent report froze is never picked to be let go, and it stays.    *)
THEOREM FiguresOfSentReportsStay == Spec => SentFiguresStay
  <1>1. StateOK /\ StateOK' /\ [Next]_vars =>
          [\A c \in Cases :
             withdrawn = 0 /\ open'[c] = "yes" /\ report[c].sent /\ report[c].frozen \notin LettingGo(c) =>
              /\ report[c].frozen \notin LettingGo(c)'
              /\ report[c].frozen \in held[c] => report[c].frozen \in held'[c]]_vars
    BY StepStays DEF Stays
  <1> QED
    BY <1>1, Inductive, PTL DEF Spec, SentFiguresStay

-----------------------------------------------------------------------------
(* An attachment read its record, and if that did not move, what it names  *)
(* is what the attachment is to let go of.                                 *)
OldOK(w, a, S) ==
    a.op = "attach" =>
        \E r \in Rows :
            /\ DOMAIN a.reads = {r}
            /\ w[r] # None =>
                  a.reads[r] <= w[r].version /\ (a.reads[r] = w[r].version => S = {w[r].hash} \ {None})

(* What the first act of a lane holds that nothing names, or lets go of.   *)
Carries(op, hash, at, letgo) ==
    CASE at = "kept" -> {hash}
      [] at \in {"written", "asked"} -> IF op = "delete" THEN Hashes ELSE letgo
      [] OTHER -> {}

UnderWay(a) == Carries(a.op, a.hash, a.at, a.letgo)

NamesOK(c) ==
    /\ \A i \in 1..Len(lane[c]) :
          lane[c][i].at \in {"queued", "kept"} => OldOK(row[c], lane[c][i], lane[c][i].letgo)
    /\ lane[c] # <<>> /\ lane[c][1].at = "asked" => lane[c][1].op # "delete"
    /\ sending[c] # None => open[c] # "no" /\ (open[c] = "yes" => ~report[c].sent)
    /\ c \in spilled \/
          IF reading[c] # None THEN held[c] \subseteq reading[c]
          ELSE held[c] \subseteq
                  Named(c) \cup (IF lane[c] # <<>> THEN UnderWay(lane[c][1]) ELSE {})

NamesInv ==
    /\ \A a \in arriving : OldOK(row[a.case], a.act, {a.old} \ {None})
    /\ \A c \in Cases : NamesOK(c)

(* A record never comes back, and every change of one moves its version.   *)
RowsMove(w, v) ==
    \A r \in Rows : \/ v[r] = None
                    \/ w[r] # None /\ (v[r] = w[r] \/ w[r].version < v[r].version)

LEMMA OldStays ==
    ASSUME NEW w \in [Rows -> Records \cup {None}], NEW v \in [Rows -> Records \cup {None}],
           RowsMove(w, v), NEW a \in Acts, NEW S, OldOK(w, a, S)
    PROVE  OldOK(v, a, S)
  <1> SUFFICES ASSUME a.op = "attach" PROVE OldOK(v, a, S)
    BY DEF OldOK
  <1>1. PICK r \in Rows :
          /\ DOMAIN a.reads = {r}
          /\ w[r] # None =>
                a.reads[r] <= w[r].version /\ (a.reads[r] = w[r].version => S = {w[r].hash} \ {None})
    BY DEF OldOK
  <1>2. a.reads[r] \in Nat
    BY <1>1 DEF Acts
  <1>3. CASE v[r] = None
    BY <1>1, <1>3 DEF OldOK
  <1>4. CASE v[r] # None /\ v[r] = w[r]
    BY <1>1, <1>4 DEF OldOK
  <1>5. CASE v[r] # None /\ w[r] # None /\ w[r].version < v[r].version
    <2>1. w[r].version \in Nat /\ v[r].version \in Nat
      BY <1>5 DEF Records
    <2>2. a.reads[r] < v[r].version
      BY <1>1, <1>2, <1>5, <2>1
    <2> QED BY <1>1, <1>2, <2>1, <2>2 DEF OldOK
  <1> QED BY <1>3, <1>4, <1>5 DEF RowsMove

LEMMA RowsStand == ASSUME NEW w PROVE RowsMove(w, w)
  BY DEF RowsMove

(* What a step in a case says of the others.                               *)
LEMMA NamesWithin ==
    ASSUME StateOK, StateOK', NamesInv, NEW c \in Cases,
           \A d \in Cases \ {c} :
               /\ open'[d] = open[d] /\ row'[d] = row[d] /\ held'[d] = held[d] /\ lane'[d] = lane[d]
               /\ report'[d] = report[d] /\ reading'[d] = reading[d] /\ sending'[d] = sending[d],
           spilled \subseteq spilled', RowsMove(row[c], row'[c]) \/ open[c] = "no",
           \A a \in arriving' : a \in arriving \/ (open[a.case] # "no" /\ OldOK(row[a.case], a.act, {a.old} \ {None})),
           \A d \in {c} : NamesOK(d)'
    PROVE  NamesInv'
  <1>1. TypeInv /\ TypeInv'
    BY DEF StateOK
  <1>2. ASSUME NEW d \in Cases \ {c} PROVE NamesOK(d)'
    <2>1. NamesOK(d)
      BY DEF NamesInv
    <2>2. Named(d)' = Named(d)
      BY DEF Named, Present
    <2> QED BY <2>1, <2>2 DEF NamesOK
  <1>3. ASSUME NEW a \in arriving' PROVE OldOK(row'[a.case], a.act, {a.old} \ {None})
    <2>1. a.case \in Cases /\ a.act \in Acts
      BY <1>1 DEF TypeInv, Arrivals
    <2>2. OldOK(row[a.case], a.act, {a.old} \ {None})
      BY DEF NamesInv
    <2>3. CASE a.case # c
      BY <2>1, <2>2, <2>3
    <2>4. CASE a.case = c
      <3>1. open[c] # "no"
        BY <2>4 DEF StateOK
      <3>2. row[c] \in [Rows -> Records \cup {None}] /\ row'[c] \in [Rows -> Records \cup {None}]
        BY <1>1 DEF TypeInv
      <3> QED BY <2>1, <2>2, <2>4, <3>1, <3>2, OldStays
    <2> QED BY <2>3, <2>4
  <1> QED BY <1>2, <1>3 DEF NamesInv

LEMMA NamesInit == Init => NamesInv
  BY DEF Init, NamesInv, NamesOK, Named, Present, Draft

(* An act queued behind the others, whose letting go has been read.        *)
LEMMA NamesQueue ==
    ASSUME StateOK, StateOK', NamesInv, NEW c \in Cases, NEW a \in Acts, a.at = "queued",
           OldOK(row[c], a, a.letgo), lane' = [lane EXCEPT ![c] = Append(@, a)],
           arriving' \subseteq arriving,
           UNCHANGED <<open, row, held, report, sending, reading, spilled>>
    PROVE  NamesInv'
  <1>1. TypeInv /\ NamesOK(c)
    BY DEF StateOK, NamesInv
  <1>2. /\ \A d \in Cases \ {c} : lane'[d] = lane[d]
        /\ lane'[c] # <<>> /\ Len(lane'[c]) = Len(lane[c]) + 1 /\ Len(lane[c]) \in Nat
        /\ \A i \in 1..Len(lane[c]) : lane'[c][i] = lane[c][i]
        /\ lane'[c][Len(lane[c]) + 1] = a
        /\ lane[c] # <<>> => lane'[c][1] = lane[c][1]
        /\ lane[c] = <<>> => lane'[c][1] = a
    BY <1>1, AppendStep
  <1>3. \A i \in 1..Len(lane'[c]) : i \in 1..Len(lane[c]) \/ i = Len(lane[c]) + 1
    BY <1>2
  <1>4. \A i \in 1..Len(lane'[c]) :
           lane'[c][i].at \in {"queued", "kept"} => OldOK(row'[c], lane'[c][i], lane'[c][i].letgo)
    BY <1>1, <1>2, <1>3 DEF NamesOK
  <1>5. Named(c)' = Named(c)
    BY DEF Named, Present
  <1>6. lane'[c] # <<>> /\ lane'[c][1].at = "asked" => lane'[c][1].op # "delete"
    BY <1>1, <1>2 DEF NamesOK
  <1>7. (IF lane[c] # <<>> THEN UnderWay(lane[c][1]) ELSE {}) \subseteq UnderWay(lane'[c][1])
    BY <1>2
  <1>8. \A d \in {c} : NamesOK(d)'
    BY <1>1, <1>2, <1>4, <1>5, <1>6, <1>7 DEF NamesOK
  <1> QED BY <1>2, <1>8, NamesWithin, RowsStand

(* The first act ends, and nothing is left that it was to let go of.       *)
LEMMA NamesEnd ==
    ASSUME StateOK, StateOK', NamesInv, NEW c \in Cases, lane[c] # <<>>, lane' = Ended(c, 1),
           \A d \in Cases \ {c} : held'[d] = held[d],
           UNCHANGED <<open, row, arriving, report, sending, reading>>,
           spilled \subseteq spilled', spilled' \subseteq spilled \cup {c},
           c \notin spilled' => held'[c] \subseteq Named(c)
    PROVE  NamesInv'
  <1>1. TypeInv /\ NamesOK(c) /\ LaneOK(open[c], lane[c]) /\ reading[c] = None
    BY FirstAct DEF StateOK, NamesInv
  <1>2. /\ \A d \in Cases \ {c} : lane'[d] = lane[d]
        /\ lane'[c] # <<>> => lane'[c][1].at = "queued"
        /\ \A i \in 1..Len(lane'[c]) : \E j \in 1..Len(lane[c]) : lane'[c][i] = lane[c][j]
    BY <1>1, EndedStep
  <1>3. Named(c)' = Named(c)
    BY DEF Named, Present
  <1>4. \A i \in 1..Len(lane'[c]) :
           lane'[c][i].at \in {"queued", "kept"} => OldOK(row'[c], lane'[c][i], lane'[c][i].letgo)
    BY <1>1, <1>2 DEF NamesOK
  <1>5. \A d \in {c} : NamesOK(d)'
    BY <1>1, <1>2, <1>3, <1>4 DEF NamesOK
  <1>6. \A d \in Cases \ {c} :
           /\ open'[d] = open[d] /\ row'[d] = row[d] /\ held'[d] = held[d] /\ lane'[d] = lane[d]
           /\ report'[d] = report[d] /\ reading'[d] = reading[d] /\ sending'[d] = sending[d]
    BY <1>2
  <1>7. RowsMove(row[c], row'[c]) /\ arriving' = arriving
    BY RowsStand
  <1> QED BY <1>5, <1>6, <1>7, NamesWithin

(* The first act at its next stage.                                        *)
LEMMA StageMoves ==
    ASSUME StateOK, NEW c \in Cases, lane[c] # <<>>,
           NEW at \in Stages, NEW letgo \in SUBSET Hashes, Stage(c, 1, at, letgo)
    PROVE  /\ \A d \in Cases \ {c} : lane'[d] = lane[d]
           /\ lane'[c] # <<>> /\ Len(lane'[c]) = Len(lane[c])
           /\ \A i \in 2..Len(lane[c]) : lane'[c][i] = lane[c][i]
           /\ lane'[c][1].at = at /\ lane'[c][1].letgo = letgo
           /\ lane'[c][1].op = lane[c][1].op /\ lane'[c][1].hash = lane[c][1].hash
           /\ lane'[c][1].reads = lane[c][1].reads
  <1>1. TypeInv /\ LaneOK(open[c], lane[c])
    BY FirstAct DEF StateOK
  <1>2. lane[c] \in Seq(Acts) /\ 1 \in 1..Len(lane[c]) /\ lane[c][1] \in Acts
    BY <1>1 DEF TypeInv
  <1> DEFINE a == [lane[c][1] EXCEPT !.at = at, !.letgo = letgo]
  <1>3. a \in Acts /\ a.reads = lane[c][1].reads
    BY <1>2 DEF Acts
  <1>4. lane'[c] = ReplaceAt(lane[c], 1, a)
    BY <1>1 DEF Stage, TypeInv
  <1> HIDE DEF a
  <1>5. lane'[c][1] = a
    <2>1. /\ ReplaceAt(lane[c], 1, a) \in Seq(Acts)
          /\ Len(ReplaceAt(lane[c], 1, a)) = Len(lane[c])
          /\ ReplaceAt(lane[c], 1, a)[1] = a
          /\ \A j \in 1..Len(lane[c]) \ {1} : ReplaceAt(lane[c], 1, a)[j] = lane[c][j]
      BY <1>2, <1>3, ReplacedLane
    <2> QED BY <1>4, <2>1
  <1>6. /\ lane' \in [Cases -> Seq(Acts)]
        /\ \A d \in Cases \ {c} : lane'[d] = lane[d]
        /\ LaneOK(open[c], lane'[c]) /\ open[c] # "no"
        /\ lane'[c] # <<>> /\ Len(lane'[c]) = Len(lane[c])
        /\ \A i \in 2..Len(lane[c]) : lane'[c][i] = lane[c][i]
        /\ lane'[c][1].at = at /\ lane'[c][1].letgo = letgo
        /\ lane'[c][1].op = lane[c][1].op /\ lane'[c][1].hash = lane[c][1].hash
        /\ lane'[c][1].sees = lane[c][1].sees
    BY <1>1, StageStep
  <1> QED BY <1>3, <1>5, <1>6

(* It goes to its next stage, and what is held is named or on its way.     *)
LEMMA NamesStage ==
    ASSUME StateOK, StateOK', NamesInv, NEW c \in Cases, lane[c] # <<>>,
           NEW at \in Stages, NEW letgo \in SUBSET Hashes, Stage(c, 1, at, letgo),
           at = "kept" => letgo = lane[c][1].letgo /\ lane[c][1].at = "queued",
           at = "asked" => lane[c][1].op # "delete", at # "queued",
           \A d \in Cases \ {c} : /\ open'[d] = open[d] /\ row'[d] = row[d]
                                  /\ held'[d] = held[d] /\ report'[d] = report[d],
           UNCHANGED <<arriving, sending, reading, spilled>>,
           RowsMove(row[c], row'[c]), open'[c] # "no", report'[c].sent => report[c].sent,
           open'[c] \in {"gone", open[c]},
           c \notin spilled =>
              held'[c] \subseteq Named(c)' \cup Carries(lane[c][1].op, lane[c][1].hash, at, letgo)
    PROVE  NamesInv'
  <1>1. TypeInv /\ TypeInv' /\ NamesOK(c) /\ LaneOK(open[c], lane[c]) /\ reading[c] = None
    BY FirstAct DEF StateOK, NamesInv
  <1>2. /\ \A d \in Cases \ {c} : lane'[d] = lane[d]
        /\ lane'[c] # <<>> /\ Len(lane'[c]) = Len(lane[c])
        /\ \A i \in 2..Len(lane[c]) : lane'[c][i] = lane[c][i]
        /\ lane'[c][1].at = at /\ lane'[c][1].letgo = letgo
        /\ lane'[c][1].op = lane[c][1].op /\ lane'[c][1].hash = lane[c][1].hash
        /\ lane'[c][1].reads = lane[c][1].reads
    BY StageMoves
  <1>3. \A i \in 1..Len(lane'[c]) : i = 1 \/ i \in 2..Len(lane[c])
    BY <1>2
  <1>4. lane[c][1] \in Acts /\ 1 \in 1..Len(lane[c]) /\ \A i \in 1..Len(lane[c]) : lane[c][i] \in Acts
    BY <1>1 DEF TypeInv
  <1>5. row[c] \in [Rows -> Records \cup {None}] /\ row'[c] \in [Rows -> Records \cup {None}]
    BY <1>1 DEF TypeInv
  <1>6. ASSUME NEW i \in 1..Len(lane'[c]), lane'[c][i].at \in {"queued", "kept"}
        PROVE  OldOK(row'[c], lane'[c][i], lane'[c][i].letgo)
    <2>1. CASE i = 1
      <3>1. at = "kept" /\ OldOK(row[c], lane[c][1], letgo)
        BY <1>1, <1>2, <1>4, <1>6, <2>1 DEF NamesOK
      <3>2. OldOK(row'[c], lane[c][1], letgo)
        BY <1>4, <1>5, <3>1, OldStays
      <3> QED BY <1>2, <2>1, <3>2 DEF OldOK
    <2>2. CASE i \in 2..Len(lane[c])
      <3>1. i \in 1..Len(lane[c]) /\ OldOK(row[c], lane[c][i], lane[c][i].letgo)
        BY <1>1, <1>2, <1>6, <2>2 DEF NamesOK
      <3> QED BY <1>2, <1>4, <1>5, <2>2, <3>1, OldStays
    <2> QED BY <1>3, <1>6, <2>1, <2>2
  <1>7. UnderWay(lane'[c][1]) = Carries(lane[c][1].op, lane[c][1].hash, at, letgo)
    BY <1>2 DEF UnderWay
  <1>8. sending'[c] # None => open'[c] # "no" /\ (open'[c] = "yes" => ~report'[c].sent)
    BY <1>1 DEF NamesOK
  <1>9. c \in spilled' \/ held'[c] \subseteq Named(c)' \cup UnderWay(lane'[c][1])
    BY <1>7
  <1>10. lane'[c][1].at = "asked" => lane'[c][1].op # "delete"
    BY <1>2
  <1>11. \A d \in {c} : NamesOK(d)'
    BY <1>1, <1>2, <1>6, <1>8, <1>9, <1>10 DEF NamesOK
  <1>12. \A d \in Cases \ {c} :
           /\ open'[d] = open[d] /\ row'[d] = row[d] /\ held'[d] = held[d] /\ lane'[d] = lane[d]
           /\ report'[d] = report[d] /\ reading'[d] = reading[d] /\ sending'[d] = sending[d]
    BY <1>2
  <1> QED BY <1>11, <1>12, NamesWithin

-----------------------------------------------------------------------------
(* Each step of the first act in turn.                                     *)
LEMMA KeepNames ==
    ASSUME StateOK, StateOK', NamesInv, NEW c \in Cases, lane[c] # <<>>, Keep(c, 1) PROVE NamesInv'
  <1>1. TypeInv /\ NamesOK(c) /\ lane[c][1] \in Acts /\ reading[c] = None /\ open[c] # "no"
    BY FirstAct DEF StateOK, NamesInv
  <1>2. /\ Stage(c, 1, "kept", lane[c][1].letgo) /\ lane[c][1].at = "queued"
        /\ lane[c][1].op = "attach" /\ held'[c] = held[c] \cup {lane[c][1].hash} /\ \A d \in Cases \ {c} : held'[d] = held[d]
        /\ UNCHANGED <<open, row, arriving, report, sending, reading, spilled>>
    BY <1>1 DEF Keep, TypeInv
  <1>3. lane[c][1].letgo \in SUBSET Hashes /\ "kept" \in Stages
    BY <1>1 DEF Acts, Stages
  <1>4. Named(c)' = Named(c) /\ UnderWay(lane[c][1]) = {}
    BY <1>2 DEF Named, Present, UnderWay, Carries
  <1>5. c \notin spilled =>
           held'[c] \subseteq Named(c)' \cup Carries("attach", lane[c][1].hash, "kept", lane[c][1].letgo)
    BY <1>1, <1>2, <1>4 DEF NamesOK, Carries
  <1> QED BY <1>1, <1>2, <1>3, <1>5, NamesStage, RowsStand

LEMMA AttachedNames ==
    ASSUME StateOK, StateOK', NamesInv, NEW c \in Cases, lane[c] # <<>>, Attached(c, 1) PROVE NamesInv'
  <1> DEFINE act == lane[c][1]
             r == CHOOSE x \in DOMAIN act.reads : TRUE
             taken == Current(c, act, r)
             new == [hash |-> act.hash, stored |-> TRUE, version |-> row[c][r].version + 1]
  <1>1. /\ TypeInv /\ NamesOK(c) /\ act \in Acts /\ act.hash \in Hashes /\ act.letgo \in SUBSET Hashes
        /\ reading[c] = None /\ open[c] # "no" /\ act.op = "attach" /\ act.at = "kept"
    BY FirstAct DEF StateOK, NamesInv, Acts, Attached
  <1>2. /\ row' = IF taken THEN [row EXCEPT ![c][r] = new] ELSE row
        /\ Stage(c, 1, "written", LetGo(act, taken))
        /\ UNCHANGED <<open, held, arriving, report, sending, reading, spilled>>
    BY DEF Attached
  <1>3. 1 \in 1..Len(lane[c])
    BY <1>1 DEF TypeInv
  <1>4. OldOK(row[c], act, act.letgo)
    BY <1>1, <1>3 DEF NamesOK
  <1>5. r \in Rows /\ DOMAIN act.reads = {r}
    BY <1>1, <1>4 DEF OldOK
  <1>6. taken => row[c][r] \in Records /\ act.letgo = {row[c][r].hash} \ {None}
    <2>1. taken => row[c][r] # None /\ row[c][r].version = act.reads[r]
      BY DEF Current
    <2>2. taken => row[c][r] \in Records
      BY <1>1, <1>5, <2>1 DEF TypeInv
    <2> HIDE DEF taken, r, act
    <2>3. PICK x \in Rows :
            /\ DOMAIN act.reads = {x}
            /\ row[c][x] # None /\ act.reads[x] = row[c][x].version => act.letgo = {row[c][x].hash} \ {None}
      BY <1>1, <1>4 DEF OldOK
    <2>4. x = r
      BY <1>5, <2>3
    <2> QED BY <2>1, <2>2, <2>3, <2>4
  <1>7. held[c] \subseteq Named(c) \cup {act.hash} \/ c \in spilled
    BY <1>1 DEF NamesOK, UnderWay, Carries
  <1>8. LetGo(act, taken) \in SUBSET Hashes /\ "written" \in Stages
    BY <1>1 DEF LetGo, Stages
  <1>9. taken => new # None /\ row[c][r].version < new.version /\ new.hash = act.hash /\ new.stored
    <2>1. taken => new \in Records
      BY <1>1, <1>6 DEF Records
    <2>2. taken => row[c][r].version < new.version
      BY <1>6 DEF Records
    <2> QED BY <2>1, <2>2, StoreAssumption
  <1>10. CASE taken
    <2>1. /\ \A d \in Cases \ {c} : row'[d] = row[d]
          /\ \A x \in Rows : row'[c][x] = IF x = r THEN new ELSE row[c][x]
          /\ Stage(c, 1, "written", act.letgo)
      BY <1>1, <1>2, <1>5, <1>10 DEF TypeInv, LetGo
    <2> HIDE DEF taken, r, new
    <2>2. RowsMove(row[c], row'[c])
      BY <1>6, <1>9, <1>10, <2>1, StoreAssumption DEF RowsMove
    <2>3. act.hash \in Named(c)' /\ Named(c) \subseteq Named(c)' \cup act.letgo
      <3>1. r \in Present(c)' /\ row'[c][r].stored /\ row'[c][r].hash = act.hash
        BY <1>5, <1>9, <1>10, <2>1 DEF Present
      <3>2. act.hash \in Named(c)'
        BY <1>1, <3>1, StoreAssumption DEF Named
      <3>3. \A x \in Present(c) \ {r} : x \in Present(c)' /\ row'[c][x] = row[c][x]
        BY <2>1 DEF Present
      <3>4. Named(c) \subseteq Named(c)' \cup act.letgo
        BY <1>2, <1>6, <1>10, <3>3 DEF Named
      <3> QED BY <3>2, <3>4
    <2>4. c \notin spilled =>
             held'[c] \subseteq Named(c)' \cup Carries("attach", act.hash, "written", act.letgo)
      BY <1>2, <1>7, <2>3 DEF Carries
    <2> QED BY <1>1, <1>2, <1>8, <2>1, <2>2, <2>4, NamesStage
  <1>11. CASE ~taken
    <2>1. row' = row /\ Stage(c, 1, "written", {act.hash})
      BY <1>2, <1>11 DEF LetGo
    <2> HIDE DEF taken, r, new
    <2>2. Named(c)' = Named(c)
      BY <1>2, <2>1 DEF Named, Present
    <2>3. c \notin spilled =>
             held'[c] \subseteq Named(c)' \cup Carries("attach", act.hash, "written", {act.hash})
      BY <1>2, <1>7, <2>2 DEF Carries
    <2>4. RowsMove(row[c], row'[c]) /\ {act.hash} \in SUBSET Hashes
      BY <1>1, <2>1, RowsStand
    <2>5. /\ "written" \in Stages /\ open'[c] # "no" /\ open'[c] \in {"gone", open[c]}
          /\ report'[c].sent => report[c].sent
          /\ \A d \in Cases \ {c} : /\ open'[d] = open[d] /\ row'[d] = row[d]
                                  /\ held'[d] = held[d] /\ report'[d] = report[d]
      BY <1>1, <1>2, <1>8, <2>1
    <2> QED BY <1>1, <1>2, <2>1, <2>3, <2>4, <2>5, NamesStage
  <1> QED BY <1>10, <1>11

LEMMA RemovedNames ==
    ASSUME StateOK, StateOK', NamesInv, NEW c \in Cases, lane[c] # <<>>, Removed(c, 1) PROVE NamesInv'
  <1> DEFINE act == lane[c][1]
             here == DOMAIN act.reads \cap Present(c)
             gone == {row[c][r].hash : r \in here} \ {None}
             ok == act.sees /\ here # {} /\ \A r \in here : Current(c, act, r)
  <1>1. TypeInv /\ NamesOK(c) /\ reading[c] = None /\ open[c] # "no"
    BY FirstAct DEF StateOK, NamesInv
  <1>2. UNCHANGED <<open, held, arriving, sending, reading, spilled>> /\ act.op = "remove" /\ act.at = "queued"
    BY DEF Removed
  <1>3. c \notin spilled => held[c] \subseteq Named(c)
    BY <1>1, <1>2 DEF NamesOK, UnderWay, Carries
  <1>4. CASE ~ok
    <2>1. lane' = Ended(c, 1) /\ UNCHANGED <<row, report>>
      BY <1>4, Zenon DEF Removed
    <2> QED BY <1>2, <1>3, <2>1, NamesEnd
  <1>5. CASE ok
    <2>1. /\ row' = [row EXCEPT ![c] = [r \in Rows |-> IF r \in here THEN None ELSE @[r]]]
          /\ report' = [report EXCEPT ![c].figure = IF @ \in here THEN None ELSE @]
          /\ Stage(c, 1, "written", gone)
      BY <1>5, Zenon DEF Removed
    <2>2. gone \in SUBSET Hashes
      BY <1>1 DEF TypeInv, Records, Present
    <2>3. here \subseteq Rows
      BY DEF Present
    <2>4. \A r \in Present(c) : row[c][r].hash \in gone \cup {None} \/ r \notin here
      OBVIOUS
    <2> HIDE DEF here, gone
    <2>5. /\ \A d \in Cases \ {c} : row'[d] = row[d]
          /\ \A r \in Rows : row'[c][r] = IF r \in here THEN None ELSE row[c][r]
      BY <1>1, <2>1 DEF TypeInv
    <2>6. /\ \A d \in Cases \ {c} : report'[d] = report[d]
          /\ report'[c].sent = report[c].sent /\ report'[c].frozen = report[c].frozen
      BY <1>1, <2>1 DEF TypeInv, Reports
    <2>7. Named(c) \subseteq Named(c)' \cup gone
      <3>1. \A r \in Present(c) \ here : r \in Present(c)' /\ row'[c][r] = row[c][r]
        BY <2>5 DEF Present
      <3> QED BY <2>4, <2>6, <3>1 DEF Named
    <2>8. c \notin spilled =>
             held'[c] \subseteq Named(c)' \cup Carries("remove", lane[c][1].hash, "written", gone)
      BY <1>2, <1>3, <2>7 DEF Carries
    <2>9. RowsMove(row[c], row'[c])
      BY <2>5 DEF RowsMove
    <2>10. /\ "written" \in Stages /\ open'[c] # "no" /\ open'[c] \in {"gone", open[c]}
           /\ report'[c].sent => report[c].sent
           /\ \A d \in Cases \ {c} : /\ open'[d] = open[d] /\ row'[d] = row[d]
                                   /\ held'[d] = held[d] /\ report'[d] = report[d]
      BY <1>1, <1>2, <2>5, <2>6 DEF Stages
    <2> QED BY <1>2, <2>1, <2>2, <2>8, <2>9, <2>10, NamesStage
  <1> QED BY <1>4, <1>5

LEMMA DeletedNames ==
    ASSUME StateOK, StateOK', NamesInv, NEW c \in Cases, lane[c] # <<>>, Deleted(c, 1) PROVE NamesInv'
  <1> DEFINE ok == lane[c][1].sees /\ open[c] = "yes"
  <1>1. TypeInv /\ TypeInv' /\ NamesOK(c) /\ reading[c] = None /\ open[c] # "no"
    BY FirstAct DEF StateOK, NamesInv
  <1>2. /\ UNCHANGED <<held, arriving, sending, reading, spilled>>
        /\ lane[c][1].op = "delete" /\ lane[c][1].at = "queued"
    BY DEF Deleted
  <1>3. c \notin spilled => held[c] \subseteq Named(c)
    BY <1>1, <1>2 DEF NamesOK, UnderWay, Carries
  <1>4. CASE ~ok
    <2>1. lane' = Ended(c, 1) /\ UNCHANGED <<open, row, report>>
      BY <1>4, Zenon DEF Deleted
    <2> QED BY <1>2, <1>3, <2>1, NamesEnd
  <1>5. CASE ok
    <2>1. /\ open' = [open EXCEPT ![c] = "gone"]
          /\ row' = [row EXCEPT ![c] = [r \in Rows |-> None]]
          /\ report' = [report EXCEPT ![c] = Draft(None)]
          /\ Stage(c, 1, "written", {})
      BY <1>5, Zenon DEF Deleted
    <2>2. /\ "written" \in Stages /\ {} \in SUBSET Hashes
          /\ open'[c] = "gone" /\ ~report'[c].sent /\ \A r \in Rows : row'[c][r] = None
          /\ \A d \in Cases \ {c} : /\ open'[d] = open[d] /\ row'[d] = row[d]
                                  /\ held'[d] = held[d] /\ report'[d] = report[d]
      BY <1>1, <1>2, <2>1 DEF TypeInv, Draft, Stages
    <2>3. RowsMove(row[c], row'[c])
      BY <2>2 DEF RowsMove
    <2>4. held'[c] \subseteq Named(c)' \cup Carries("delete", lane[c][1].hash, "written", {})
      BY <1>1 DEF TypeInv, Carries
    <2> QED BY <1>2, <2>1, <2>2, <2>3, <2>4, NamesStage
  <1> QED BY <1>4, <1>5

LEMMA DiscardNames ==
    ASSUME StateOK, StateOK', NamesInv, NEW c \in Cases, lane[c] # <<>>, Discard(c, 1) PROVE NamesInv'
  <1>1. held' = [held EXCEPT ![c] = {}] /\ lane' = Ended(c, 1)
        /\ UNCHANGED <<open, row, arriving, report, sending, reading, spilled>>
    BY DEF Discard
  <1>2. held'[c] = {} /\ \A d \in Cases \ {c} : held'[d] = held[d]
    BY <1>1 DEF StateOK, TypeInv
  <1> QED BY <1>1, <1>2, NamesEnd

LEMMA AskNames ==
    ASSUME StateOK, StateOK', NamesInv, NEW c \in Cases, lane[c] # <<>>, Ask(c, 1) PROVE NamesInv'
  <1> DEFINE act == lane[c][1]
             letgo == IF act.sees THEN act.letgo \ Named(c) ELSE act.letgo
  <1>1. TypeInv /\ NamesOK(c) /\ reading[c] = None /\ open[c] # "no" /\ act \in Acts
    BY FirstAct DEF StateOK, NamesInv
  <1>2. UNCHANGED <<open, row, held, arriving, report, sending, reading, spilled>>
        /\ act.op # "delete" /\ act.at = "written"
    BY DEF Ask
  <1>3. c \notin spilled => held[c] \subseteq Named(c) \cup act.letgo
    BY <1>1, <1>2 DEF NamesOK, UnderWay, Carries
  <1>4. CASE act.letgo = {}
    <2>1. lane' = Ended(c, 1)
      BY <1>4 DEF Ask
    <2> QED BY <1>2, <1>3, <1>4, <2>1, NamesEnd
  <1>5. CASE act.letgo # {}
    <2>1. Stage(c, 1, "asked", letgo) /\ "asked" \in Stages /\ letgo \in SUBSET Hashes
      BY <1>1, <1>5 DEF Ask, Stages, Acts
    <2>2. Named(c)' = Named(c)
      BY <1>2 DEF Named, Present
    <2>3. c \notin spilled => held'[c] \subseteq Named(c)' \cup Carries(act.op, act.hash, "asked", letgo)
      BY <1>2, <1>3, <2>2 DEF Carries
    <2> HIDE DEF letgo
    <2>4. RowsMove(row[c], row'[c])
      BY <1>2, RowsStand
    <2>5. /\ open'[c] # "no" /\ open'[c] \in {"gone", open[c]} /\ (report'[c].sent => report[c].sent)
          /\ \A d \in Cases \ {c} : /\ open'[d] = open[d] /\ row'[d] = row[d]
                                  /\ held'[d] = held[d] /\ report'[d] = report[d]
      BY <1>1, <1>2
    <2> QED BY <1>2, <2>1, <2>3, <2>4, <2>5, NamesStage
  <1> QED BY <1>4, <1>5

LEMMA ForgetNames ==
    ASSUME StateOK, StateOK', NamesInv, NEW c \in Cases, lane[c] # <<>>, Forget(c, 1) PROVE NamesInv'
  <1>1. held' = [held EXCEPT ![c] = @ \ lane[c][1].letgo] /\ lane' = Ended(c, 1)
        /\ UNCHANGED <<open, row, arriving, report, sending, reading, spilled>> /\ lane[c][1].at = "asked"
    BY DEF Forget
  <1>2. held'[c] = held[c] \ lane[c][1].letgo /\ \A d \in Cases \ {c} : held'[d] = held[d]
    BY <1>1 DEF StateOK, TypeInv
  <1>3. NamesOK(c) /\ reading[c] = None
    BY FirstAct DEF NamesInv
  <1>4. c \notin spilled => held[c] \subseteq Named(c) \cup lane[c][1].letgo
    BY <1>1, <1>3 DEF NamesOK, UnderWay, Carries
  <1> QED BY <1>1, <1>2, <1>4, NamesEnd

LEMMA RunNames ==
    ASSUME StateOK, StateOK', NamesInv, NEW c \in Cases, Run(c) PROVE NamesInv'
  <1>1. lane[c] # <<>>
    BY DEF Run, Turn
  <1>2. \/ Keep(c, 1) \/ Attached(c, 1) \/ Removed(c, 1) \/ Deleted(c, 1)
        \/ Discard(c, 1) \/ Ask(c, 1) \/ Forget(c, 1)
    BY DEF Run, Turn
  <1> QED
    BY <1>1, <1>2, KeepNames, AttachedNames, RemovedNames, DeletedNames, DiscardNames, AskNames, ForgetNames

(* What came before its act failed stays, and the case counts as spilled.  *)
LEMMA FailNames ==
    ASSUME StateOK, StateOK', NamesInv, NEW c \in Cases, Fail(c) PROVE NamesInv'
  <1>1. /\ lane[c] # <<>> /\ lane' = Ended(c, 1)
        /\ spilled' = IF lane[c][1].at = "queued" THEN spilled ELSE spilled \cup {c}
        /\ UNCHANGED <<open, row, held, arriving, report, sending, reading>>
    BY DEF Fail, Turn
  <1>2. NamesOK(c) /\ reading[c] = None
    BY <1>1, FirstAct DEF NamesInv
  <1>3. c \notin spilled' => held'[c] \subseteq Named(c)
    BY <1>1, <1>2 DEF NamesOK, UnderWay, Carries
  <1> QED BY <1>1, <1>3, NamesEnd

-----------------------------------------------------------------------------
(* The case comes to name more, and what it holds is as it was.            *)
LEMMA NamesGrow ==
    ASSUME StateOK, StateOK', NamesInv, NEW c \in Cases,
           \A d \in Cases \ {c} : row'[d] = row[d] /\ report'[d] = report[d] /\ sending'[d] = sending[d],
           UNCHANGED <<open, held, lane, reading, spilled>>, RowsMove(row[c], row'[c]),
           \A a \in arriving' :
               a \in arriving \/ (open[a.case] # "no" /\ OldOK(row[a.case], a.act, {a.old} \ {None})),
           Named(c) \subseteq Named(c)',
           sending'[c] # None => open[c] # "no" /\ (open[c] = "yes" => ~report'[c].sent)
    PROVE  NamesInv'
  <1>1. TypeInv /\ TypeInv' /\ NamesOK(c)
    BY DEF StateOK, NamesInv
  <1>2. \A i \in 1..Len(lane[c]) : lane[c][i] \in Acts
    BY <1>1 DEF TypeInv
  <1>3. row[c] \in [Rows -> Records \cup {None}] /\ row'[c] \in [Rows -> Records \cup {None}]
    BY <1>1 DEF TypeInv
  <1>4. ASSUME NEW i \in 1..Len(lane'[c]), lane'[c][i].at \in {"queued", "kept"}
        PROVE  OldOK(row'[c], lane'[c][i], lane'[c][i].letgo)
    <2>1. OldOK(row[c], lane[c][i], lane[c][i].letgo)
      BY <1>1, <1>4 DEF NamesOK
    <2> QED BY <1>2, <1>3, <2>1, OldStays
  <1>5. lane'[c] # <<>> => UnderWay(lane'[c][1]) = UnderWay(lane[c][1])
    OBVIOUS
  <1>6. \A d \in {c} : NamesOK(d)'
    BY <1>1, <1>4, <1>5 DEF NamesOK
  <1>7. \A d \in Cases \ {c} :
           /\ open'[d] = open[d] /\ row'[d] = row[d] /\ held'[d] = held[d] /\ lane'[d] = lane[d]
           /\ report'[d] = report[d] /\ reading'[d] = reading[d] /\ sending'[d] = sending[d]
    OBVIOUS
  <1> QED BY <1>6, <1>7, NamesWithin

LEMMA AttachNames ==
    ASSUME StateOK, StateOK', NamesInv, NEW c \in Cases, NEW r \in Rows, NEW h \in Hashes, Attach(c, r, h)
    PROVE  NamesInv'
  <1> DEFINE a == [case |-> c, old |-> row[c][r].hash, act |-> Act("attach", Versions(c, {r}), h)]
  <1>1. TypeInv /\ NamesOK(c)
    BY DEF StateOK, NamesInv
  <1>2. /\ arriving' = arriving \cup {a} /\ open[c] = "yes" /\ row[c][r] # None
        /\ UNCHANGED <<open, row, held, lane, report, sending, reading, spilled>>
    BY DEF Attach, Present
  <1>3. row[c][r].version \in Nat
    BY <1>1, <1>2 DEF TypeInv, Records
  <1>4. /\ a.case = c /\ a.old = row[c][r].hash
        /\ DOMAIN a.act.reads = {r} /\ a.act.reads[r] = row[c][r].version
    BY DEF Act, Versions
  <1> HIDE DEF a
  <1>5. OldOK(row[a.case], a.act, {a.old} \ {None})
    <2>1. row[c][r].version <= row[c][r].version
      BY <1>3
    <2> QED BY <1>4, <2>1 DEF OldOK
  <1>6. \A b \in arriving' :
            b \in arriving \/ (open[b.case] # "no" /\ OldOK(row[b.case], b.act, {b.old} \ {None}))
    BY <1>2, <1>4, <1>5
  <1>7. Named(c)' = Named(c)
    BY <1>2 DEF Named, Present
  <1>8. RowsMove(row[c], row'[c])
    BY <1>2, RowsStand
  <1>9. sending'[c] # None => open[c] # "no" /\ (open[c] = "yes" => ~report'[c].sent)
    BY <1>1, <1>2 DEF NamesOK
  <1> QED BY <1>2, <1>6, <1>7, <1>8, <1>9, NamesGrow

LEMMA LandsNames ==
    ASSUME StateOK, StateOK', NamesInv, NEW a \in arriving, Lands(a) PROVE NamesInv'
  <1> DEFINE act == [a.act EXCEPT !.letgo = {a.old} \ {None}]
  <1>1. a \in Arrivals /\ a.case \in Cases /\ OldOK(row[a.case], a.act, {a.old} \ {None})
    BY DEF StateOK, TypeInv, Arrivals, NamesInv
  <1>2. /\ arriving' \subseteq arriving /\ lane' = [lane EXCEPT ![a.case] = Append(@, act)]
        /\ UNCHANGED <<open, row, held, report, sending, reading, spilled>>
    BY DEF Lands
  <1>3. a.act \in Acts /\ a.act.at = "queued" /\ a.old \in Hashes \cup {None}
    BY <1>1 DEF Arrivals
  <1>4. act \in Acts /\ act.at = "queued" /\ act.letgo = {a.old} \ {None}
        /\ act.op = a.act.op /\ act.reads = a.act.reads
    BY <1>3 DEF Acts
  <1> HIDE DEF act
  <1>5. OldOK(row[a.case], act, act.letgo)
    BY <1>1, <1>4 DEF OldOK
  <1> QED BY <1>1, <1>2, <1>4, <1>5, NamesQueue

LEMMA AskedNames ==
    ASSUME StateOK, StateOK', NamesInv, NEW c \in Cases, NEW op \in Ops \ {"attach"},
           NEW reads \in UNION {[S -> Nat] : S \in SUBSET Rows}, Queue(c, Act(op, reads, None))
    PROVE  NamesInv'
  <1>1. /\ lane' = [lane EXCEPT ![c] = Append(@, Act(op, reads, None))]
        /\ UNCHANGED <<open, row, held, arriving, report, sending, reading, spilled>>
    BY DEF Queue
  <1>2. Act(op, reads, None) \in Acts /\ Act(op, reads, None).at = "queued"
    BY DEF Act, Acts, Stages
  <1>3. OldOK(row[c], Act(op, reads, None), Act(op, reads, None).letgo)
    BY DEF OldOK, Act
  <1> QED BY <1>1, <1>2, <1>3, NamesQueue

LEMMA RemoveRecordsNames ==
    ASSUME StateOK, StateOK', NamesInv, NEW c \in Cases, NEW S \in SUBSET Rows, RemoveRecords(c, S)
    PROVE  NamesInv'
  <1>1. \A r \in S : row[c][r] \in Records
    BY DEF RemoveRecords, Present, StateOK, TypeInv
  <1>2. Versions(c, S) \in [S -> Nat]
    BY <1>1 DEF Versions, Records
  <1>3. Versions(c, S) \in UNION {[T -> Nat] : T \in SUBSET Rows}
    BY <1>2
  <1> QED BY <1>3, AskedNames DEF RemoveRecords, Ops

LEMMA DeleteNames ==
    ASSUME StateOK, StateOK', NamesInv, NEW c \in Cases, Delete(c) PROVE NamesInv'
  <1>1. <<>> \in [{} -> Nat]
    OBVIOUS
  <1>2. <<>> \in UNION {[T -> Nat] : T \in SUBSET Rows}
    BY <1>1
  <1> QED BY <1>2, AskedNames DEF Delete, Ops

LEMMA EditNames ==
    ASSUME StateOK, StateOK', NamesInv, NEW c \in Cases, NEW r \in Rows, Edit(c, r) PROVE NamesInv'
  <1> DEFINE new == [row[c][r] EXCEPT !.version = @ + 1]
  <1>1. TypeInv /\ NamesOK(c)
    BY DEF StateOK, NamesInv
  <1>2. /\ row' = [row EXCEPT ![c] = [row[c] EXCEPT ![r] = new]] /\ row[c][r] # None
        /\ UNCHANGED <<open, held, arriving, lane, report, sending, reading, spilled>>
    BY <1>1 DEF Edit, Present, TypeInv
  <1>3. row[c][r] \in Records
    BY <1>1, <1>2 DEF TypeInv
  <1>4. /\ new \in Records /\ new.hash = row[c][r].hash /\ new.stored = row[c][r].stored
        /\ row[c][r].version < new.version
    BY <1>3 DEF Records
  <1>5. new # None
    BY <1>4, StoreAssumption
  <1> HIDE DEF new
  <1>6. /\ \A d \in Cases \ {c} : row'[d] = row[d]
        /\ \A x \in Rows : row'[c][x] = IF x = r THEN new ELSE row[c][x]
    BY <1>1, <1>2 DEF TypeInv
  <1>7. RowsMove(row[c], row'[c])
    BY <1>2, <1>4, <1>6 DEF RowsMove
  <1>8. Named(c) \subseteq Named(c)'
    <2>1. \A x \in Present(c) :
             x \in Present(c)' /\ row'[c][x].hash = row[c][x].hash /\ row'[c][x].stored = row[c][x].stored
      BY <1>4, <1>5, <1>6 DEF Present
    <2> QED BY <1>2, <2>1 DEF Named
  <1>9. sending'[c] # None => open[c] # "no" /\ (open[c] = "yes" => ~report'[c].sent)
    BY <1>1, <1>2 DEF NamesOK
  <1>10. \A a \in arriving' :
            a \in arriving \/ (open[a.case] # "no" /\ OldOK(row[a.case], a.act, {a.old} \ {None}))
    BY <1>2
  <1> QED BY <1>2, <1>6, <1>7, <1>8, <1>9, <1>10, NamesGrow

(* The report or its send moves, and what a send froze is not forgotten.   *)
LEMMA ReportNames ==
    ASSUME StateOK, StateOK', NamesInv, NEW c \in Cases,
           \A d \in Cases \ {c} : report'[d] = report[d] /\ sending'[d] = sending[d],
           UNCHANGED <<open, row, held, arriving, lane, reading, spilled>>,
           report[c].sent => report'[c].sent /\ report'[c].frozen = report[c].frozen,
           sending'[c] # None => open[c] # "no" /\ (open[c] = "yes" => ~report'[c].sent)
    PROVE  NamesInv'
  <1>1. RowsMove(row[c], row'[c])
    BY RowsStand
  <1>2. Named(c) \subseteq Named(c)'
    BY DEF Named, Present
  <1>3. \A a \in arriving' :
            a \in arriving \/ (open[a.case] # "no" /\ OldOK(row[a.case], a.act, {a.old} \ {None}))
    OBVIOUS
  <1> QED BY <1>1, <1>2, <1>3, NamesGrow

LEMMA PlaceNames ==
    ASSUME StateOK, StateOK', NamesInv, NEW c \in Cases, NEW r \in Rows, Place(c, r) PROVE NamesInv'
  <1>1. TypeInv /\ NamesOK(c)
    BY DEF StateOK, NamesInv
  <1>2. /\ report' = [report EXCEPT ![c].figure = r, ![c].version = @ + 1] /\ ~report[c].sent
        /\ UNCHANGED <<open, row, held, arriving, lane, sending, reading, spilled>>
    BY DEF Place
  <1>3. report'[c].sent = report[c].sent /\ \A d \in Cases \ {c} : report'[d] = report[d]
    BY <1>1, <1>2 DEF TypeInv, Reports
  <1>4. sending'[c] # None => open[c] # "no" /\ (open[c] = "yes" => ~report'[c].sent)
    BY <1>1, <1>2, <1>3 DEF NamesOK
  <1> QED BY <1>2, <1>3, <1>4, ReportNames

LEMMA SendNames ==
    ASSUME StateOK, StateOK', NamesInv, NEW c \in Cases, Send(c) PROVE NamesInv'
  <1>1. TypeInv /\ open[c] = "yes" /\ ~report[c].sent
        /\ UNCHANGED <<open, row, held, arriving, lane, report, reading, spilled>>
    BY DEF StateOK, Send
  <1>2. \A d \in Cases \ {c} : sending'[d] = sending[d]
    BY <1>1 DEF Send, TypeInv
  <1> QED BY <1>1, <1>2, ReportNames

LEMMA FiguresNames ==
    ASSUME StateOK, StateOK', NamesInv, NEW c \in Cases, Figures(c) PROVE NamesInv'
  <1>1. TypeInv /\ NamesOK(c) /\ sending[c] # None
        /\ UNCHANGED <<open, row, held, arriving, lane, report, reading, spilled>>
    BY DEF StateOK, Figures, NamesInv
  <1>2. \A d \in Cases \ {c} : sending'[d] = sending[d]
    BY <1>1 DEF Figures, TypeInv
  <1>3. open[c] # "no" /\ (open[c] = "yes" => ~report[c].sent)
    BY <1>1 DEF NamesOK
  <1> QED BY <1>1, <1>2, <1>3, ReportNames

LEMMA StampNames ==
    ASSUME StateOK, StateOK', NamesInv, NEW c \in Cases, Stamp(c) PROVE NamesInv'
  <1> DEFINE s == sending[c]
             ok == open[c] = "yes" /\ Unmoved(c, s)
  <1>1. TypeInv /\ NamesOK(c) /\ s # None /\ sending' = [sending EXCEPT ![c] = None]
        /\ UNCHANGED <<open, row, held, arriving, lane, reading, spilled>>
    BY DEF StateOK, Stamp, NamesInv
  <1>2. report' = IF ok THEN [report EXCEPT ![c].sent = TRUE, ![c].frozen = s.hash, ![c].drawn = s.drawn]
                  ELSE report
    BY DEF Stamp
  <1>3. ok => ~report[c].sent
    BY <1>1 DEF NamesOK
  <1> HIDE DEF ok, s
  <1>4. /\ \A d \in Cases \ {c} : report'[d] = report[d] /\ sending'[d] = sending[d]
        /\ sending'[c] = None
    BY <1>1, <1>2 DEF TypeInv
  <1>5. report[c].sent => report'[c] = report[c]
    BY <1>2, <1>3
  <1> QED BY <1>1, <1>4, <1>5, ReportNames

-----------------------------------------------------------------------------
(* What an archive brings is accounted for by the reading of it.           *)
LEMMA ReadingNames ==
    ASSUME StateOK, StateOK', NamesInv, NEW c \in Cases, open[c] = "no",
           \A d \in Cases \ {c} : held'[d] = held[d] /\ reading'[d] = reading[d],
           UNCHANGED <<open, row, arriving, lane, report, sending, spilled>>,
           held'[c] \subseteq IF reading'[c] # None THEN reading'[c] ELSE {}
    PROVE  NamesInv'
  <1>1. NamesOK(c) /\ lane[c] = <<>> /\ RowsMove(row[c], row'[c])
    BY RowsStand DEF StateOK, NamesInv, LaneOK
  <1>2. \A d \in {c} : NamesOK(d)'
    BY <1>1 DEF NamesOK
  <1>3. \A d \in Cases \ {c} :
           /\ open'[d] = open[d] /\ row'[d] = row[d] /\ held'[d] = held[d] /\ lane'[d] = lane[d]
           /\ report'[d] = report[d] /\ reading'[d] = reading[d] /\ sending'[d] = sending[d]
    OBVIOUS
  <1>4. \A a \in arriving' :
            a \in arriving \/ (open[a.case] # "no" /\ OldOK(row[a.case], a.act, {a.old} \ {None}))
    OBVIOUS
  <1> QED BY <1>1, <1>2, <1>3, <1>4, NamesWithin

LEMMA ImportNames == ASSUME StateOK, StateOK', NamesInv, NEW c \in Cases, Import(c) PROVE NamesInv'
  <1>1. TypeInv /\ open[c] = "no" /\ UNCHANGED <<open, row, arriving, lane, report, sending, spilled>>
    BY DEF StateOK, Import
  <1>2. PICK files \in SUBSET Hashes :
            /\ reading' = [reading EXCEPT ![c] = files]
            /\ held' = [held EXCEPT ![c] = files]
    BY DEF Import
  <1>3. held'[c] = files /\ reading'[c] = files
        /\ \A d \in Cases \ {c} : held'[d] = held[d] /\ reading'[d] = reading[d]
    BY <1>1, <1>2 DEF TypeInv
  <1>4. reading'[c] # None => held'[c] \subseteq reading'[c]
    BY <1>3
  <1>5. reading'[c] # None
    BY <1>3, StoreAssumption
  <1> QED BY <1>1, <1>3, <1>4, <1>5, ReadingNames

LEMMA RefusedNames == ASSUME StateOK, StateOK', NamesInv, NEW c \in Cases, Refused(c) PROVE NamesInv'
  <1>1. TypeInv /\ open[c] = "no" /\ UNCHANGED <<open, row, arriving, lane, report, sending, spilled>>
    BY DEF StateOK, ReadOK, Refused
  <1>2. held'[c] = {} /\ \A d \in Cases \ {c} : held'[d] = held[d] /\ reading'[d] = reading[d]
    BY <1>1 DEF TypeInv, Refused
  <1> QED BY <1>1, <1>2, ReadingNames

LEMMA ImportedNames == ASSUME StateOK, StateOK', NamesInv, NEW c \in Cases, Imported(c) PROVE NamesInv'
  <1> DEFINE act == [op |-> "import", at |-> "written", reads |-> <<>>, hash |-> None,
                    letgo |-> reading[c], sees |-> TRUE]
  <1>1. TypeInv /\ NamesOK(c) /\ reading[c] # None /\ open[c] = "no" /\ lane[c] = <<>>
        /\ UNCHANGED <<held, arriving, sending, spilled>>
    BY DEF StateOK, ReadOK, LaneOK, NamesInv, Imported
  <1>2. lane' = [lane EXCEPT ![c] = Append(@, act)]
        /\ reading' = [reading EXCEPT ![c] = None] /\ open' = [open EXCEPT ![c] = "yes"]
    BY DEF Imported
  <1>3. act \in Acts /\ act.at = "written" /\ act.op = "import" /\ act.letgo = reading[c]
    <2>1. <<>> \in [{} -> Nat]
      OBVIOUS
    <2>2. <<>> \in UNION {[T -> Nat] : T \in SUBSET Rows}
      BY <2>1
    <2>3. reading[c] \in SUBSET Hashes
      BY <1>1 DEF TypeInv
    <2> QED BY <2>2, <2>3 DEF Acts, Ops, Stages
  <1> HIDE DEF act
  <1>4. /\ lane' \in [Cases -> Seq(Acts)] /\ \A d \in Cases \ {c} : lane'[d] = lane[d]
        /\ lane'[c][1] = act /\ Len(lane'[c]) = 1 /\ lane'[c] # <<>>
    BY <1>1, <1>2, <1>3, AppendStep, Zenon
  <1>5. \A d \in Cases \ {c} : row'[d] = row[d] /\ report'[d] = report[d]
    BY <1>1 DEF Imported, TypeInv
  <1>6. reading'[c] = None /\ open'[c] = "yes" /\ sending'[c] = None
        /\ \A d \in Cases \ {c} : open'[d] = open[d] /\ reading'[d] = reading[d]
    BY <1>1, <1>2 DEF TypeInv, NamesOK
  <1>7. \A i \in 1..Len(lane'[c]) : lane'[c][i].at = "written"
    BY <1>3, <1>4
  <1>8. c \in spilled' \/ held'[c] \subseteq UnderWay(lane'[c][1])
    BY <1>1, <1>3, <1>4 DEF NamesOK, UnderWay, Carries
  <1>9. \A d \in {c} : NamesOK(d)'
    BY <1>3, <1>4, <1>6, <1>7, <1>8 DEF NamesOK
  <1>10. \A d \in Cases \ {c} :
           /\ open'[d] = open[d] /\ row'[d] = row[d] /\ held'[d] = held[d] /\ lane'[d] = lane[d]
           /\ report'[d] = report[d] /\ reading'[d] = reading[d] /\ sending'[d] = sending[d]
    BY <1>1, <1>4, <1>5, <1>6
  <1>11. \A a \in arriving' :
            a \in arriving \/ (open[a.case] # "no" /\ OldOK(row[a.case], a.act, {a.old} \ {None}))
    BY <1>1
  <1> QED BY <1>1, <1>9, <1>10, <1>11, NamesWithin

(* Who loses reach asks for nothing else than before.                      *)
LEMMA WithdrawNames == ASSUME StateOK, StateOK', NamesInv, Withdraw PROVE NamesInv'
  <1>1. TypeInv /\ UNCHANGED <<open, row, held, report, sending, reading, spilled>>
    BY DEF StateOK, Withdraw
  <1>2. ASSUME NEW a \in Acts
        PROVE  /\ Blinded(a) \in Acts /\ Blinded(a).op = a.op /\ Blinded(a).reads = a.reads
               /\ Blinded(a).at = a.at /\ Blinded(a).hash = a.hash /\ Blinded(a).letgo = a.letgo
    BY DEF Blinded, Acts
  <1>3. \A c \in Cases : Named(c)' = Named(c)
    BY <1>1 DEF Named, Present
  <1>4. CASE \E a \in arriving :
               /\ arriving' = (arriving \ {a}) \cup {[a EXCEPT !.act = Blinded(@)]}
               /\ UNCHANGED lane
    <2>1. PICK a \in arriving : arriving' = (arriving \ {a}) \cup {[a EXCEPT !.act = Blinded(@)]}
      BY <1>4
    <2> DEFINE b == [a EXCEPT !.act = Blinded(@)]
    <2>2. a \in Arrivals /\ OldOK(row[a.case], a.act, {a.old} \ {None})
      BY <1>1 DEF TypeInv, NamesInv
    <2>3. b.case = a.case /\ b.old = a.old /\ b.act = Blinded(a.act) /\ a.act \in Acts
      BY <2>2 DEF Arrivals
    <2> HIDE DEF b
    <2>4. OldOK(row[b.case], b.act, {b.old} \ {None})
      BY <1>2, <2>2, <2>3 DEF OldOK
    <2>5. \A x \in arriving' : OldOK(row'[x.case], x.act, {x.old} \ {None})
      BY <1>1, <2>1, <2>4 DEF NamesInv, b
    <2>6. \A c \in Cases : NamesOK(c)'
      BY <1>1, <1>3, <1>4 DEF NamesInv, NamesOK
    <2> QED BY <2>5, <2>6 DEF NamesInv
  <1>5. CASE \E c \in Cases : \E i \in 1..Len(lane[c]) :
               /\ lane' = [lane EXCEPT ![c] = ReplaceAt(@, i, Blinded(@[i]))]
               /\ UNCHANGED arriving
    <2>1. PICK c \in Cases : \E i \in 1..Len(lane[c]) :
               /\ lane' = [lane EXCEPT ![c] = ReplaceAt(@, i, Blinded(@[i]))]
               /\ UNCHANGED arriving
      BY <1>5
    <2>2. PICK i \in 1..Len(lane[c]) :
               /\ lane' = [lane EXCEPT ![c] = ReplaceAt(@, i, Blinded(@[i]))]
               /\ UNCHANGED arriving
      BY <2>1
    <2>3. lane[c] \in Seq(Acts) /\ lane[c][i] \in Acts /\ lane \in [Cases -> Seq(Acts)]
      BY <1>1 DEF TypeInv
    <2> DEFINE s == ReplaceAt(lane[c], i, Blinded(lane[c][i]))
    <2>4. /\ s \in Seq(Acts) /\ Len(s) = Len(lane[c]) /\ s[i] = Blinded(lane[c][i])
          /\ \A j \in 1..Len(lane[c]) \ {i} : s[j] = lane[c][j]
      BY <1>2, <2>3, ReplacedLane
    <2>5. lane' = [lane EXCEPT ![c] = s]
      BY <2>2, <2>3
    <2> HIDE DEF s
    <2>6. lane'[c] = s /\ \A d \in Cases \ {c} : lane'[d] = lane[d]
      BY <2>3, <2>5
    <2>7. \A j \in 1..Len(lane[c]) :
             /\ s[j].op = lane[c][j].op /\ s[j].reads = lane[c][j].reads /\ s[j].at = lane[c][j].at
             /\ s[j].hash = lane[c][j].hash /\ s[j].letgo = lane[c][j].letgo
      BY <1>2, <2>3, <2>4
    <2>8. NamesOK(c) /\ RowsMove(row[c], row'[c])
      BY <1>1, RowsStand DEF NamesInv
    <2>9. \A j \in 1..Len(s) : s[j].at \in {"queued", "kept"} => OldOK(row'[c], s[j], s[j].letgo)
      BY <1>1, <2>4, <2>7, <2>8 DEF NamesOK, OldOK
    <2>10. s # <<>> /\ lane[c] # <<>> /\ 1 \in 1..Len(lane[c])
      BY <2>3, <2>4
    <2>11. UnderWay(s[1]) = UnderWay(lane[c][1]) /\ s[1].at = lane[c][1].at /\ s[1].op = lane[c][1].op
      BY <2>7, <2>10 DEF UnderWay
    <2>12. \A d \in {c} : NamesOK(d)'
      BY <1>1, <1>3, <2>6, <2>8, <2>9, <2>10, <2>11 DEF NamesOK
    <2>13. \A d \in Cases \ {c} :
           /\ open'[d] = open[d] /\ row'[d] = row[d] /\ held'[d] = held[d] /\ lane'[d] = lane[d]
           /\ report'[d] = report[d] /\ reading'[d] = reading[d] /\ sending'[d] = sending[d]
      BY <1>1, <2>6
    <2>14. \A a \in arriving' :
            a \in arriving \/ (open[a.case] # "no" /\ OldOK(row[a.case], a.act, {a.old} \ {None}))
      BY <2>2
    <2> QED BY <1>1, <2>8, <2>12, <2>13, <2>14, NamesWithin
  <1> QED BY <1>4, <1>5 DEF Withdraw

(* What was under way at a crash stays, and its case counts as spilled.    *)
LEMMA CrashNames == ASSUME StateOK, NamesInv, Crash PROVE NamesInv'
  <1>1. /\ arriving' = {} /\ lane' = [c \in Cases |-> <<>>]
        /\ sending' = [c \in Cases |-> None] /\ reading' = [c \in Cases |-> None]
        /\ spilled' = spilled \cup {c \in Cases : lane[c] # <<>> \/ reading[c] # None}
        /\ UNCHANGED <<open, row, held, report>>
    BY DEF Crash
  <1>2. \A c \in Cases : Named(c)' = Named(c)
    BY <1>1 DEF Named, Present
  <1> QED BY <1>1, <1>2 DEF NamesInv, NamesOK

LEMMA NextNames == ASSUME StateOK, StateOK', NamesInv, [Next]_vars PROVE NamesInv'
  <1>1. CASE \E c \in Cases : Analyst(c)
    BY <1>1, EditNames, PlaceNames, AttachNames, RemoveRecordsNames, DeleteNames, SendNames, ImportNames
       DEF Analyst
  <1>2. CASE \E c \in Cases : Server(c)
    BY <1>2, RunNames, FiguresNames, StampNames, ImportedNames, RefusedNames DEF Server
  <1>3. CASE \E c \in Cases : Fail(c)
    BY <1>3, FailNames
  <1>4. CASE \E a \in arriving : Lands(a)
    BY <1>4, LandsNames
  <1>5. CASE Withdraw
    BY <1>5, WithdrawNames
  <1>6. CASE Crash
    BY <1>6, CrashNames
  <1>7. CASE UNCHANGED vars
    <2>1. \A c \in Cases : Named(c)' = Named(c)
      BY <1>7 DEF vars, Named, Present
    <2> QED BY <1>7, <2>1 DEF vars, NamesInv, NamesOK
  <1> QED BY <1>1, <1>2, <1>3, <1>4, <1>5, <1>6, <1>7 DEF Next

(* Bytes that nothing in a case names leave it with the acts on the case,  *)
(* unless one of them failed or died, whatever was replaced, removed,      *)
(* refused, withdrawn or read in beside them.                              *)
THEOREM UnnamedBytesGo == Spec => []NothingUnnamedStays
  <1>1. Spec => []NamesInv
    <2>1. StateOK /\ StateOK' /\ NamesInv /\ [Next]_vars => NamesInv'
      BY NextNames
    <2> QED BY <2>1, NamesInit, Inductive, PTL DEF Spec
  <1>2. NamesInv => NothingUnnamedStays
    BY DEF NamesInv, NamesOK, NothingUnnamedStays
  <1> QED BY <1>1, <1>2, PTL
=============================================================================
