------------------------- MODULE InstallCopyProofs -------------------------
(***************************************************************************)
(* A copy, and the install restored from it, for any number of cases,      *)
(* records, digests, requests, failures and crashes.                       *)
(*                                                                         *)
(* While the install runs, StateOK holds of it, so the dump names nothing  *)
(* that is not held (DumpOK).  From then on what a case holds is had:      *)
(* bytes that leave it are remembered as left (HadGrows), and an archive   *)
(* of it taken later holds the rest.  A restored install starts with no    *)
(* act under way (AtRest) and with records whose bytes it has had; it may  *)
(* lack some, so StateOK does not hold of it, but nothing it does later    *)
(* makes a record name bytes it never had (RestoredOK).                    *)
(***************************************************************************)
EXTENDS InstallCopy, ArtefactStoreProofs

(* The install as if some act had lost reach to its case before: of that   *)
(* one StateOK says nothing of bytes, but still how lanes, records and     *)
(* reports fit together (Shape), which a restored install keeps as well.   *)
Later == INSTANCE ArtefactStoreProofs
            WITH withdrawn <- withdrawn + 1, MaxMishaps <- MaxMishaps + 1

(* What is proved of the store is used of Later under its assumption.      *)
LEMMA LaterAssumption == Later!StoreAssumption
  BY StoreAssumption DEF Later!StoreAssumption, Later!Records, Records

(* StateOK without what it says of bytes.                                  *)
Shape ==
    /\ TypeInv
    /\ \A a \in arriving : open[a.case] # "no"
    /\ \A c \in Cases : FigureOK(row[c], report[c]) /\ LaneOK(open[c], lane[c]) /\ ReadOK(open[c], reading[c])

(* StateOK of Later is Shape, now and after a step.                        *)
LEMMA LaterShape ==
    /\ withdrawn \in Nat => (Later!StateOK <=> Shape)
    /\ withdrawn' \in Nat => (Later!StateOK' <=> Shape')
  <1>1. ASSUME NEW w \in Nat PROVE w + 1 \in Nat /\ w + 1 # 0
    BY <1>1
  <1>2. withdrawn \in Nat => (Later!TypeInv <=> TypeInv)
    BY <1>1 DEF Later!TypeInv, TypeInv, Later!Acts, Acts, Later!Ops, Ops, Later!Stages, Stages,
       Later!Arrivals, Arrivals, Later!Reports, Reports, Later!Sends, Sends, Later!Records, Records
  <1>3. withdrawn' \in Nat => (Later!TypeInv' <=> TypeInv')
    BY <1>1 DEF Later!TypeInv, TypeInv, Later!Acts, Acts, Later!Ops, Ops, Later!Stages, Stages,
       Later!Arrivals, Arrivals, Later!Reports, Reports, Later!Sends, Sends, Later!Records, Records
  <1> QED
    BY <1>1, <1>2, <1>3 DEF Later!StateOK, Shape, Later!FigureOK, FigureOK, Later!LaneOK, LaneOK,
       Later!ReadOK, ReadOK

(* A step of the install is a step of Later: only Withdraw looks at how    *)
(* many lost reach, and Mishap counts one more of one more.                *)
LEMMA LaterRun ==
    ASSUME NEW c \in Cases, Run(c), withdrawn' = withdrawn PROVE Later!Run(c)
  <1>1. withdrawn' + 1 = withdrawn + 1
    OBVIOUS
  <1>2. PICK i \in 1..Len(lane[c]) :
            /\ Turn(c, i)
            /\ \/ Keep(c, i) \/ Attached(c, i) \/ Removed(c, i) \/ Deleted(c, i)
               \/ Discard(c, i) \/ Ask(c, i) \/ Forget(c, i)
    BY DEF Run
  <1>3. Later!Turn(c, i)
    BY <1>2 DEF Turn, Later!Turn
  <1> USE <1>1 DEF Ended, Later!Ended, Stage, Later!Stage, Present, Later!Present, Current, Later!Current,
        RemoveAt, Later!RemoveAt, ReplaceAt, Later!ReplaceAt
  <1>4. Keep(c, i) => Later!Keep(c, i)
    BY DEF Keep, Later!Keep
  <1>5. Attached(c, i) => Later!Attached(c, i)
    BY DEF Attached, Later!Attached, LetGo, Later!LetGo
  <1>6. Removed(c, i) => Later!Removed(c, i)
    BY DEF Removed, Later!Removed
  <1>7. Deleted(c, i) => Later!Deleted(c, i)
    BY DEF Deleted, Later!Deleted, Draft, Later!Draft
  <1>8. Discard(c, i) => Later!Discard(c, i)
    BY DEF Discard, Later!Discard
  <1>9. Ask(c, i) => Later!Ask(c, i)
    BY DEF Ask, Later!Ask, Named, Later!Named
  <1>10. Forget(c, i) => Later!Forget(c, i)
    BY DEF Forget, Later!Forget
  <1> QED
    BY <1>2, <1>3, <1>4, <1>5, <1>6, <1>7, <1>8, <1>9, <1>10 DEF Later!Run

LEMMA LaterAnalyst ==
    ASSUME NEW c \in Cases, Analyst(c), withdrawn' = withdrawn PROVE Later!Analyst(c)
  <1>1. withdrawn' + 1 = withdrawn + 1
    OBVIOUS
  <1> USE <1>1 DEF Asked, Later!Asked, Present, Later!Present, Act, Later!Act, Versions, Later!Versions,
        Queue, Later!Queue
  <1>2. ASSUME NEW r \in Rows PROVE /\ Edit(c, r) => Later!Edit(c, r)
                                    /\ Place(c, r) => Later!Place(c, r)
                                    /\ \A h \in Hashes : Attach(c, r, h) => Later!Attach(c, r, h)
    BY DEF Edit, Later!Edit, Place, Later!Place, Attach, Later!Attach
  <1>3. ASSUME NEW S \in SUBSET Rows PROVE RemoveRecords(c, S) => Later!RemoveRecords(c, S)
    BY DEF RemoveRecords, Later!RemoveRecords
  <1>4. /\ Delete(c) => Later!Delete(c)
        /\ Send(c) => Later!Send(c)
        /\ Import(c) => Later!Import(c)
    BY DEF Delete, Later!Delete, Send, Later!Send, Import, Later!Import
  <1> QED
    BY <1>2, <1>3, <1>4 DEF Analyst, Later!Analyst

LEMMA LaterServer ==
    ASSUME NEW c \in Cases, Server(c), withdrawn' = withdrawn PROVE Later!Server(c)
  <1>1. withdrawn' + 1 = withdrawn + 1
    OBVIOUS
  <1>2. Run(c) => Later!Run(c)
    BY LaterRun
  <1>3. /\ Figures(c) => Later!Figures(c)
        /\ Stamp(c) => Later!Stamp(c)
        /\ Refused(c) => Later!Refused(c)
    BY <1>1 DEF Figures, Later!Figures, Stamp, Later!Stamp, Unmoved, Later!Unmoved, Refused, Later!Refused
  <1>4. Imported(c) => Later!Imported(c)
    BY <1>1 DEF Imported, Later!Imported, Carried, Later!Carried
  <1> QED
    BY <1>2, <1>3, <1>4 DEF Server, Later!Server

LEMMA LaterMishaps ==
    ASSUME fails \in Nat, withdrawn \in Nat
    PROVE  /\ \A c \in Cases : Fail(c) => Later!Fail(c)
           /\ Withdraw => Later!Withdraw
           /\ Crash => Later!Crash
  <1>1. Mishap => Later!Mishap
    BY StoreAssumption DEF Mishap, Later!Mishap
  <1>2. withdrawn' = withdrawn => withdrawn' + 1 = withdrawn + 1
    OBVIOUS
  <1>3. ASSUME NEW c \in Cases, Fail(c) PROVE Later!Fail(c)
    <2>1. \A i : Turn(c, i) => Later!Turn(c, i)
      BY DEF Turn, Later!Turn
    <2>2. \A i : Ended(c, i) = Later!Ended(c, i)
      BY DEF Ended, Later!Ended, RemoveAt, Later!RemoveAt
    <2> QED BY <1>1, <1>2, <1>3, <2>1, <2>2 DEF Fail, Later!Fail
  <1>4. ASSUME Withdraw PROVE Later!Withdraw
    <2>1. withdrawn' + 1 = (withdrawn + 1) + 1
      BY <1>4 DEF Withdraw
    <2> QED BY <1>1, <1>4, <2>1 DEF Withdraw, Later!Withdraw, Blinded, Later!Blinded,
              ReplaceAt, Later!ReplaceAt
  <1>5. Crash => Later!Crash
    BY <1>1, <1>2 DEF Crash, Later!Crash
  <1> QED
    BY <1>3, <1>4, <1>5

(* The shape is kept whether or not anybody lost reach.                    *)
LEMMA ShapeStep ==
    ASSUME Shape, Next, fails \in Nat, withdrawn \in Nat
    PROVE  Shape' /\ fails' \in Nat /\ withdrawn' \in Nat /\ withdrawn' >= withdrawn
  <1>1. /\ fails' \in {fails, fails + 1}
        /\ withdrawn' \in {withdrawn, withdrawn + 1}
        /\ ~ Withdraw => withdrawn' = withdrawn
    <2>1. ASSUME NEW c \in Cases, Analyst(c) PROVE fails' = fails /\ withdrawn' = withdrawn
      BY <2>1 DEF Analyst, Edit, Place, Attach, RemoveRecords, Queue, Delete, Send, Import
    <2>2. ASSUME NEW c \in Cases, Server(c) PROVE fails' = fails /\ withdrawn' = withdrawn
      BY <2>2 DEF Server, Run, Keep, Attached, Removed, Deleted, Discard, Ask, Forget,
         Figures, Stamp, Imported, Refused
    <2>3. ASSUME NEW c \in Cases, Fail(c) PROVE fails' = fails + 1 /\ withdrawn' = withdrawn
      BY <2>3 DEF Fail
    <2>4. ASSUME NEW a \in arriving, Lands(a) PROVE fails' = fails /\ withdrawn' = withdrawn
      BY <2>4 DEF Lands
    <2>5. Crash => fails' = fails + 1 /\ withdrawn' = withdrawn
      BY DEF Crash
    <2>6. Withdraw => fails' = fails /\ withdrawn' = withdrawn + 1
      BY DEF Withdraw
    <2> QED BY <2>1, <2>2, <2>3, <2>4, <2>5, <2>6 DEF Next
  <1>2. Later!Next
    <2>1. ASSUME NEW c \in Cases, Analyst(c) \/ Server(c), ~ Withdraw PROVE Later!Next
      <3>1. withdrawn' = withdrawn
        BY <1>1, <2>1
      <3> QED BY <2>1, <3>1, LaterAnalyst, LaterServer DEF Later!Next
    <2>2. ASSUME NEW c \in Cases, Fail(c) PROVE Later!Next
      BY <2>2, LaterMishaps DEF Later!Next
    <2>3. ASSUME NEW a \in arriving, Lands(a) PROVE Later!Next
      <3>1. withdrawn' + 1 = withdrawn + 1
        BY <2>3 DEF Lands
      <3> QED BY <2>3, <3>1 DEF Lands, Later!Lands, Later!Next
    <2>4. CASE Withdraw \/ Crash
      BY <2>4, LaterMishaps DEF Later!Next
    <2> QED BY <2>1, <2>2, <2>3, <2>4 DEF Next
  <1>3. Later!StateOK
    BY LaterShape
  <1>4. Later!StateOK'
    BY <1>2, <1>3, Later!NextOK, LaterAssumption
  <1>5. withdrawn' \in Nat /\ fails' \in Nat /\ withdrawn' >= withdrawn
    BY <1>1
  <1> QED
    BY <1>4, <1>5, LaterShape

-----------------------------------------------------------------------------
(* What the archive has of a case, or will have.                           *)
Copied(c) == IF archive[c] = None THEN held[c] ELSE archive[c]

(* What the case holds, or held at some time since the dump.               *)
Had(c) == held[c] \cup left[c]

DumpOK ==
    /\ dump.open \in [Cases -> {"no", "yes", "gone"}]
    /\ dump.row \in [Cases -> [Rows -> Records \cup {None}]]
    /\ dump.report \in [Cases -> Reports]
    /\ \A c \in Cases : FigureOK(dump.row[c], dump.report[c])
    /\ withdrawn = 0 => \A c \in Cases : NamedInDump(c) \subseteq Copied(c) \cup left[c]

(* A case that is not there has no records.                                *)
ClosedOK == \A c \in Cases : open[c] # "yes" => \A r \in Rows : row[c][r] = None

AtRest ==
    arriving = {} /\ \A c \in Cases : lane[c] = <<>> /\ reading[c] = None /\ sending[c] = None

(* Bytes a restored case names, is about to, or reads in.                  *)
RestoredOK(c) ==
    /\ \A r \in Rows : row[c][r] # None /\ row[c][r].stored => row[c][r].hash \in Had(c) \cup {None}
    /\ \A i \in 1..Len(lane[c]) : lane[c][i].at = "kept" => lane[c][i].hash \in Had(c)
    /\ reading[c] # None => reading[c] \subseteq Had(c)

CopyInv ==
    /\ Shape /\ fails \in Nat
    /\ stage \in {"running", "stopped", "replaced", "restored", "failed"}
    /\ archive \in [Cases -> (SUBSET Hashes) \cup {None}] /\ left \in [Cases -> SUBSET Hashes]
    /\ dump = None => \A c \in Cases : archive[c] = None
    /\ dump # None => DumpOK
    /\ checked => Complete
    /\ stage # "running" => checked
    /\ stage = "running" => StateOK /\ ClosedOK
    /\ stage \in {"stopped", "replaced"} => AtRest
    /\ stage = "replaced" => row = dump.row
    /\ stage = "restored" /\ withdrawn = 0 => \A c \in Cases : RestoredOK(c)

LEMMA CopyInitOK == CopyInit => CopyInv
  <1> SUFFICES ASSUME CopyInit PROVE CopyInv
    OBVIOUS
  <1>1. StateOK
    BY InitOK DEF CopyInit
  <1>2. ClosedOK /\ fails \in Nat
    BY DEF CopyInit, Init, ClosedOK
  <1> QED BY <1>1, <1>2 DEF CopyInit, CopyInv, Shape, StateOK, Complete

(* What left a case is remembered, so that nothing is had no more.         *)
LEMMA HadGrows ==
    ASSUME CopyInv, Work, dump # None, NEW c \in Cases
    PROVE  /\ Had(c) \subseteq Had(c)' /\ left[c] \subseteq left'[c]
           /\ held'[c] \subseteq Had(c)'
           /\ left' \in [Cases -> SUBSET Hashes]
  BY DEF CopyInv, Shape, TypeInv, Work, Had

(* A case that is not there stays without records.                         *)
LEMMA ClosedStays ==
    ASSUME StateOK, ClosedOK, Next PROVE ClosedOK'
  <1> USE DEF ClosedOK
  <1>1. /\ open \in [Cases -> {"no", "yes", "gone"}]
        /\ row \in [Cases -> [Rows -> Records \cup {None}]]
    BY DEF StateOK, TypeInv
  <1>2. CASE UNCHANGED <<open, row>>
    BY <1>2
  <1>3. ASSUME NEW c \in Cases, NEW r \in Rows, Edit(c, r) PROVE ClosedOK'
    BY <1>1, <1>3 DEF Edit, Present
  <1>4. ASSUME NEW c \in Cases, NEW i \in 1..Len(lane[c]), Turn(c, i),
               Attached(c, i) \/ Removed(c, i) \/ Deleted(c, i)
        PROVE  ClosedOK'
    <2>1. CASE Attached(c, i)
      <3> DEFINE act == lane[c][i]
                 x == CHOOSE x \in DOMAIN act.reads : TRUE
                 n == [hash |-> act.hash, stored |-> TRUE, version |-> row[c][x].version + 1]
      <3>1. CASE Current(c, act, x)
        <4>1. row' = [row EXCEPT ![c][x] = n] /\ UNCHANGED open /\ row[c][x] # None
          BY <2>1, <3>1 DEF Attached, Current
        <4>2. lane[c][i] \in Acts /\ lane[c][i].op = "attach"
          BY <2>1 DEF Attached, StateOK, TypeInv
        <4> HIDE DEF n, x, act
        <4>3. ASSUME NEW d \in Cases, NEW r \in Rows, row'[d][r] # None PROVE row[d][r] # None
          BY <1>1, <4>1, <4>3
        <4> QED BY <4>1, <4>3
      <3>2. CASE ~ Current(c, act, x)
        BY <2>1, <3>2, <1>2 DEF Attached
      <3> QED BY <3>1, <3>2
    <2>2. CASE Removed(c, i)
      BY <1>1, <2>2 DEF Removed
    <2>3. CASE Deleted(c, i)
      BY <1>1, <2>3 DEF Deleted
    <2> QED BY <1>4, <2>1, <2>2, <2>3
  <1>5. ASSUME NEW c \in Cases, Imported(c) PROVE ClosedOK'
    BY <1>1, <1>5 DEF Imported
  <1>6. ASSUME NEW c \in Cases, Run(c) PROVE ClosedOK'
    <2>1. PICK i \in 1..Len(lane[c]) :
              /\ Turn(c, i)
              /\ \/ Keep(c, i) \/ Attached(c, i) \/ Removed(c, i) \/ Deleted(c, i)
                 \/ Discard(c, i) \/ Ask(c, i) \/ Forget(c, i)
      BY <1>6 DEF Run
    <2>2. Keep(c, i) \/ Discard(c, i) \/ Ask(c, i) \/ Forget(c, i) => UNCHANGED <<open, row>>
      BY DEF Keep, Discard, Ask, Forget
    <2> QED BY <1>2, <1>4, <2>1, <2>2
  <1>7. ASSUME NEW c \in Cases, Server(c) PROVE ClosedOK'
    <2>1. Figures(c) \/ Stamp(c) \/ Refused(c) => UNCHANGED <<open, row>>
      BY DEF Figures, Stamp, Refused
    <2> QED BY <1>2, <1>5, <1>6, <1>7, <2>1 DEF Server
  <1>8. ASSUME NEW c \in Cases, Analyst(c) PROVE ClosedOK'
    <2>1. \A r \in Rows : Place(c, r) => UNCHANGED <<open, row>>
      BY DEF Place
    <2>2. \A r \in Rows, h \in Hashes : Attach(c, r, h) => UNCHANGED <<open, row>>
      BY DEF Attach
    <2>3. /\ \A S \in SUBSET Rows : RemoveRecords(c, S) => UNCHANGED <<open, row>>
          /\ Delete(c) \/ Send(c) \/ Import(c) => UNCHANGED <<open, row>>
      BY DEF RemoveRecords, Queue, Delete, Send, Import
    <2> QED BY <1>2, <1>3, <1>8, <2>1, <2>2, <2>3 DEF Analyst
  <1>9. /\ \A c \in Cases : Fail(c) => UNCHANGED <<open, row>>
        /\ \A a \in arriving : Lands(a) => UNCHANGED <<open, row>>
        /\ Withdraw \/ Crash => UNCHANGED <<open, row>>
    BY DEF Fail, Lands, Withdraw, Crash
  <1> QED BY <1>2, <1>7, <1>8, <1>9 DEF Next

-----------------------------------------------------------------------------
(* The acts of a lane and the records of a case as a step leaves them.     *)
RowsFollow(c) ==
    \A r \in Rows : row'[c][r] # None /\ row'[c][r].stored =>
        \/ row[c][r] # None /\ row[c][r].stored /\ row'[c][r].hash = row[c][r].hash
        \/ row'[c][r].hash \in Had(c) \cup {None}

LaneFollows(c) ==
    \A i \in 1..Len(lane'[c]) : lane'[c][i].at = "kept" =>
        \/ lane'[c][i].hash \in held'[c]
        \/ \E j \in 1..Len(lane[c]) :
              lane[c][j].at = "kept" /\ lane'[c][i].hash = lane[c][j].hash

ReadingFollows(c) ==
    reading'[c] # None => reading'[c] = reading[c] \/ reading'[c] \subseteq held'[c]

Follows(c) == RowsFollow(c) /\ LaneFollows(c) /\ ReadingFollows(c)

(* The install works on after a restore: what its records come to name has *)
(* landed before.                                                          *)
LEMMA RestoredCase ==
    ASSUME CopyInv, Work, dump # None, NEW c \in Cases, RestoredOK(c), Follows(c)
    PROVE  RestoredOK(c)'
  <1>1. Had(c) \subseteq Had(c)' /\ held'[c] \subseteq Had(c)'
    BY HadGrows
  <1>2. \A r \in Rows : row'[c][r] # None /\ row'[c][r].stored => row'[c][r].hash \in Had(c)' \cup {None}
    BY <1>1 DEF RestoredOK, Follows, RowsFollow
  <1>3. \A i \in 1..Len(lane'[c]) : lane'[c][i].at = "kept" => lane'[c][i].hash \in Had(c)'
    BY <1>1 DEF RestoredOK, Follows, LaneFollows
  <1>4. reading'[c] # None => reading'[c] \subseteq Had(c)'
    BY <1>1 DEF RestoredOK, Follows, ReadingFollows
  <1> QED BY <1>2, <1>3, <1>4 DEF RestoredOK

(* The first act of a lane ends, goes on, or gets another behind it.        *)
LEMMA EndFollows ==
    ASSUME Shape, NEW c \in Cases, lane[c] # <<>>, lane' = Ended(c, 1)
    PROVE  \A d \in Cases : LaneFollows(d)
  <1>1. /\ \A d \in Cases \ {c} : lane'[d] = lane[d]
        /\ \A i \in 1..Len(lane'[c]) : \E j \in 1..Len(lane[c]) : lane'[c][i] = lane[c][j]
    BY EndedStep DEF Shape
  <1>2. LaneFollows(c)
    <2> SUFFICES ASSUME NEW i \in 1..Len(lane'[c]), lane'[c][i].at = "kept"
                 PROVE  \E j \in 1..Len(lane[c]) :
                           lane[c][j].at = "kept" /\ lane'[c][i].hash = lane[c][j].hash
      BY DEF LaneFollows
    <2>1. PICK j \in 1..Len(lane[c]) : lane'[c][i] = lane[c][j]
      BY <1>1
    <2> QED BY <2>1
  <1> QED BY <1>1, <1>2 DEF LaneFollows

LEMMA StageFollows ==
    ASSUME Shape, NEW c \in Cases, lane[c] # <<>>, NEW at \in Stages, NEW letgo \in SUBSET Hashes,
           Stage(c, 1, at, letgo), at = "kept" => lane[c][1].hash \in held'[c]
    PROVE  \A d \in Cases : LaneFollows(d)
  <1>1. /\ \A d \in Cases \ {c} : lane'[d] = lane[d]
        /\ Len(lane'[c]) = Len(lane[c])
        /\ \A i \in 2..Len(lane[c]) : lane'[c][i] = lane[c][i]
        /\ lane'[c][1].at = at /\ lane'[c][1].hash = lane[c][1].hash
    BY StageStep DEF Shape
  <1>2. lane \in [Cases -> Seq(Acts)] /\ Len(lane[c]) \in Nat
    BY DEF Shape, TypeInv
  <1>3. \A i \in 1..Len(lane'[c]) : i = 1 \/ i \in 2..Len(lane[c])
    BY <1>1, <1>2
  <1>4. LaneFollows(c)
    BY <1>1, <1>3 DEF LaneFollows
  <1> QED BY <1>1, <1>4 DEF LaneFollows

LEMMA AppendFollows ==
    ASSUME Shape, NEW c \in Cases, NEW a \in Acts, lane' = [lane EXCEPT ![c] = Append(@, a)],
           a.at # "kept"
    PROVE  \A d \in Cases : LaneFollows(d)
  <1>1. /\ \A d \in Cases \ {c} : lane'[d] = lane[d]
        /\ Len(lane'[c]) = Len(lane[c]) + 1 /\ Len(lane[c]) \in Nat
        /\ \A i \in 1..Len(lane[c]) : lane'[c][i] = lane[c][i]
        /\ lane'[c][Len(lane[c]) + 1] = a
    BY AppendStep DEF Shape
  <1>2. \A i \in 1..Len(lane'[c]) : i \in 1..Len(lane[c]) \/ i = Len(lane[c]) + 1
    BY <1>1
  <1> QED BY <1>1, <1>2 DEF LaneFollows

(* No act of a lane lands, and no record is changed.                       *)
LEMMA NothingFollows ==
    ASSUME UNCHANGED <<row, reading>>, \A d \in Cases : LaneFollows(d)
    PROVE  \A d \in Cases : Follows(d)
  BY DEF Follows, RowsFollow, ReadingFollows

LEMMA SameLanes == ASSUME UNCHANGED lane PROVE \A d \in Cases : LaneFollows(d)
  BY DEF LaneFollows

LEMMA RunFollows ==
    ASSUME Shape, NEW c \in Cases, Run(c), \A d \in Cases : RestoredOK(d)
    PROVE  \A d \in Cases : Follows(d)
  <1>1. /\ lane[c] # <<>>
        /\ \/ Keep(c, 1) \/ Attached(c, 1) \/ Removed(c, 1) \/ Deleted(c, 1)
           \/ Discard(c, 1) \/ Ask(c, 1) \/ Forget(c, 1)
    BY DEF Run, Turn
  <1> DEFINE a == lane[c][1]
  <1>2. /\ a \in Acts /\ lane[c] \in Seq(Acts) /\ 1 \in 1..Len(lane[c])
        /\ row \in [Cases -> [Rows -> Records \cup {None}]] /\ held \in [Cases -> SUBSET Hashes]
    BY <1>1 DEF Shape, TypeInv
  <1>3. a.letgo \in SUBSET Hashes /\ a.hash \in Hashes \cup {None} /\ (a.op = "attach" => a.hash \in Hashes)
        /\ DOMAIN a.reads \subseteq Rows
    BY <1>2 DEF Acts
  <1> HIDE DEF a
  <1>4. CASE Keep(c, 1)
    <2>1. /\ held'[c] = held[c] \cup {a.hash} /\ Stage(c, 1, "kept", a.letgo)
          /\ UNCHANGED <<row, reading>>
      BY <1>2, <1>4 DEF Keep, a
    <2>2. "kept" \in Stages /\ lane[c][1].hash \in held'[c]
      BY <2>1 DEF Stages, a
    <2>3. \A d \in Cases : LaneFollows(d)
      BY <1>1, <1>3, <2>1, <2>2, StageFollows
    <2> QED BY <2>1, <2>3, NothingFollows
  <1>5. CASE Attached(c, 1)
    <2> DEFINE x == CHOOSE x \in DOMAIN a.reads : TRUE
               taken == Current(c, a, x)
               n == [hash |-> a.hash, stored |-> TRUE, version |-> row[c][x].version + 1]
               to == LetGo(a, taken)
    <2>1. /\ a.op = "attach" /\ a.at = "kept" /\ UNCHANGED reading
          /\ Stage(c, 1, "written", to)
          /\ row' = IF taken THEN [row EXCEPT ![c][x] = n] ELSE row
      BY <1>5 DEF Attached, a
    <2>2. to \in SUBSET Hashes /\ "written" \in Stages
      BY <1>3, <2>1 DEF LetGo, Stages
    <2>3. n.hash \in Had(c)
      BY <1>2, <2>1 DEF RestoredOK, a
    <2> HIDE DEF n, x, taken, to
    <2>4. \A d \in Cases : LaneFollows(d)
      BY <1>1, <2>1, <2>2, StageFollows
    <2>5. ASSUME NEW d \in Cases, NEW r \in Rows
          PROVE  row'[d][r] = row[d][r] \/ (d = c /\ row'[d][r] = n)
      BY <1>2, <2>1
    <2>6. \A d \in Cases : RowsFollow(d)
      BY <2>3, <2>5 DEF RowsFollow
    <2> QED BY <2>1, <2>4, <2>6 DEF Follows, ReadingFollows
  <1>6. CASE Removed(c, 1)
    <2> DEFINE here == DOMAIN a.reads \cap Present(c)
               to == {row[c][r].hash : r \in here} \ {None}
    <2>1. /\ UNCHANGED reading
          /\ \/ /\ row' = [row EXCEPT ![c] = [r \in Rows |-> IF r \in here THEN None ELSE row[c][r]]]
                /\ Stage(c, 1, "written", to)
             \/ lane' = Ended(c, 1) /\ UNCHANGED row
      BY <1>2, <1>6 DEF Removed, a
    <2>2. to \in SUBSET Hashes /\ "written" \in Stages
      BY <1>2, <1>3 DEF Stages, Present, Records
    <2> HIDE DEF here, to
    <2>3. \A d \in Cases : LaneFollows(d)
      BY <1>1, <2>1, <2>2, StageFollows, EndFollows
    <2>4. \A d \in Cases, r \in Rows : row'[d][r] \in {row[d][r], None}
      BY <1>2, <2>1
    <2>5. \A d \in Cases : RowsFollow(d)
      BY <2>4 DEF RowsFollow
    <2> QED BY <2>1, <2>3, <2>5 DEF Follows, ReadingFollows
  <1>7. CASE Deleted(c, 1)
    <2>1. /\ UNCHANGED reading
          /\ \/ row' = [row EXCEPT ![c] = [r \in Rows |-> None]] /\ Stage(c, 1, "written", {})
             \/ lane' = Ended(c, 1) /\ UNCHANGED row
      BY <1>7 DEF Deleted
    <2>2. "written" \in Stages /\ {} \in SUBSET Hashes
      BY DEF Stages
    <2>3. \A d \in Cases : LaneFollows(d)
      BY <1>1, <2>1, <2>2, StageFollows, EndFollows
    <2>4. \A d \in Cases, r \in Rows : row'[d][r] \in {row[d][r], None}
      BY <1>2, <2>1
    <2>5. \A d \in Cases : RowsFollow(d)
      BY <2>4 DEF RowsFollow
    <2> QED BY <2>1, <2>3, <2>5 DEF Follows, ReadingFollows
  <1>8. CASE Discard(c, 1) \/ Forget(c, 1)
    <2>1. lane' = Ended(c, 1) /\ UNCHANGED <<row, reading>>
      BY <1>8 DEF Discard, Forget
    <2> QED BY <1>1, <2>1, EndFollows, NothingFollows
  <1>9. CASE Ask(c, 1)
    <2>1. /\ UNCHANGED <<row, reading>>
          /\ \/ lane' = Ended(c, 1)
             \/ \E to \in SUBSET Hashes : Stage(c, 1, "asked", to)
      BY <1>3, <1>9 DEF Ask, a
    <2>2. "asked" \in Stages
      BY DEF Stages
    <2>3. \A d \in Cases : LaneFollows(d)
      BY <1>1, <2>1, <2>2, StageFollows, EndFollows
    <2> QED BY <2>1, <2>3, NothingFollows
  <1> QED BY <1>1, <1>4, <1>5, <1>6, <1>7, <1>8, <1>9

(* The acts that are queued or read in have their type.                    *)
LEMMA QueuedActs ==
    ASSUME Shape, NEW c \in Cases
    PROVE  /\ \A S \in SUBSET Rows : S \subseteq Present(c) => Act("remove", Versions(c, S), None) \in Acts
           /\ Act("delete", <<>>, None) \in Acts
           /\ \A files \in SUBSET Hashes :
                 [op |-> "import", at |-> "written", reads |-> <<>>, hash |-> None,
                  letgo |-> files, sees |-> TRUE] \in Acts
  <1>1. row \in [Cases -> [Rows -> Records \cup {None}]]
    BY DEF Shape, TypeInv
  <1>2. <<>> \in UNION {[S -> Nat] : S \in SUBSET Rows}
    <2>1. <<>> \in [{} -> Nat] /\ {} \in SUBSET Rows
      OBVIOUS
    <2> QED BY <2>1
  <1>3. ASSUME NEW S \in SUBSET Rows, S \subseteq Present(c)
        PROVE  Versions(c, S) \in UNION {[T -> Nat] : T \in SUBSET Rows}
    <2>1. Versions(c, S) \in [S -> Nat]
      BY <1>1, <1>3 DEF Versions, Present, Records
    <2> QED BY <2>1
  <1>4. ASSUME NEW reads \in UNION {[S -> Nat] : S \in SUBSET Rows}, NEW letgo \in SUBSET Hashes,
               NEW op \in {"remove", "delete", "import"}, NEW at \in Stages
        PROVE  [op |-> op, at |-> at, reads |-> reads, hash |-> None, letgo |-> letgo, sees |-> TRUE] \in Acts
    BY DEF Acts, Ops
  <1>5. "queued" \in Stages /\ "written" \in Stages /\ {} \in SUBSET Hashes
    BY DEF Stages
  <1> QED BY <1>2, <1>3, <1>4, <1>5 DEF Act

LEMMA AnalystFollows ==
    ASSUME Shape, NEW c \in Cases, Analyst(c) PROVE \A d \in Cases : Follows(d)
  <1>1. /\ row \in [Cases -> [Rows -> Records \cup {None}]]
        /\ held \in [Cases -> SUBSET Hashes] /\ reading \in [Cases -> (SUBSET Hashes) \cup {None}]
    BY DEF Shape, TypeInv
  <1>2. ASSUME NEW r \in Rows, Edit(c, r) PROVE \A d \in Cases : Follows(d)
    <2>1. /\ row' = [row EXCEPT ![c][r].version = @ + 1] /\ row[c][r] # None
          /\ UNCHANGED <<lane, reading>>
      BY <1>2 DEF Edit, Present
    <2>2. row[c][r] \in Records
      BY <1>1, <2>1
    <2>3. row'[c][r].hash = row[c][r].hash /\ row'[c][r].stored = row[c][r].stored
      BY <1>1, <2>1, <2>2 DEF Records
    <2>4. \A d \in Cases, q \in Rows : d # c \/ q # r => row'[d][q] = row[d][q]
      BY <1>1, <2>1
    <2>5. \A d \in Cases : RowsFollow(d)
      BY <2>1, <2>3, <2>4 DEF RowsFollow
    <2> QED BY <2>1, <2>5, SameLanes DEF Follows, ReadingFollows
  <1>3. \A r \in Rows : Place(c, r) => UNCHANGED <<row, lane, reading>>
    BY DEF Place
  <1>4. \A r \in Rows, h \in Hashes : Attach(c, r, h) => UNCHANGED <<row, lane, reading>>
    BY DEF Attach
  <1>5. Send(c) => UNCHANGED <<row, lane, reading>>
    BY DEF Send
  <1>6. UNCHANGED <<row, lane, reading>> => \A d \in Cases : Follows(d)
    BY SameLanes, NothingFollows
  <1>7. ASSUME NEW act \in Acts, act.at = "queued", Queue(c, act) PROVE \A d \in Cases : Follows(d)
    <2>1. lane' = [lane EXCEPT ![c] = Append(@, act)] /\ UNCHANGED <<row, reading>> /\ act.at # "kept"
      BY <1>7 DEF Queue
    <2> QED BY <2>1, AppendFollows, NothingFollows
  <1>8. ASSUME NEW S \in SUBSET Rows, RemoveRecords(c, S) PROVE \A d \in Cases : Follows(d)
    <2>1. Act("remove", Versions(c, S), None).at = "queued"
      BY DEF Act
    <2> QED BY <1>7, <1>8, <2>1, QueuedActs DEF RemoveRecords
  <1>9. ASSUME Delete(c) PROVE \A d \in Cases : Follows(d)
    <2>1. Act("delete", <<>>, None).at = "queued"
      BY DEF Act
    <2> QED BY <1>7, <1>9, <2>1, QueuedActs DEF Delete
  <1>10. ASSUME Import(c) PROVE \A d \in Cases : Follows(d)
    <2>1. PICK files \in SUBSET Hashes :
            /\ reading' = [reading EXCEPT ![c] = files] /\ held' = [held EXCEPT ![c] = files]
            /\ UNCHANGED <<row, lane>>
      BY <1>10 DEF Import
    <2>2. \A d \in Cases : ReadingFollows(d)
      BY <1>1, <2>1 DEF ReadingFollows
    <2> QED BY <2>1, <2>2, SameLanes DEF Follows, RowsFollow
  <1> QED BY <1>2, <1>3, <1>4, <1>5, <1>6, <1>8, <1>9, <1>10 DEF Analyst

LEMMA ImportedFollows ==
    ASSUME Shape, NEW c \in Cases, Imported(c), \A d \in Cases : RestoredOK(d)
    PROVE  \A d \in Cases : Follows(d)
  <1>1. PICK hash \in [Rows -> Hashes \cup {None}], stated \in BOOLEAN :
          row' = [row EXCEPT ![c] = [r \in Rows |->
                    [hash |-> hash[r], version |-> 1, stored |-> Carried(reading[c], hash[r], stated)]]]
    BY DEF Imported
  <1>2. /\ reading[c] # None /\ reading' = [reading EXCEPT ![c] = None]
        /\ lane' = [lane EXCEPT ![c] = Append(@,
              [op |-> "import", at |-> "written", reads |-> <<>>, hash |-> None,
               letgo |-> reading[c], sees |-> TRUE])]
    BY DEF Imported
  <1>3. /\ row \in [Cases -> [Rows -> Records \cup {None}]]
        /\ reading \in [Cases -> (SUBSET Hashes) \cup {None}]
    BY DEF Shape, TypeInv
  <1>4. reading[c] \in SUBSET Hashes /\ reading[c] \subseteq Had(c)
    BY <1>2, <1>3 DEF RestoredOK
  <1>5. \A d \in Cases : LaneFollows(d)
    BY <1>2, <1>4, QueuedActs, AppendFollows
  <1>6. \A r \in Rows : row'[c][r].stored => row'[c][r].hash \in Had(c) \cup {None}
    BY <1>1, <1>3, <1>4 DEF Carried
  <1>7. \A d \in Cases : RowsFollow(d)
    BY <1>1, <1>3, <1>6 DEF RowsFollow
  <1>8. \A d \in Cases : ReadingFollows(d)
    BY <1>2, <1>3 DEF ReadingFollows
  <1> QED BY <1>5, <1>7, <1>8 DEF Follows

LEMMA WithdrawFollows == ASSUME Shape, Withdraw PROVE \A d \in Cases : Follows(d)
  <1>1. UNCHANGED <<row, reading>>
    BY DEF Withdraw
  <1>2. ASSUME NEW c \in Cases, NEW i \in 1..Len(lane[c]),
               lane' = [lane EXCEPT ![c] = ReplaceAt(@, i, Blinded(@[i]))]
        PROVE  \A d \in Cases : LaneFollows(d)
    <2>1. lane \in [Cases -> Seq(Acts)] /\ lane[c] \in Seq(Acts) /\ lane[c][i] \in Acts
      BY DEF Shape, TypeInv
    <2>2. /\ Blinded(lane[c][i]) \in Acts /\ Blinded(lane[c][i]).at = lane[c][i].at
          /\ Blinded(lane[c][i]).hash = lane[c][i].hash
      BY <2>1 DEF Blinded, Acts
    <2>3. lane'[c] = ReplaceAt(lane[c], i, Blinded(lane[c][i])) /\ \A d \in Cases \ {c} : lane'[d] = lane[d]
      BY <1>2, <2>1
    <2>4. /\ Len(lane'[c]) = Len(lane[c]) /\ lane'[c][i] = Blinded(lane[c][i])
          /\ \A j \in 1..Len(lane[c]) \ {i} : lane'[c][j] = lane[c][j]
      <3> DEFINE s == ReplaceAt(lane[c], i, Blinded(lane[c][i]))
      <3>1. /\ s \in Seq(Acts) /\ Len(s) = Len(lane[c]) /\ s[i] = Blinded(lane[c][i])
            /\ \A j \in 1..Len(lane[c]) \ {i} : s[j] = lane[c][j]
        BY <2>1, <2>2, ReplacedLane
      <3> QED BY <2>3, <3>1
    <2>5. LaneFollows(c)
      BY <2>2, <2>4 DEF LaneFollows
    <2> QED BY <2>3, <2>5 DEF LaneFollows
  <1>3. \A d \in Cases : LaneFollows(d)
    BY <1>2, SameLanes DEF Withdraw
  <1> QED BY <1>1, <1>3, NothingFollows

LEMMA NextFollows ==
    ASSUME Shape, Next, \A d \in Cases : RestoredOK(d) PROVE \A d \in Cases : Follows(d)
  <1>1. ASSUME NEW c \in Cases, Server(c) PROVE \A d \in Cases : Follows(d)
    <2>1. Figures(c) \/ Stamp(c) => UNCHANGED <<row, lane, reading>>
      BY DEF Figures, Stamp
    <2>2. CASE Refused(c)
      <3>1. UNCHANGED <<row, lane>> /\ reading' = [reading EXCEPT ![c] = None]
        BY <2>2 DEF Refused
      <3>2. reading \in [Cases -> (SUBSET Hashes) \cup {None}]
        BY DEF Shape, TypeInv
      <3> QED BY <3>1, <3>2, SameLanes DEF Follows, RowsFollow, ReadingFollows
    <2> QED BY <1>1, <2>1, <2>2, RunFollows, ImportedFollows, SameLanes, NothingFollows DEF Server
  <1>2. ASSUME NEW c \in Cases, Fail(c) PROVE \A d \in Cases : Follows(d)
    <2>1. lane[c] # <<>> /\ lane' = Ended(c, 1) /\ UNCHANGED <<row, reading>>
      BY <1>2 DEF Fail, Turn
    <2> QED BY <2>1, EndFollows, NothingFollows
  <1>3. ASSUME NEW a \in arriving, Lands(a) PROVE \A d \in Cases : Follows(d)
    <2> DEFINE act == [a.act EXCEPT !.letgo = {a.old} \ {None}]
    <2>1. a \in Arrivals
      BY DEF Shape, TypeInv
    <2>2. a.case \in Cases /\ act \in Acts /\ act.at # "kept"
      BY <2>1 DEF Arrivals, Acts
    <2>3. lane' = [lane EXCEPT ![a.case] = Append(@, act)] /\ UNCHANGED <<row, reading>>
      BY <1>3 DEF Lands
    <2> HIDE DEF act
    <2> QED BY <2>2, <2>3, AppendFollows, NothingFollows
  <1>4. CASE Crash
    <2>1. lane' = [c \in Cases |-> <<>>] /\ reading' = [c \in Cases |-> None] /\ UNCHANGED row
      BY <1>4 DEF Crash
    <2> QED BY <2>1 DEF Follows, RowsFollow, LaneFollows, ReadingFollows
  <1> QED BY <1>1, <1>2, <1>3, <1>4, AnalystFollows, WithdrawFollows DEF Next

-----------------------------------------------------------------------------
(* The install works, before a restore or after it.                        *)
LEMMA WorkKeeps == ASSUME CopyInv, Work PROVE CopyInv'
  <1> USE DEF CopyInv
  <1>1. /\ Next /\ stage \in {"running", "restored"}
        /\ UNCHANGED <<dump, archive, checked, stage, before>>
    BY DEF Work
  <1>2. withdrawn \in Nat
    BY DEF Shape, TypeInv
  <1>3. Shape' /\ fails' \in Nat /\ withdrawn' \in Nat /\ withdrawn' >= withdrawn
    BY <1>1, <1>2, ShapeStep
  <1>4. left' \in [Cases -> SUBSET Hashes]
    BY DEF Work, Shape, TypeInv
  <1>5. ASSUME dump # None PROVE DumpOK'
    <2>1. DumpOK
      BY <1>5
    <2>2. ASSUME withdrawn' = 0, NEW c \in Cases
          PROVE  NamedInDump(c)' \subseteq Copied(c)' \cup left'[c]
      <3>1. NamedInDump(c)' = NamedInDump(c)
        BY <1>1 DEF NamedInDump
      <3>2. NamedInDump(c) \subseteq Copied(c) \cup left[c]
        BY <1>2, <1>3, <2>1, <2>2 DEF DumpOK
      <3>3. /\ Had(c) \subseteq Had(c)' /\ left[c] \subseteq left'[c]
            /\ archive'[c] = archive[c]
        BY <1>1, <1>5, HadGrows
      <3> QED BY <3>1, <3>2, <3>3 DEF Copied, Had
    <2> QED BY <1>1, <2>1, <2>2 DEF DumpOK
  <1>6. checked' => Complete'
    BY <1>1 DEF Complete
  <1>7. ASSUME stage = "running" PROVE StateOK' /\ ClosedOK'
    BY <1>1, <1>7, NextOK, ClosedStays
  <1>8. ASSUME stage = "restored", withdrawn' = 0, NEW c \in Cases PROVE RestoredOK(c)'
    <2>1. dump # None
      BY <1>8 DEF Complete
    <2>2. \A d \in Cases : RestoredOK(d)
      BY <1>2, <1>3, <1>8
    <2>3. Follows(c)
      BY <1>1, <2>2, NextFollows
    <2> QED BY <2>1, <2>2, <2>3, RestoredCase
  <1> QED BY <1>1, <1>3, <1>4, <1>5, <1>6, <1>7, <1>8

(* The dump names what is held, or an act of it lost reach.                *)
LEMMA DumpKeeps == ASSUME CopyInv, Dump PROVE CopyInv'
  <1> USE DEF CopyInv
  <1>1. /\ dump = None /\ stage = "running" /\ dump' = Database
        /\ UNCHANGED <<archive, checked, left, stage, before>>
    BY DEF Dump
  <1>2. UNCHANGED <<open, row, held, arriving, lane, report, sending, reading, spilled, asks, fails, withdrawn>>
    BY DEF Dump, vars
  <1>3. Shape' /\ StateOK' /\ ClosedOK'
    BY <1>1, <1>2 DEF Shape, StateOK, TypeInv, ClosedOK, Seen
  <1>4. ~ checked
    BY <1>1 DEF Complete
  <1>5. DumpOK'
    <2>1. dump'.open = open /\ dump'.row = row /\ dump'.report = report
      BY <1>1 DEF Database
    <2>2. /\ open \in [Cases -> {"no", "yes", "gone"}]
          /\ row \in [Cases -> [Rows -> Records \cup {None}]]
          /\ report \in [Cases -> Reports]
          /\ \A c \in Cases : FigureOK(row[c], report[c])
      BY DEF Shape, TypeInv
    <2>3. ASSUME withdrawn = 0, NEW c \in Cases PROVE NamedInDump(c)' \subseteq held[c]
      <3>1. open[c] = "yes" => RowsHeld(row[c], held[c])
        BY <1>1, <2>3 DEF StateOK, CaseOK
      <3>2. open[c] # "yes" => \A r \in Rows : row[c][r] = None
        BY <1>1 DEF ClosedOK
      <3>3. NamedInDump(c)' = {row[c][r].hash : r \in {p \in Rows : row[c][p] # None /\ row[c][p].stored}} \ {None}
        BY <2>1 DEF NamedInDump
      <3> QED BY <3>1, <3>2, <3>3 DEF RowsHeld
    <2>4. \A c \in Cases : Copied(c)' = held[c]
      BY <1>1, <1>2 DEF Copied
    <2>5. ASSUME withdrawn' = 0, NEW c \in Cases PROVE NamedInDump(c)' \subseteq Copied(c)' \cup left'[c]
      BY <1>2, <2>3, <2>4, <2>5
    <2> QED BY <2>1, <2>2, <2>5 DEF DumpOK
  <1> QED BY <1>1, <1>2, <1>3, <1>4, <1>5

LEMMA ArchiveKeeps == ASSUME CopyInv, NEW c \in Cases, Archive(c) PROVE CopyInv'
  <1> USE DEF CopyInv
  <1>1. /\ dump # None /\ archive[c] = None /\ stage = "running"
        /\ archive' = [archive EXCEPT ![c] = held[c]]
        /\ UNCHANGED <<dump, checked, left, stage, before>>
    BY DEF Archive, MayArchive
  <1>2. UNCHANGED <<open, row, held, arriving, lane, report, sending, reading, spilled, asks, fails, withdrawn>>
    BY DEF Archive, vars
  <1>3. Shape' /\ StateOK' /\ ClosedOK'
    BY <1>1, <1>2 DEF Shape, StateOK, TypeInv, ClosedOK, Seen
  <1>4. ~ checked
    BY <1>1 DEF Complete
  <1>5. held[c] \in SUBSET Hashes /\ held[c] # None
    BY StoreAssumption DEF Shape, TypeInv
  <1>6. \A d \in Cases : Copied(d)' = Copied(d)
    BY <1>1, <1>2, <1>5 DEF Copied
  <1>7. \A d \in Cases : NamedInDump(d)' = NamedInDump(d)
    BY <1>1 DEF NamedInDump
  <1>8. DumpOK'
    BY <1>1, <1>2, <1>6, <1>7 DEF DumpOK
  <1> QED BY <1>1, <1>2, <1>3, <1>4, <1>5, <1>8

LEMMA VerifyKeeps == ASSUME CopyInv, Verify PROVE CopyInv'
  <1> USE DEF CopyInv
  <1>1. /\ Complete /\ ~ checked /\ UNCHANGED <<dump, archive, left, stage, before>>
        /\ UNCHANGED <<open, row, held, arriving, lane, report, sending, reading, spilled, asks, fails, withdrawn>>
    BY DEF Verify, vars
  <1>2. Shape' /\ (stage = "running" => StateOK' /\ ClosedOK')
    BY <1>1 DEF Shape, StateOK, TypeInv, ClosedOK, Seen
  <1>3. Complete' /\ dump # None /\ stage = "running"
    BY <1>1 DEF Complete
  <1>4. DumpOK'
    BY <1>1, <1>3 DEF DumpOK, NamedInDump, Copied
  <1> QED BY <1>1, <1>2, <1>3, <1>4

(* A step of the restore, once nothing the server was doing goes on.       *)
LEMMA RestoreKeeps ==
    ASSUME CopyInv, checked, arriving' = {},
           lane' = [c \in Cases |-> <<>>] \/ (AtRest /\ UNCHANGED lane),
           reading' = [c \in Cases |-> None] \/ (AtRest /\ UNCHANGED reading),
           sending' = [c \in Cases |-> None] \/ (AtRest /\ UNCHANGED sending),
           UNCHANGED <<dump, archive, checked, left, withdrawn>>,
           open' \in [Cases -> {"no", "yes", "gone"}],
           row' \in [Cases -> [Rows -> Records \cup {None}]],
           report' \in [Cases -> Reports],
           held' \in [Cases -> SUBSET Hashes],
           fails' \in Nat,
           \A c \in Cases : FigureOK(row'[c], report'[c]),
           stage' \in {"stopped", "replaced", "restored", "failed"},
           stage' = "replaced" => row' = dump'.row,
           stage' = "restored" /\ withdrawn = 0 => \A c \in Cases : RestoredOK(c)'
    PROVE  CopyInv'
  <1> USE DEF CopyInv
  <1>1. AtRest'
    BY DEF AtRest
  <1>2. <<>> \in Seq(Acts)
    OBVIOUS
  <1>3. TypeInv'
    BY <1>2 DEF Shape, TypeInv, AtRest
  <1>4. Shape'
    BY <1>1, <1>3 DEF Shape, AtRest, LaneOK, ReadOK
  <1>5. Complete /\ Complete' /\ dump # None
    BY DEF Complete
  <1>6. \A c \in Cases : NamedInDump(c)' = NamedInDump(c) /\ Copied(c)' = archive[c] /\ Copied(c) = archive[c]
    BY <1>5 DEF NamedInDump, Copied, Complete
  <1>7. DumpOK'
    BY <1>5, <1>6 DEF DumpOK
  <1> QED BY <1>1, <1>4, <1>5, <1>7

LEMMA StopKeeps == ASSUME CopyInv, Stop PROVE CopyInv'
  BY RestoreKeeps DEF Stop, Stopped, CopyInv, Shape, TypeInv

LEMMA ReplaceDatabaseKeeps == ASSUME CopyInv, ReplaceDatabase PROVE CopyInv'
  <1>1. AtRest /\ checked /\ dump # None
    BY DEF ReplaceDatabase, CopyInv, Complete
  <1>2. DumpOK
    BY <1>1 DEF CopyInv
  <1>3. /\ open' = dump.open /\ row' = dump.row /\ report' = dump.report
        /\ UNCHANGED <<held, arriving, lane, sending, reading, fails, withdrawn, dump, archive, checked, left>>
        /\ stage' = "replaced"
    BY DEF ReplaceDatabase, work
  <1>4. held \in [Cases -> SUBSET Hashes] /\ fails \in Nat
    BY DEF CopyInv, Shape, TypeInv
  <1>5. arriving' = {}
    BY <1>1, <1>3 DEF AtRest
  <1>6. \A c \in Cases : FigureOK(row'[c], report'[c])
    BY <1>2, <1>3 DEF DumpOK
  <1> QED BY <1>1, <1>2, <1>3, <1>4, <1>5, <1>6, RestoreKeeps DEF DumpOK

(* The directory of a copy lacks only what left: its records have had it.  *)
LEMMA ReplaceEvidenceKeeps == ASSUME CopyInv, ReplaceEvidence PROVE CopyInv'
  <1>1. AtRest /\ checked /\ Complete /\ dump # None /\ row = dump.row
    BY DEF ReplaceEvidence, CopyInv, Complete
  <1>2. /\ held' = archive /\ stage' = "restored"
        /\ UNCHANGED <<open, row, report, arriving, lane, sending, reading, fails, withdrawn, dump, archive,
                       checked, left>>
    BY DEF ReplaceEvidence, work
  <1>3. /\ open \in [Cases -> {"no", "yes", "gone"}]
        /\ row \in [Cases -> [Rows -> Records \cup {None}]]
        /\ report \in [Cases -> Reports]
        /\ \A c \in Cases : FigureOK(row[c], report[c])
        /\ fails \in Nat /\ archive \in [Cases -> (SUBSET Hashes) \cup {None}]
    BY DEF CopyInv, Shape, TypeInv
  <1>4. held' \in [Cases -> SUBSET Hashes]
    BY <1>1, <1>2, <1>3 DEF Complete
  <1>5. ASSUME withdrawn = 0, NEW c \in Cases PROVE RestoredOK(c)'
    <2>1. NamedInDump(c) \subseteq archive[c] \cup left[c]
      BY <1>1, <1>5 DEF CopyInv, DumpOK, Complete, Copied
    <2>2. \A r \in Rows : row[c][r] # None /\ row[c][r].stored => row[c][r].hash \in NamedInDump(c) \cup {None}
      BY <1>1 DEF NamedInDump
    <2>3. Had(c)' = archive[c] \cup left[c]
      BY <1>2 DEF Had
    <2>4. lane'[c] = <<>> /\ reading'[c] = None
      BY <1>1, <1>2 DEF AtRest
    <2> QED BY <1>2, <2>1, <2>2, <2>3, <2>4 DEF RestoredOK
  <1>6. arriving' = {}
    BY <1>1, <1>2 DEF AtRest
  <1> QED BY <1>1, <1>2, <1>3, <1>4, <1>5, <1>6, RestoreKeeps

LEMMA RestoreFailsKeeps == ASSUME CopyInv, RestoreFails PROVE CopyInv'
  <1>1. AtRest /\ checked /\ Complete
    BY DEF RestoreFails, CopyInv
  <1>2. /\ stage' = "failed" /\ fails' = fails + 1
        /\ UNCHANGED <<open, row, report, arriving, lane, sending, reading, withdrawn, dump, archive,
                       checked, left>>
        /\ held' = held \/ held' \in [Cases -> SUBSET Hashes]
    BY DEF RestoreFails
  <1>3. /\ open \in [Cases -> {"no", "yes", "gone"}]
        /\ row \in [Cases -> [Rows -> Records \cup {None}]]
        /\ report \in [Cases -> Reports]
        /\ \A c \in Cases : FigureOK(row[c], report[c])
        /\ held \in [Cases -> SUBSET Hashes] /\ fails \in Nat
    BY DEF CopyInv, Shape, TypeInv
  <1>4. held' \in [Cases -> SUBSET Hashes] /\ fails' \in Nat /\ arriving' = {}
    BY <1>1, <1>2, <1>3 DEF AtRest
  <1> QED BY <1>1, <1>2, <1>3, <1>4, RestoreKeeps

LEMMA CopyStep == CopyInv /\ [CopyNext]_copyVars => CopyInv'
  <1> SUFFICES ASSUME CopyInv, [CopyNext]_copyVars PROVE CopyInv'
    OBVIOUS
  <1>1. CASE CopyNext
    BY <1>1, WorkKeeps, DumpKeeps, ArchiveKeeps, VerifyKeeps, StopKeeps, ReplaceDatabaseKeeps,
       ReplaceEvidenceKeeps, RestoreFailsKeeps DEF CopyNext
  <1>2. CASE UNCHANGED copyVars
    <2>1. UNCHANGED <<open, row, held, arriving, lane, report, sending, reading, spilled, asks, fails, withdrawn>>
          /\ UNCHANGED <<dump, archive, checked, left, stage, before>>
      BY <1>2 DEF copyVars, vars, copying
    <2>2. Shape' /\ (StateOK => StateOK') /\ (ClosedOK => ClosedOK')
      BY <2>1 DEF CopyInv, Shape, StateOK, TypeInv, ClosedOK, Seen
    <2>3. /\ DumpOK => DumpOK'
          /\ Complete => Complete'
          /\ AtRest => AtRest'
          /\ \A c \in Cases : RestoredOK(c) => RestoredOK(c)'
      BY <2>1 DEF DumpOK, NamedInDump, Copied, Complete, AtRest, RestoredOK, Had
    <2> QED BY <2>1, <2>2, <2>3 DEF CopyInv
  <1> QED BY <1>1, <1>2

LEMMA CopySound == CopySpec => []CopyInv
  BY CopyInitOK, CopyStep, PTL DEF CopySpec

(* backup.sh: a copy of a running install lacks only what its cases let go *)
(* of while it was being taken, the install holds meanwhile what it names, *)
(* and a restored one holds what its records name but for what the copy    *)
(* lacked: whatever is attached, removed, read in or sent, and whatever    *)
(* fails.                                                                  *)
THEOREM CopiesAreKept == CopySpec => []CopyKept
  <1>1. CopyInv => CopyKept
    <2> SUFFICES ASSUME CopyInv PROVE CopyKept
      OBVIOUS
    <2>1. CopyLacksOnlyWhatLeft
      BY DEF CopyLacksOnlyWhatLeft, CopyInv, DumpOK, Complete, Copied
    <2>2. HeldMeanwhile
      <3> SUFFICES ASSUME StateOK, withdrawn = 0, NEW c \in Cases, open[c] = "yes",
                          NEW r \in Present(c), row[c][r].stored
                   PROVE  row[c][r].hash \in held[c] \cup {None}
        BY DEF HeldMeanwhile, NamedIsHeld, CopyInv
      <3> QED BY DEF StateOK, CaseOK, RowsHeld, Present
    <2>3. RestoredIsHeld
      BY DEF RestoredIsHeld, CopyInv, RestoredOK, Had, Present
    <2> QED BY <2>1, <2>2, <2>3 DEF CopyKept
  <1> QED BY <1>1, CopySound, PTL
=============================================================================
