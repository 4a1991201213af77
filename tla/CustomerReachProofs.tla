------------------------- MODULE CustomerReachProofs -------------------------
(***************************************************************************)
(* What the install keeps of its trail, its accounts and its customers.    *)
(*                                                                         *)
(* The trail, the queues and the accounts keep their invariants whatever   *)
(* the accounts, the servers and the requests.                             *)
(*                                                                         *)
(* Of the trail first, whoever takes its steps.  Every line at or before   *)
(* the mark, and every line passed over by a round under way, has been     *)
(* taken or was committed late (DeliveredBehind and RoundOK): that is kept *)
(* because a line is called late exactly when it is stored behind the mark *)
(* or behind a line already picked.  A sweep deletes at or before a mark   *)
(* read earlier, and the mark only grows, so what it deletes is covered;   *)
(* and its own line is numbered after all it deletes, so that the accounts *)
(* of prunes never all go (SweepOK).                                       *)
(*                                                                         *)
(* An administrator stands because a change is made for somebody who       *)
(* administers the install then and is not what the change is about        *)
(* (ActOK): whoever it leaves, it leaves them.  That one who administers   *)
(* when an act begins still does when it writes is the lock's doing        *)
(* (LockOK); the claims change accounts outside it, but only those of      *)
(* claims under way, in whose name nobody acts (SignedIn).  The claims     *)
(* leave one account because each of them is of an address nobody else's   *)
(* claim inserted, and all that are known are of claims still to end, but  *)
(* for the winner's (ClaimsOK).                                            *)
(*                                                                         *)
(* That an account's newest line says what it is (LinesTell) is the lock's *)
(* doing too: from its change to its last write one act holds it, its line *)
(* is numbered after every other account line (Tells), and until it is     *)
(* stored the change counts as untold.                                     *)
(*                                                                         *)
(* Of the directory, DirectoryKept says of each merge under way what its   *)
(* locks give it, and is inductive as it stands: a merge commits onto a    *)
(* survivor that is there, cases no other merge moves, and references      *)
(* nothing else brought to it meanwhile.                                   *)
(***************************************************************************)
EXTENDS CustomerReach, TLAPS, FiniteSetTheorems, SequenceTheorems

(* The trail.                                                              *)

Line == [of : Accounts \cup {""},
         says : {"pruned", "other", "disable", "enable", "admin", "analyst"},
         state : {"open", "stored", "void", "gone"}, late : BOOLEAN]

Rounds == [step : {"idle", "marked", "picked", "sent"}, from : Nat,
           batch : SUBSET Nat, newest : Nat]

Sweeps == [step : {"idle", "bound", "pruning"}, through : Nat,
           old : SUBSET Nat, line : Nat]

TrailTypes ==
    /\ shipped \in BOOLEAN /\ room \in Nat
    /\ trail \in Seq(Line)
    /\ cursor \in 0..Len(trail)
    /\ taken \subseteq 1..Len(trail)
    /\ round \in [Servers -> Rounds]
    /\ sweep \in [Servers -> Sweeps]

(* The lines that are, or were, stored.                                    *)
Held == {n \in 1..Len(trail) : trail[n].state \in {"stored", "gone"}}

Covered(n) == n \in taken \/ trail[n].late

(* A round holds its batch whole, and has passed over nothing uncovered.   *)
RoundOK(s) ==
    /\ round[s].step # "idle" => shipped
    /\ round[s].from <= cursor
    /\ round[s].batch \subseteq Held
    /\ round[s].step \in {"idle", "marked"} => round[s].batch = {}
    /\ round[s].step \in {"picked", "sent"} =>
          /\ round[s].newest \in round[s].batch
          /\ \A m \in round[s].batch : m <= round[s].newest
    /\ \A m \in round[s].batch, n \in Held :
          n < m /\ n \notin round[s].batch => Covered(n)
    /\ round[s].step = "sent" => round[s].batch \subseteq taken

RoundsOK == \A s \in Servers : RoundOK(s)

DeliveredBehind == \A n \in Held : n <= cursor => Covered(n)

(* A sweep deletes what the mark has passed, and its line comes after it.   *)
SweepOK(s) ==
    /\ sweep[s].through <= cursor
    /\ \A o \in sweep[s].old : o \in 1..Len(trail) /\ trail[o].state = "stored"
    /\ sweep[s].step # "pruning" => sweep[s].old = {}
    /\ shipped => \A o \in sweep[s].old : o <= cursor
    /\ sweep[s].step = "pruning" =>
          /\ sweep[s].line \in 1..Len(trail)
          /\ trail[sweep[s].line].state = "open"
          /\ trail[sweep[s].line].says = "pruned"
          /\ \A o \in sweep[s].old : o < sweep[s].line

SweepsApart ==
    \A s, t \in Servers : s # t =>
        /\ sweep[s].old \cap sweep[t].old = {}
        /\ sweep[s].step = "pruning" /\ sweep[t].step = "pruning" =>
              sweep[s].line # sweep[t].line

SweepsOK == (\A s \in Servers : SweepOK(s)) /\ SweepsApart

(* NothingPrunedUnsent and PrunesAreTold, over the lines' numbers.          *)
GoneOK ==
    \A n \in 1..Len(trail) : trail[n].state = "gone" =>
        /\ shipped => Covered(n)
        /\ \E m \in 1..Len(trail) :
              trail[m].state = "stored" /\ m > n /\ trail[m].says = "pruned"

TrailInv == TrailTypes /\ RoundsOK /\ DeliveredBehind /\ SweepsOK /\ GoneOK

-----------------------------------------------------------------------------
(* What becomes of the line n in a step.                                   *)
Ends(n) ==
    /\ trail[n].state = "open"
    /\ trail'[n].says = trail[n].says
    /\ \/ trail'[n].state = "void"
       \/ trail'[n].state = "stored" /\ trail'[n].late = Behind(n)

Goes2(n) ==
    /\ trail[n].state = "stored"
    /\ trail'[n].state = "gone"
    /\ trail'[n].says = trail[n].says
    /\ trail'[n].late = trail[n].late

Longer ==
    /\ trail' \in Seq(Line)
    /\ Len(trail') >= Len(trail)
    /\ \A n \in (Len(trail) + 1)..Len(trail') : trail'[n].state = "open"

(* A step of lines, and one in which none goes.                            *)
Moves == Longer /\ \A n \in 1..Len(trail) : trail'[n] = trail[n] \/ Ends(n) \/ Goes2(n)
Quiet == Longer /\ \A n \in 1..Len(trail) : trail'[n] = trail[n] \/ Ends(n)

LEMMA QuietMoves == Quiet => Moves
  BY DEF Quiet, Moves

(* What was held is held, and nothing comes to be uncovered behind the     *)
(* mark or behind a line that was picked.                                  *)
LEMMA HeldStays ==
    ASSUME TrailTypes, Moves, taken \subseteq taken'
    PROVE  /\ Held \subseteq Held'
           /\ \A n \in Held : Covered(n) => Covered(n)'
           /\ \A n \in Held' : n \notin Held /\ Behind(n) => Covered(n)'
<1>1. Len(trail) \in Nat /\ Len(trail') \in Nat /\ Len(trail') >= Len(trail)
  BY DEF TrailTypes, Moves, Longer
<1>2. ASSUME NEW n \in Held
      PROVE  n \in Held' /\ (Covered(n) => Covered(n)')
  <2>1. n \in 1..Len(trail) /\ trail[n].state \in {"stored", "gone"}
    BY DEF Held
  <2>2. trail'[n].state \in {"stored", "gone"} /\ trail'[n].late = trail[n].late
    BY <2>1 DEF Moves, Ends, Goes2
  <2>3. n \in 1..Len(trail')
    BY <1>1, <2>1
  <2> QED BY <2>2, <2>3 DEF Held, Covered
<1>3. ASSUME NEW n \in Held', n \notin Held, Behind(n)
      PROVE  Covered(n)'
  <2>1. n \in 1..Len(trail') /\ trail'[n].state \in {"stored", "gone"}
    BY DEF Held
  <2>2. n \in 1..Len(trail)
    BY <1>1, <2>1 DEF Moves, Longer
  <2>3. trail[n].state \notin {"stored", "gone"}
    BY <1>3, <2>2 DEF Held
  <2>4. Ends(n)
    BY <2>1, <2>2, <2>3 DEF Moves, Goes2
  <2> QED BY <1>3, <2>1, <2>4 DEF Ends, Covered
<1> QED BY <1>2, <1>3

LEMMA RoundsStay ==
    ASSUME TrailTypes, RoundsOK, DeliveredBehind, Moves, shipped' = shipped, cursor' = cursor,
           taken \subseteq taken',
           round' \in [Servers -> Rounds],
           \A s \in Servers : round'[s] \in {round[s], NoRound}
    PROVE  RoundsOK' /\ DeliveredBehind'
<1>1. /\ Held \subseteq Held'
      /\ \A n \in Held : Covered(n) => Covered(n)'
      /\ \A n \in Held' : n \notin Held /\ Behind(n) => Covered(n)'
  BY HeldStays
<1>2. ASSUME NEW s \in Servers PROVE RoundOK(s)'
  <2>1. CASE round'[s] = NoRound
    <3>1. cursor' >= 0
      BY DEF TrailTypes
    <3> QED BY <2>1, <3>1 DEF RoundOK, NoRound
  <2>2. CASE round'[s] = round[s]
    <3>1. RoundOK(s)
      BY DEF RoundsOK
    <3>2. ASSUME NEW m \in round[s].batch, NEW n \in Held', n < m, n \notin round[s].batch
          PROVE  Covered(n)'
      <4>1. Behind(n)
        BY <3>2 DEF Behind
      <4> QED BY <1>1, <3>1, <3>2, <4>1 DEF RoundOK
    <3> QED BY <1>1, <2>2, <3>1, <3>2 DEF RoundOK
  <2> QED BY <2>1, <2>2
<1>3. ASSUME NEW n \in Held', n <= cursor PROVE Covered(n)'
  <2>1. Behind(n)
    BY <1>3 DEF Behind
  <2> QED BY <1>1, <1>3, <2>1 DEF DeliveredBehind
<1> QED BY <1>2, <1>3 DEF RoundsOK, DeliveredBehind

(* A sweep that goes on finds its lines as they were.                      *)
SweepStays(s) ==
    \/ /\ sweep'[s].step # "pruning"
       /\ sweep'[s].old = {}
       /\ sweep'[s].through <= cursor
    \/ /\ sweep'[s] = sweep[s]
       /\ sweep[s].step = "pruning" => trail'[sweep[s].line] = trail[sweep[s].line]
       /\ \A o \in sweep[s].old : trail'[o] = trail[o]

LEMMA SweepsStay ==
    ASSUME TrailTypes, SweepsOK, Moves, shipped' = shipped, cursor' \in Nat, cursor <= cursor',
           sweep' \in [Servers -> Sweeps],
           \A s \in Servers : SweepStays(s)
    PROVE  SweepsOK'
<1>1. Len(trail) \in Nat /\ Len(trail') \in Nat /\ Len(trail') >= Len(trail)
  BY DEF TrailTypes, Moves, Longer
<1>2. ASSUME NEW s \in Servers PROVE SweepOK(s)'
  <2>0. /\ cursor \in Nat /\ sweep[s].old \subseteq Nat /\ sweep[s].through \in Nat
        /\ sweep'[s].through \in Nat
    BY <1>1 DEF TrailTypes, Sweeps
  <2>1. CASE /\ sweep'[s].step # "pruning" /\ sweep'[s].old = {}
             /\ sweep'[s].through <= cursor
    BY <2>0, <2>1 DEF SweepOK
  <2>2. CASE /\ sweep'[s] = sweep[s]
             /\ sweep[s].step = "pruning" => trail'[sweep[s].line] = trail[sweep[s].line]
             /\ \A o \in sweep[s].old : trail'[o] = trail[o]
    <3>1. SweepOK(s)
      BY DEF SweepsOK
    <3>2. \A o \in sweep[s].old : o <= cursor => o <= cursor'
      BY <2>0
    <3> QED BY <1>1, <2>0, <2>2, <3>1, <3>2 DEF SweepOK
  <2> QED BY <2>1, <2>2 DEF SweepStays
<1>3. SweepsApart'
  BY DEF SweepsOK, SweepsApart, SweepStays
<1> QED BY <1>2, <1>3 DEF SweepsOK

LEMMA GoneStays ==
    ASSUME TrailTypes, GoneOK, Quiet, shipped' = shipped, taken \subseteq taken'
    PROVE  GoneOK'
<1>1. Len(trail) \in Nat /\ Len(trail') \in Nat /\ Len(trail') >= Len(trail)
  BY DEF TrailTypes, Quiet, Longer
<1>2. \A m \in 1..Len(trail) : trail[m].state \in {"stored", "gone"} => trail'[m] = trail[m]
  BY DEF Quiet, Ends
<1> SUFFICES ASSUME NEW n \in 1..Len(trail'), trail'[n].state = "gone"
             PROVE  /\ shipped' => Covered(n)'
                    /\ \E m \in 1..Len(trail') :
                          trail'[m].state = "stored" /\ m > n /\ trail'[m].says = "pruned"
  BY DEF GoneOK
<1>3. n \in 1..Len(trail)
  BY <1>1 DEF Quiet, Longer
<1>4. trail[n].state = "gone" /\ trail'[n] = trail[n]
  BY <1>3 DEF Quiet, Ends
<1>5. PICK m \in 1..Len(trail) : trail[m].state = "stored" /\ m > n /\ trail[m].says = "pruned"
  BY <1>3, <1>4 DEF GoneOK
<1>6. m \in 1..Len(trail') /\ trail'[m] = trail[m]
  BY <1>1, <1>2, <1>5
<1> QED BY <1>3, <1>4, <1>5, <1>6 DEF GoneOK, Covered

(* A step that moves no mark and lets no line go.                          *)
LEMMA QuietKeeps ==
    ASSUME TrailInv, Quiet, shipped' = shipped, cursor' = cursor, room' \in Nat,
           taken \subseteq taken', taken' \subseteq 1..Len(trail'),
           round' \in [Servers -> Rounds],
           \A s \in Servers : round'[s] \in {round[s], NoRound},
           sweep' \in [Servers -> Sweeps],
           \A s \in Servers : SweepStays(s)
    PROVE  TrailInv'
<1>1. TrailTypes'
  BY DEF TrailInv, TrailTypes, Quiet, Longer
<1>2. RoundsOK' /\ DeliveredBehind'
  BY RoundsStay, QuietMoves DEF TrailInv
<1>3. cursor' \in Nat /\ cursor <= cursor'
  BY DEF TrailInv, TrailTypes
<1>4. SweepsOK'
  BY <1>3, SweepsStay, QuietMoves DEF TrailInv
<1>5. GoneOK'
  BY GoneStays DEF TrailInv
<1> QED BY <1>1, <1>2, <1>4, <1>5 DEF TrailInv

-----------------------------------------------------------------------------
(* The lines an insert and an end of a transaction leave.                  *)

Says == {"pruned", "other", "disable", "enable", "admin", "analyst"}

LEMMA AppendQuiet ==
    ASSUME TrailTypes, NEW line \in Line, line.state = "open", trail' = Append(trail, line)
    PROVE  /\ Quiet
           /\ Len(trail') = Len(trail) + 1
           /\ trail'[Len(trail) + 1] = line
           /\ \A n \in 1..Len(trail) : trail'[n] = trail[n]
<1>1. trail \in Seq(Line) /\ Len(trail) \in Nat
  BY DEF TrailTypes
<1>2. /\ trail' \in Seq(Line)
      /\ Len(trail') = Len(trail) + 1
      /\ trail'[Len(trail) + 1] = line
      /\ \A n \in 1..Len(trail) : trail'[n] = trail[n]
  BY <1>1, AppendProperties
<1>3. \A n \in (Len(trail) + 1)..Len(trail') : trail'[n].state = "open"
  BY <1>1, <1>2
<1> QED BY <1>1, <1>2, <1>3 DEF Quiet, Longer

LEMMA NumberedQuiet ==
    ASSUME TrailTypes, NEW of \in Accounts \cup {""}, NEW says \in Says,
           trail' = Numbered(of, says)
    PROVE  /\ Quiet
           /\ Len(trail') = Len(trail) + 1
           /\ trail'[Len(trail) + 1].says = says /\ trail'[Len(trail) + 1].state = "open"
           /\ \A n \in 1..Len(trail) : trail'[n] = trail[n]
<1> DEFINE line == [of |-> of, says |-> says, state |-> "open", late |-> FALSE]
<1>1. line \in Line /\ line.state = "open" /\ line.says = says
  BY DEF Line, Says
<1>2. trail' = Append(trail, line)
  BY Zenon DEF Numbered
<1> HIDE DEF line
<1>3. /\ Quiet
      /\ Len(trail') = Len(trail) + 1
      /\ trail'[Len(trail) + 1] = line
      /\ \A n \in 1..Len(trail) : trail'[n] = trail[n]
  BY <1>1, <1>2, AppendQuiet, Zenon
<1> QED BY <1>1, <1>3, Zenon

LEMMA StoredLine ==
    ASSUME NEW line \in Line, NEW late \in BOOLEAN
    PROVE  \E stored \in Line :
              /\ stored = [line EXCEPT !.state = "stored", !.late = late]
              /\ stored.state = "stored" /\ stored.late = late /\ stored.says = line.says
<1>1. [line EXCEPT !.state = "stored", !.late = late] \in Line
  BY DEF Line
<1> WITNESS [line EXCEPT !.state = "stored", !.late = late] \in Line
<1> QED BY DEF Line

LEMMA VoidedLine ==
    ASSUME NEW line \in Line
    PROVE  LET voided == [line EXCEPT !.state = "void"]
           IN voided \in Line /\ voided.state = "void" /\ voided.says = line.says
  BY DEF Line

LEMMA EndedQuiet ==
    ASSUME TrailTypes, NEW n \in 1..Len(trail), trail[n].state = "open",
           trail' \in {Stored(trail, n), Voided(trail, n)}
    PROVE  /\ Quiet
           /\ Len(trail') = Len(trail)
           /\ \A m \in 1..Len(trail) : m # n => trail'[m] = trail[m]
<1>1. trail \in Seq(Line) /\ Len(trail) \in Nat
  BY DEF TrailTypes
<1>2. trail[n] \in Line /\ Behind(n) \in BOOLEAN
  BY <1>1 DEF Behind
<1>3. PICK line \in Line :
        /\ trail' = [trail EXCEPT ![n] = line]
        /\ line.says = trail[n].says
        /\ line.state = "void" \/ (line.state = "stored" /\ line.late = Behind(n))
  <2>1. CASE trail' = Stored(trail, n)
    <3>1. PICK stored \in Line :
            /\ stored = [trail[n] EXCEPT !.state = "stored", !.late = Behind(n)]
            /\ stored.state = "stored" /\ stored.late = Behind(n) /\ stored.says = trail[n].says
      BY <1>2, StoredLine
    <3>2. trail' = [trail EXCEPT ![n] = stored]
      BY <2>1, <3>1, Zenon DEF Stored
    <3> QED BY <3>1, <3>2, Zenon
  <2>2. CASE trail' = Voided(trail, n)
    BY <1>2, <2>2, VoidedLine, Zenon DEF Voided
  <2> QED BY <2>1, <2>2
<1>4. /\ trail' \in Seq(Line) /\ Len(trail') = Len(trail)
      /\ trail'[n] = line
      /\ \A m \in 1..Len(trail) : m # n => trail'[m] = trail[m]
  BY <1>1, <1>3, ExceptSeq
<1>5. Ends(n)
  BY <1>3, <1>4, Zenon DEF Ends
<1> QED BY <1>1, <1>4, <1>5 DEF Quiet, Longer

LEMMA SameQuiet == ASSUME TrailTypes, trail' = trail PROVE Quiet
  BY DEF TrailTypes, Quiet, Longer

-----------------------------------------------------------------------------
(* Lines inserted and ended outside the sweeps, rounds and sweeps given up. *)

LEMMA LinesKeep ==
    ASSUME TrailInv, Quiet, shipped' = shipped, cursor' = cursor, taken' = taken, room' \in Nat,
           round' \in [Servers -> Rounds],
           \A s \in Servers : round'[s] \in {round[s], NoRound},
           sweep' \in [Servers -> Sweeps],
           \A s \in Servers :
              \/ sweep'[s] = NoSweep
              \/ /\ sweep'[s] = sweep[s]
                 /\ sweep[s].step = "pruning" => trail'[sweep[s].line] = trail[sweep[s].line]
    PROVE  TrailInv'
<1>1. /\ cursor \in Nat /\ taken \subseteq 1..Len(trail)
      /\ Len(trail) \in Nat /\ Len(trail') \in Nat /\ Len(trail') >= Len(trail)
  BY DEF TrailInv, TrailTypes, Quiet, Longer
<1>2. ASSUME NEW s \in Servers PROVE SweepStays(s)
  <2>1. CASE sweep'[s] = NoSweep
    BY <1>1, <2>1 DEF SweepStays, NoSweep
  <2>2. CASE sweep'[s] # NoSweep
    <3>1. SweepOK(s)
      BY DEF TrailInv, SweepsOK
    <3>2. \A o \in sweep[s].old : trail'[o] = trail[o]
      BY <3>1 DEF SweepOK, Quiet, Ends
    <3> QED BY <2>2, <3>2 DEF SweepStays
  <2> QED BY <2>1, <2>2
<1>3. taken' \subseteq 1..Len(trail')
  BY <1>1
<1> QED BY <1>2, <1>3, QuietKeeps

LEMMA OtherKeeps ==
    ASSUME TrailInv, OtherLine \/ OtherEnds
    PROVE  TrailInv'
<1>0. TrailTypes /\ SweepsOK
  BY DEF TrailInv
<1>1. CASE OtherLine
  <2>1. /\ Quiet /\ \A n \in 1..Len(trail) : trail'[n] = trail[n]
    BY <1>0, <1>1, NumberedQuiet DEF OtherLine, Says
  <2>2. \A s \in Servers : sweep[s].step = "pruning" => sweep[s].line \in 1..Len(trail)
    BY <1>0 DEF SweepsOK, SweepOK
  <2>3. room \in Nat /\ room > 0 /\ room' = room - 1
    BY <1>0, <1>1, Zenon DEF OtherLine, TrailTypes
  <2>4. room' \in Nat
    BY <2>3
  <2> QED BY <1>0, <1>1, <2>1, <2>2, <2>4, LinesKeep DEF OtherLine, TrailTypes
<1>2. CASE OtherEnds
  <2>1. PICK n \in 1..Len(trail) :
          /\ trail[n].state = "open" /\ trail[n].says = "other"
          /\ trail' \in {Stored(trail, n), Voided(trail, n)}
    BY <1>0, <1>2 DEF OtherEnds, InState, TrailTypes
  <2>2. /\ Quiet /\ \A m \in 1..Len(trail) : m # n => trail'[m] = trail[m]
    BY <1>0, <2>1, EndedQuiet
  <2>3. \A s \in Servers :
          sweep[s].step = "pruning" => sweep[s].line \in 1..Len(trail) /\ sweep[s].line # n
    BY <1>0, <2>1 DEF SweepsOK, SweepOK
  <2> QED BY <1>0, <1>2, <2>2, <2>3, LinesKeep DEF OtherEnds, TrailTypes
<1> QED BY <1>1, <1>2

-----------------------------------------------------------------------------
(* The rounds.                                                             *)

LEMMA RoundTurns ==
    ASSUME TrailInv, trail' = trail, shipped' = shipped, room' = room, sweep' = sweep,
           cursor' \in 0..Len(trail), cursor <= cursor',
           taken \subseteq taken', taken' \subseteq 1..Len(trail),
           NEW s \in Servers, NEW r \in Rounds, round' = [round EXCEPT ![s] = r],
           RoundOK(s)', DeliveredBehind'
    PROVE  TrailInv'
<1>0. TrailTypes /\ RoundsOK /\ SweepsOK /\ GoneOK
  BY DEF TrailInv
<1>1. TrailTypes'
  BY <1>0 DEF TrailTypes
<1>2. RoundsOK'
  <2> SUFFICES ASSUME NEW t \in Servers, t # s PROVE RoundOK(t)'
    BY DEF RoundsOK
  <2>1. round'[t] = round[t] /\ RoundOK(t)
    BY <1>0 DEF TrailTypes, RoundsOK
  <2>2. round[t].from \in Nat /\ cursor \in Nat /\ cursor' \in Nat
    BY <1>0 DEF TrailTypes, Rounds
  <2> QED BY <2>1, <2>2 DEF RoundOK, Held, Covered
<1>3. Quiet
  BY <1>0, SameQuiet
<1>4. SweepsOK'
  <2>1. cursor' \in Nat
    BY <1>0 DEF TrailTypes
  <2>2. \A t \in Servers : SweepStays(t)
    BY DEF SweepStays
  <2> QED BY <1>0, <1>1, <1>3, <2>1, <2>2, QuietMoves, SweepsStay DEF TrailTypes
<1>5. GoneOK'
  BY <1>0, <1>3, GoneStays
<1> QED BY <1>1, <1>2, <1>4, <1>5 DEF TrailInv

LEMMA BeginKeeps ==
    ASSUME TrailInv, NEW s \in Servers, Begin(s)
    PROVE  TrailInv'
<1>0. /\ TrailTypes /\ DeliveredBehind
      /\ cursor \in 0..Len(trail) /\ cursor \in Nat /\ taken \subseteq 1..Len(trail)
  BY DEF TrailInv, TrailTypes
<1>1. PICK r \in Rounds : /\ r.step = "marked" /\ r.from = cursor /\ r.batch = {}
                          /\ round' = [round EXCEPT ![s] = r]
  <2> DEFINE r == [step |-> "marked", from |-> cursor, batch |-> {}, newest |-> 0]
  <2>1. r \in Rounds
    BY <1>0 DEF Rounds
  <2>2. round' = [round EXCEPT ![s] = r]
    BY DEF Begin
  <2> QED BY <2>1, <2>2, Zenon
<1>2. round'[s] = r
  BY <1>0, <1>1 DEF TrailTypes
<1>u. UNCHANGED <<shipped, room, trail, cursor, taken, sweep>> /\ shipped
  BY DEF Begin
<1>3. RoundOK(s)'
  BY <1>0, <1>1, <1>2, <1>u DEF RoundOK
<1>4. DeliveredBehind'
  BY <1>0, <1>u DEF DeliveredBehind, Held, Covered
<1>5. /\ cursor' \in 0..Len(trail) /\ cursor <= cursor'
      /\ taken \subseteq taken' /\ taken' \subseteq 1..Len(trail)
  BY <1>0, <1>u
<1> QED BY <1>1, <1>3, <1>4, <1>5, <1>u, RoundTurns

(* The lines picked are held, and all that lies between the mark and them  *)
(* is picked.                                                              *)
LEMMA PickedAll ==
    ASSUME TrailTypes, NEW from \in Nat
    PROVE  /\ Picked(from) \subseteq InState("stored")
           /\ \A m \in Picked(from), n \in InState("stored") :
                 from < n /\ n < m => n \in Picked(from)
<1> DEFINE waiting == {n \in InState("stored") : n > from}
<1>1. DOMAIN trail = 1..Len(trail) /\ Len(trail) \in Nat
  BY DEF TrailTypes
<1>2. IsFiniteSet(waiting) /\ waiting \subseteq Nat
  <2>1. waiting \subseteq 1..Len(trail)
    BY <1>1 DEF InState
  <2>2. IsFiniteSet(1..Len(trail))
    BY <1>1, FS_Interval
  <2> QED BY <1>1, <2>1, <2>2, FS_Subset
<1>3. ASSUME NEW m \in Picked(from), NEW n \in InState("stored"), from < n, n < m
      PROVE  n \in Picked(from)
  <2>1. m \in waiting /\ n \in waiting /\ Cardinality({k \in waiting : k < m}) < Batch
    BY <1>3 DEF Picked
  <2>2. {k \in waiting : k < n} \subseteq {k \in waiting : k < m}
    BY <1>2, <1>3, <2>1
  <2>3. IsFiniteSet({k \in waiting : k < m})
    BY <1>2, FS_Subset
  <2>4. /\ Cardinality({k \in waiting : k < n}) <= Cardinality({k \in waiting : k < m})
        /\ Cardinality({k \in waiting : k < n}) \in Nat
        /\ Cardinality({k \in waiting : k < m}) \in Nat
    BY <2>2, <2>3, FS_Subset, FS_CardinalityType
  <2>5. Cardinality({k \in waiting : k < n}) < Batch
    BY <2>1, <2>4, BatchAssumption
  <2> QED BY <2>1, <2>5 DEF Picked
<1> QED BY <1>3 DEF Picked

(* A round that is given up, by itself or with its server.                 *)
LEMMA RoundEnds ==
    ASSUME TrailInv, trail' = trail, shipped' = shipped, room' = room, sweep' = sweep,
           cursor' = cursor, taken \subseteq taken', taken' \subseteq 1..Len(trail),
           NEW s \in Servers, round' = [round EXCEPT ![s] = NoRound]
    PROVE  TrailInv'
<1>1. TrailTypes /\ SweepsOK
  BY DEF TrailInv
<1>2. NoRound \in Rounds
  BY DEF NoRound, Rounds
<1>3. /\ round' \in [Servers -> Rounds]
      /\ \A t \in Servers : round'[t] \in {round[t], NoRound}
  BY <1>1, <1>2 DEF TrailTypes
<1>4. \A t \in Servers : SweepStays(t)
  BY DEF SweepStays
<1> QED BY <1>1, <1>3, <1>4, SameQuiet, QuietKeeps DEF TrailTypes

LEMMA SelectKeeps ==
    ASSUME TrailInv, NEW s \in Servers, Select(s)
    PROVE  TrailInv'
<1> DEFINE from == round[s].from
           rows == Picked(from)
<1>0. /\ TrailTypes /\ DeliveredBehind /\ GoneOK /\ RoundOK(s)
      /\ cursor \in 0..Len(trail) /\ cursor \in Nat /\ taken \subseteq 1..Len(trail)
      /\ from \in Nat /\ from <= cursor
  BY DEF TrailInv, TrailTypes, RoundsOK, RoundOK, Rounds
<1>u. UNCHANGED <<shipped, room, trail, cursor, taken, sweep>> /\ round[s].step = "marked"
  BY DEF Select
<1>1. CASE round' = [round EXCEPT ![s] = NoRound]
  BY <1>0, <1>1, <1>u, RoundEnds
<1>2. ASSUME NEW newest \in rows, \A n \in rows : n <= newest,
             round' = [round EXCEPT ![s] = [step |-> "picked", from |-> 0,
                                            batch |-> rows, newest |-> newest]]
      PROVE  TrailInv'
  <2>1. /\ rows \subseteq InState("stored")
        /\ \A m \in rows, n \in InState("stored") : from < n /\ n < m => n \in rows
    BY <1>0, PickedAll
  <2>2. rows \subseteq Held /\ rows \subseteq Nat
    BY <1>0, <2>1 DEF InState, Held, TrailTypes
  <2>3. PICK r \in Rounds : /\ r.step = "picked" /\ r.from = 0
                            /\ r.batch = rows /\ r.newest = newest
                            /\ round' = [round EXCEPT ![s] = r]
    <3> DEFINE r == [step |-> "picked", from |-> 0, batch |-> rows, newest |-> newest]
    <3>1. r \in Rounds
      BY <1>2, <2>2 DEF Rounds
    <3> QED BY <1>2, <3>1, Zenon
  <2>4. round'[s] = r
    BY <1>0, <2>3 DEF TrailTypes
  <2>5. ASSUME NEW m \in rows, NEW n \in Held, n < m, n \notin rows
        PROVE  Covered(n)
    <3>1. shipped
      BY <1>0, <1>u DEF RoundOK
    <3>2. CASE trail[n].state = "gone"
      BY <1>0, <3>1, <3>2 DEF GoneOK, Held
    <3>3. CASE trail[n].state = "stored"
      <4>1. n \in InState("stored") /\ n \in Nat
        BY <1>0, <3>3 DEF InState, Held, TrailTypes
      <4>2. n <= cursor
        BY <1>0, <2>1, <2>5, <4>1
      <4> QED BY <1>0, <4>2 DEF DeliveredBehind
    <3> QED BY <3>2, <3>3 DEF Held
  <2>6. RoundOK(s)'
    <3>1. Held' = Held /\ shipped'
      BY <1>0, <1>u DEF Held, RoundOK
    <3>2. \A n \in Held : Covered(n)' <=> Covered(n)
      BY <1>u DEF Covered
    <3> QED BY <1>0, <1>2, <1>u, <2>2, <2>3, <2>4, <2>5, <3>1, <3>2 DEF RoundOK
  <2>7. DeliveredBehind'
    BY <1>0, <1>u DEF DeliveredBehind, Held, Covered
  <2>8. /\ cursor' \in 0..Len(trail) /\ cursor <= cursor'
        /\ taken \subseteq taken' /\ taken' \subseteq 1..Len(trail)
    BY <1>0, <1>u
  <2> QED BY <1>u, <2>3, <2>6, <2>7, <2>8, RoundTurns
<1> QED BY <1>1, <1>2 DEF Select

LEMMA AcceptKeeps ==
    ASSUME TrailInv, NEW s \in Servers, Accept(s)
    PROVE  TrailInv'
<1>0. /\ TrailTypes /\ DeliveredBehind /\ RoundOK(s)
      /\ cursor \in 0..Len(trail) /\ cursor \in Nat /\ taken \subseteq 1..Len(trail)
      /\ round[s] \in Rounds
  BY DEF TrailInv, TrailTypes, RoundsOK
<1>u. /\ UNCHANGED <<shipped, room, trail, cursor, sweep>> /\ round[s].step = "picked"
      /\ taken' = taken \cup round[s].batch
      /\ round' = [round EXCEPT ![s].step = "sent"]
  BY DEF Accept
<1>1. PICK r \in Rounds : /\ r.step = "sent" /\ r.from = round[s].from
                          /\ r.batch = round[s].batch /\ r.newest = round[s].newest
                          /\ round' = [round EXCEPT ![s] = r]
  <2>1. \A old \in Rounds : \E r \in Rounds :
          /\ r = [old EXCEPT !.step = "sent"]
          /\ r.step = "sent" /\ r.from = old.from /\ r.batch = old.batch /\ r.newest = old.newest
    <3> TAKE old \in Rounds
    <3>1. [old EXCEPT !.step = "sent"] \in Rounds
      BY DEF Rounds
    <3> WITNESS [old EXCEPT !.step = "sent"] \in Rounds
    <3> QED BY DEF Rounds
  <2> QED BY <1>0, <1>u, <2>1, Zenon
<1>2. round'[s] = r
  BY <1>0, <1>1 DEF TrailTypes
<1>3. Held' = Held /\ (\A n : Covered(n) => Covered(n)')
  BY <1>u DEF Held, Covered
<1>4. RoundOK(s)'
  BY <1>0, <1>1, <1>2, <1>3, <1>u DEF RoundOK
<1>5. DeliveredBehind'
  BY <1>0, <1>3, <1>u DEF DeliveredBehind
<1>6. /\ cursor' \in 0..Len(trail) /\ cursor <= cursor'
      /\ taken \subseteq taken' /\ taken' \subseteq 1..Len(trail)
  BY <1>0, <1>u DEF RoundOK, Held
<1> QED BY <1>1, <1>4, <1>5, <1>6, <1>u, RoundTurns

LEMMA RefuseKeeps ==
    ASSUME TrailInv, NEW s \in Servers, Refuse(s)
    PROVE  TrailInv'
<1>1. TrailTypes /\ RoundOK(s)
  BY DEF TrailInv, RoundsOK
<1>2. taken \subseteq taken' /\ taken' \subseteq 1..Len(trail)
  BY <1>1 DEF Refuse, RoundOK, Held, TrailTypes
<1> QED BY <1>2, RoundEnds DEF Refuse

LEMMA MarkKeeps ==
    ASSUME TrailInv, NEW s \in Servers, Mark(s)
    PROVE  TrailInv' /\ cursor <= cursor'
<1>0. /\ TrailTypes /\ DeliveredBehind /\ RoundOK(s)
      /\ cursor \in 0..Len(trail) /\ cursor \in Nat /\ taken \subseteq 1..Len(trail)
      /\ Len(trail) \in Nat
  BY DEF TrailInv, TrailTypes, RoundsOK
<1>u. /\ UNCHANGED <<shipped, room, trail, taken, sweep>> /\ round[s].step = "sent"
      /\ cursor' = IF cursor < round[s].newest THEN round[s].newest ELSE cursor
      /\ round' = [round EXCEPT ![s] = NoRound]
  BY DEF Mark
<1>1. round[s].newest \in round[s].batch /\ round[s].newest \in 1..Len(trail)
  BY <1>0, <1>u DEF RoundOK, Held
<1>2. cursor' \in 0..Len(trail) /\ cursor <= cursor'
  BY <1>0, <1>1, <1>u
<1>3. NoRound \in Rounds /\ round'[s] = NoRound
  BY <1>0, <1>u DEF NoRound, Rounds, TrailTypes
<1>4. RoundOK(s)'
  BY <1>0, <1>2, <1>3 DEF RoundOK, NoRound
<1>5. Held' = Held /\ Held \subseteq Nat /\ (\A n : Covered(n)' <=> Covered(n))
  BY <1>0, <1>u DEF Held, Covered
<1>6. ASSUME NEW n \in Held, n <= cursor' PROVE Covered(n)
  <2>1. CASE n <= cursor
    BY <1>0, <2>1 DEF DeliveredBehind
  <2>2. CASE n \in round[s].batch
    BY <1>0, <1>u, <2>2 DEF RoundOK, Covered
  <2>3. CASE n > cursor /\ n \notin round[s].batch
    <3>1. n < round[s].newest
      BY <1>0, <1>1, <1>5, <1>6, <1>u, <2>3
    <3> QED BY <1>0, <1>1, <2>3, <3>1 DEF RoundOK
  <2> QED BY <1>0, <1>5, <2>1, <2>2, <2>3
<1>7. DeliveredBehind'
  BY <1>5, <1>6 DEF DeliveredBehind
<1> QED BY <1>0, <1>2, <1>3, <1>4, <1>7, <1>u, RoundTurns

-----------------------------------------------------------------------------
(* The sweeps.                                                             *)

LEMMA BoundKeeps ==
    ASSUME TrailInv, NEW s \in Servers, Bound(s) \/ PruneNothing(s)
    PROVE  TrailInv'
<1>0. TrailTypes /\ cursor \in Nat /\ taken \subseteq 1..Len(trail)
  BY DEF TrailInv, TrailTypes
<1>u. UNCHANGED <<shipped, room, trail, cursor, taken, round>>
  BY DEF Bound, PruneNothing
<1>1. PICK r \in Sweeps : /\ r.step # "pruning" /\ r.old = {} /\ r.through <= cursor
                          /\ sweep' = [sweep EXCEPT ![s] = r]
  <2>1. CASE Bound(s)
    <3> DEFINE through == IF shipped THEN cursor ELSE 0
               r == [step |-> "bound", through |-> through, old |-> {}, line |-> 0]
    <3>1. r \in Sweeps /\ r.step # "pruning" /\ r.old = {} /\ r.through <= cursor
      BY <1>0 DEF Sweeps
    <3>2. sweep' = [sweep EXCEPT ![s] = r]
      BY <2>1 DEF Bound
    <3> QED BY <3>1, <3>2, Zenon
  <2>2. CASE PruneNothing(s)
    <3>1. /\ NoSweep \in Sweeps /\ NoSweep.step # "pruning"
          /\ NoSweep.old = {} /\ NoSweep.through <= cursor
      BY <1>0 DEF NoSweep, Sweeps
    <3> QED BY <2>2, <3>1 DEF PruneNothing
  <2> QED BY <2>1, <2>2
<1>2. sweep' \in [Servers -> Sweeps]
  BY <1>0, <1>1 DEF TrailTypes
<1>3. ASSUME NEW t \in Servers PROVE SweepStays(t)
  BY <1>0, <1>1, <1>u DEF SweepStays, TrailTypes
<1> QED BY <1>0, <1>2, <1>3, <1>u, SameQuiet, QuietKeeps DEF TrailTypes

LEMMA PruneKeeps ==
    ASSUME TrailInv, NEW s \in Servers, Prune(s)
    PROVE  TrailInv'
<1>0. /\ TrailTypes /\ RoundsOK /\ DeliveredBehind /\ SweepsOK /\ GoneOK
      /\ Len(trail) \in Nat /\ cursor \in 0..Len(trail) /\ taken \subseteq 1..Len(trail)
  BY DEF TrailInv, TrailTypes
<1>u. /\ UNCHANGED <<shipped, cursor, taken, round>> /\ sweep[s].step = "bound"
      /\ room > 0 /\ room' = room - 1
  BY Zenon DEF Prune
<1>n. trail' = Numbered("", "pruned")
  BY Zenon DEF Prune
<1>1. PICK old : old \subseteq Removable(s) \ Locked /\
        sweep' = [sweep EXCEPT ![s] = [step |-> "pruning", through |-> @.through,
                                       old |-> old, line |-> Len(trail) + 1]]
  BY DEF Prune
<1>2. \A o \in old : o \in 1..Len(trail) /\ trail[o].state = "stored"
  BY <1>0, <1>1 DEF Removable, InState, TrailTypes
<1>s. shipped => \A o \in old : o <= sweep[s].through
  BY <1>1 DEF Removable
<1>o. old \subseteq Nat /\ \A t \in Servers : old \cap sweep[t].old = {}
  <2>1. old \subseteq 1..Len(trail)
    BY <1>0, <1>1 DEF Removable, InState, TrailTypes
  <2>2. \A t \in Servers : old \cap sweep[t].old = {}
    BY <1>1 DEF Locked
  <2> QED BY <1>0, <2>1, <2>2
<1>3. PICK r \in Sweeps :
        /\ r.step = "pruning" /\ r.through = sweep[s].through
        /\ r.old = old /\ r.line = Len(trail) + 1
        /\ sweep' = [sweep EXCEPT ![s] = r]
  <2> DEFINE r == [step |-> "pruning", through |-> sweep[s].through,
                   old |-> old, line |-> Len(trail) + 1]
  <2>1. sweep[s].through \in Nat /\ old \subseteq Nat
    BY <1>0, <1>o DEF TrailTypes, Sweeps
  <2>2. r \in Sweeps
    BY <1>0, <2>1 DEF Sweeps
  <2>3. sweep' = [sweep EXCEPT ![s] = r]
    BY <1>1, Zenon
  <2> QED BY <2>2, <2>3, Zenon
<1>4. /\ Quiet
      /\ Len(trail') = Len(trail) + 1
      /\ trail'[Len(trail) + 1].state = "open" /\ trail'[Len(trail) + 1].says = "pruned"
      /\ \A n \in 1..Len(trail) : trail'[n] = trail[n]
  <2>1. "pruned" \in Says
    BY DEF Says
  <2> QED BY <1>0, <1>n, <2>1, NumberedQuiet, Zenon
<1>5. sweep' \in [Servers -> Sweeps] /\ sweep'[s] = r
      /\ \A t \in Servers : t # s => sweep'[t] = sweep[t]
  BY <1>0, <1>3 DEF TrailTypes
<1>6. TrailTypes'
  <2>1. room' \in Nat
    BY <1>0, <1>u DEF TrailTypes
  <2> QED BY <1>0, <1>4, <1>5, <1>u, <2>1 DEF TrailTypes, Quiet, Longer
<1>7. RoundsOK' /\ DeliveredBehind'
  BY <1>0, <1>4, <1>u, QuietMoves, RoundsStay DEF TrailTypes
<1>8. \A t \in Servers : SweepOK(t)'
  <2> TAKE t \in Servers
  <2>1. SweepOK(t) /\ SweepOK(s) /\ cursor \in Nat
        /\ sweep[s].through \in Nat
    BY <1>0 DEF SweepsOK, TrailTypes, Sweeps
  <2>2. CASE t = s
    <3>1. /\ sweep'[s].through <= cursor' /\ sweep'[s].old = old
          /\ sweep'[s].step = "pruning" /\ sweep'[s].line = Len(trail) + 1
      BY <1>3, <1>5, <1>u, <2>1 DEF SweepOK
    <3>2. \A o \in old : /\ o \in 1..Len(trail') /\ trail'[o].state = "stored"
                          /\ o < Len(trail) + 1
      BY <1>0, <1>2, <1>4
    <3>4. shipped' => \A o \in old : o <= cursor'
      BY <1>0, <1>s, <1>o, <1>u, <2>1 DEF SweepOK
    <3>3. Len(trail) + 1 \in 1..Len(trail')
      BY <1>0, <1>4
    <3> QED BY <1>4, <2>2, <3>1, <3>2, <3>3, <3>4 DEF SweepOK
  <2>3. CASE t # s
    <3>1. sweep'[t] = sweep[t]
      BY <1>5, <2>3
    <3>2. \A o \in sweep[t].old : o \in 1..Len(trail') /\ trail'[o].state = "stored"
      BY <1>0, <1>4, <2>1 DEF SweepOK
    <3> QED BY <1>0, <1>4, <1>u, <2>1, <3>1, <3>2 DEF SweepOK
  <2> QED BY <2>2, <2>3
<1>9. SweepsApart'
  <2> SUFFICES ASSUME NEW t \in Servers, NEW w \in Servers, t # w
               PROVE  /\ sweep'[t].old \cap sweep'[w].old = {}
                      /\ sweep'[t].step = "pruning" /\ sweep'[w].step = "pruning" =>
                            sweep'[t].line # sweep'[w].line
    BY DEF SweepsApart
  <2>1. SweepOK(t) /\ SweepOK(w)
    BY <1>0 DEF SweepsOK
  <2>2. CASE t # s /\ w # s
    BY <1>0, <1>5, <2>2 DEF SweepsOK, SweepsApart
  <2>3. ASSUME NEW v \in Servers, v # s, SweepOK(v)
        PROVE  /\ sweep'[v] = sweep[v]
               /\ sweep'[s].old \cap sweep'[v].old = {}
               /\ sweep'[v].step = "pruning" => sweep'[v].line < sweep'[s].line
    <3>1. sweep'[v] = sweep[v] /\ sweep'[s].old = old /\ sweep'[s].line = Len(trail) + 1
      BY <1>3, <1>5, <2>3
    <3>2. old \cap sweep[v].old = {}
      BY <1>o
    <3>3. sweep[v].step = "pruning" => sweep[v].line < Len(trail) + 1
      BY <1>0, <2>3 DEF SweepOK
    <3> QED BY <3>1, <3>2, <3>3
  <2>4. sweep'[s].line \in Nat /\ sweep'[t].line \in Nat /\ sweep'[w].line \in Nat
    BY <1>5 DEF Sweeps
  <2>5. CASE t = s
    BY <2>1, <2>3, <2>4, <2>5
  <2>6. CASE w = s
    BY <2>1, <2>3, <2>4, <2>6
  <2> QED BY <2>2, <2>5, <2>6
<1>10. GoneOK'
  BY <1>0, <1>4, <1>u, GoneStays
<1> QED BY <1>6, <1>7, <1>8, <1>9, <1>10 DEF TrailInv, SweepsOK

LEMMA GoneLine ==
    ASSUME NEW line \in Line
    PROVE  LET gone == [line EXCEPT !.state = "gone"]
           IN gone \in Line /\ gone.state = "gone" /\ gone.says = line.says /\ gone.late = line.late
  BY DEF Line

LEMMA RemovedLines ==
    ASSUME NEW lines \in Seq(Line), NEW old
    PROVE  /\ Removed(lines, old) \in Seq(Line)
           /\ Len(Removed(lines, old)) = Len(lines)
           /\ \A n \in 1..Len(lines) :
                 /\ n \notin old => Removed(lines, old)[n] = lines[n]
                 /\ n \in old => /\ Removed(lines, old)[n].state = "gone"
                                 /\ Removed(lines, old)[n].says = lines[n].says
                                 /\ Removed(lines, old)[n].late = lines[n].late
<1> DEFINE gone == Removed(lines, old)
<1>1. Len(lines) \in Nat /\ DOMAIN lines = 1..Len(lines) /\ \A n \in 1..Len(lines) : lines[n] \in Line
  OBVIOUS
<1>2. ASSUME NEW n \in 1..Len(lines)
      PROVE  LET line == [lines[n] EXCEPT !.state = "gone"]
             IN /\ line \in Line /\ line.state = "gone"
                /\ line.says = lines[n].says /\ line.late = lines[n].late
  BY <1>1, GoneLine, Zenon
<1>3. gone = [n \in 1..Len(lines) |-> IF n \in old THEN [lines[n] EXCEPT !.state = "gone"] ELSE lines[n]]
  BY <1>1, Zenon DEF Removed
<1>4. ASSUME NEW n \in 1..Len(lines)
      PROVE  /\ gone[n] \in Line
             /\ n \notin old => gone[n] = lines[n]
             /\ n \in old => gone[n].state = "gone" /\ gone[n].says = lines[n].says
                             /\ gone[n].late = lines[n].late
  <2>1. CASE n \in old
    <3>1. gone[n] = [lines[n] EXCEPT !.state = "gone"]
      BY <1>3, <2>1, Zenon
    <3> QED BY <1>2, <2>1, <3>1, Zenon
  <2>2. CASE n \notin old
    <3>1. gone[n] = lines[n]
      BY <1>3, <2>2, Zenon
    <3> QED BY <1>1, <2>2, <3>1
  <2> QED BY <2>1, <2>2
<1>5. gone \in [1..Len(lines) -> Line]
  BY <1>3, <1>4, Zenon
<1>6. gone \in Seq(Line) /\ Len(gone) = Len(lines)
  BY <1>1, <1>5, SeqDef, LenProperties
<1> QED BY <1>4, <1>6

LEMMA StoredLines ==
    ASSUME NEW lines \in Seq(Line), NEW n \in 1..Len(lines)
    PROVE  /\ Stored(lines, n) \in Seq(Line)
           /\ Len(Stored(lines, n)) = Len(lines)
           /\ \A m \in 1..Len(lines) : m # n => Stored(lines, n)[m] = lines[m]
           /\ Stored(lines, n)[n].state = "stored" /\ Stored(lines, n)[n].late = Behind(n)
           /\ Stored(lines, n)[n].says = lines[n].says
<1>1. lines[n] \in Line /\ Behind(n) \in BOOLEAN
  BY DEF Behind
<1>2. PICK stored \in Line :
        /\ stored = [lines[n] EXCEPT !.state = "stored", !.late = Behind(n)]
        /\ stored.state = "stored" /\ stored.late = Behind(n) /\ stored.says = lines[n].says
  BY <1>1, StoredLine
<1>3. Stored(lines, n) = [lines EXCEPT ![n] = stored]
  BY <1>2, Zenon DEF Stored
<1> QED BY <1>2, <1>3, ExceptSeq

LEMMA VoidedLines ==
    ASSUME NEW lines \in Seq(Line), NEW n \in 1..Len(lines)
    PROVE  /\ Voided(lines, n)[n] \in Line
           /\ Voided(lines, n)[n].state = "void" /\ Voided(lines, n)[n].says = lines[n].says
<1> DEFINE voided == [lines[n] EXCEPT !.state = "void"]
<1>1. lines[n] \in Line
  OBVIOUS
<1>2. voided \in Line /\ voided.state = "void" /\ voided.says = lines[n].says
  BY <1>1, VoidedLine, Zenon
<1>3. Voided(lines, n) = [lines EXCEPT ![n] = voided]
  BY Zenon DEF Voided
<1> HIDE DEF voided
<1>4. Voided(lines, n)[n] = voided
  BY <1>3
<1> QED BY <1>2, <1>4

LEMMA PruneCommitsKeeps ==
    ASSUME TrailInv, NEW s \in Servers, PruneCommits(s)
    PROVE  /\ TrailInv'
           /\ Len(trail') = Len(trail)
           /\ \A n \in 1..Len(trail) :
                 trail[n].state = "open" /\ trail[n].says # "pruned" => trail'[n] = trail[n]
<1> DEFINE old == sweep[s].old
           line == sweep[s].line
           lines == Removed(trail, old)
<1>0. /\ TrailTypes /\ RoundsOK /\ DeliveredBehind /\ SweepsOK /\ GoneOK
      /\ Len(trail) \in Nat /\ cursor \in 0..Len(trail) /\ taken \subseteq 1..Len(trail)
      /\ trail \in Seq(Line)
  BY DEF TrailInv, TrailTypes
<1>u. /\ UNCHANGED <<shipped, room, cursor, taken, round>> /\ sweep[s].step = "pruning"
      /\ sweep' = [sweep EXCEPT ![s] = NoSweep]
  BY DEF PruneCommits
<1>1. /\ line \in 1..Len(trail) /\ trail[line].state = "open" /\ trail[line].says = "pruned"
      /\ \A o \in old : o \in 1..Len(trail) /\ trail[o].state = "stored" /\ o < line
  BY <1>0, <1>u DEF SweepsOK, SweepOK
<1>s. shipped => \A o \in old : o <= cursor
  BY <1>0 DEF SweepsOK, SweepOK
<1>2. /\ lines \in Seq(Line) /\ Len(lines) = Len(trail)
      /\ \A n \in 1..Len(trail) :
            /\ n \notin old => lines[n] = trail[n]
            /\ n \in old => /\ lines[n].state = "gone"
                            /\ lines[n].says = trail[n].says /\ lines[n].late = trail[n].late
  BY <1>0, RemovedLines
<1> HIDE DEF lines
<1>3. trail' = Stored(lines, line)
  BY Zenon DEF PruneCommits, lines
<1>4. /\ trail' \in Seq(Line) /\ Len(trail') = Len(trail)
      /\ \A n \in 1..Len(trail) : n # line => trail'[n] = lines[n]
      /\ trail'[line].state = "stored" /\ trail'[line].late = Behind(line)
      /\ trail'[line].says = lines[line].says
  <2>1. line \in 1..Len(lines)
    BY <1>1, <1>2
  <2>2. /\ Stored(lines, line) \in Seq(Line)
        /\ Len(Stored(lines, line)) = Len(lines)
        /\ \A m \in 1..Len(lines) : m # line => Stored(lines, line)[m] = lines[m]
        /\ Stored(lines, line)[line].state = "stored"
        /\ Stored(lines, line)[line].late = Behind(line)
        /\ Stored(lines, line)[line].says = lines[line].says
    <3>1. lines \in Seq(Line)
      BY <1>2
    <3> HIDE DEF line
    <3> QED BY <2>1, <3>1, StoredLines, Zenon
  <2> QED BY <1>2, <1>3, <2>2, Zenon
<1>5. line \notin old
  BY <1>1
<1>6. \A n \in 1..Len(trail) : n # line /\ n \notin old => trail'[n] = trail[n]
  BY <1>2, <1>4
<1>7. \A n \in 1..Len(trail) : n \in old => Goes2(n) /\ trail'[n].says = trail[n].says
  BY <1>1, <1>2, <1>4, <1>5 DEF Goes2
<1>8. Ends(line) /\ trail'[line].says = "pruned"
  BY <1>1, <1>2, <1>4, <1>5 DEF Ends
<1>9. Moves
  BY <1>0, <1>4, <1>6, <1>7, <1>8 DEF Moves, Longer
<1>10. NoSweep \in Sweeps
  BY DEF NoSweep, Sweeps
<1>11. TrailTypes'
  BY <1>0, <1>4, <1>10, <1>u DEF TrailTypes
<1>12. RoundsOK' /\ DeliveredBehind'
  BY <1>0, <1>9, <1>u, RoundsStay DEF TrailTypes
<1>13. SweepsOK'
  <2>1. ASSUME NEW t \in Servers PROVE SweepStays(t)
    <3>1. CASE t = s
      <4>1. sweep'[t] = NoSweep /\ cursor \in Nat
        BY <1>0, <1>u, <3>1 DEF TrailTypes
      <4> QED BY <4>1 DEF SweepStays, NoSweep
    <3>2. CASE t # s
      <4>1. sweep'[t] = sweep[t]
        BY <1>0, <1>u, <3>2 DEF TrailTypes
      <4>2. sweep[t].old \cap old = {} /\ (sweep[t].step = "pruning" => sweep[t].line # line)
        BY <1>0, <1>u, <3>2 DEF SweepsOK, SweepsApart
      <4>3. \A o \in sweep[t].old : o \in 1..Len(trail) /\ o # line /\ o \notin old
        BY <1>0, <1>1, <4>2 DEF SweepsOK, SweepOK
      <4>4. sweep[t].step = "pruning" => sweep[t].line \in 1..Len(trail) /\ sweep[t].line \notin old
        BY <1>0, <1>1 DEF SweepsOK, SweepOK
      <4> QED BY <1>6, <4>1, <4>2, <4>3, <4>4 DEF SweepStays
    <3> QED BY <3>1, <3>2
  <2> QED BY <1>0, <1>9, <1>11, <1>u, <2>1, SweepsStay DEF TrailTypes
<1>14. GoneOK'
  <2> SUFFICES ASSUME NEW n \in 1..Len(trail), trail'[n].state = "gone"
               PROVE  /\ shipped' => Covered(n)'
                      /\ \E m \in 1..Len(trail) :
                            trail'[m].state = "stored" /\ m > n /\ trail'[m].says = "pruned"
    BY <1>4 DEF GoneOK
  <2>1. n # line
    BY <1>4
  <2>2. CASE n \in old
    <3>1. shipped => Covered(n)
      <4>1. n \in Held
        BY <1>1, <2>2 DEF Held
      <4> QED BY <1>0, <1>s, <2>2, <4>1 DEF DeliveredBehind
    <3>2. trail'[n].late = trail[n].late
      BY <1>7, <2>2 DEF Goes2
    <3>3. line > n
      BY <1>0, <1>1, <2>2
    <3> QED BY <1>1, <1>4, <1>8, <1>u, <3>1, <3>2, <3>3 DEF Covered
  <2>3. CASE n \notin old
    <3>1. trail'[n] = trail[n]
      BY <1>6, <2>1, <2>3
    <3>2. PICK m \in 1..Len(trail) :
            trail[m].state = "stored" /\ m > n /\ trail[m].says = "pruned"
      BY <1>0, <3>1 DEF GoneOK
    <3>3. shipped' => Covered(n)'
      BY <1>0, <1>u, <3>1 DEF GoneOK, Covered
    <3>4. CASE m \in old
      <4>1. line > n
        BY <1>0, <1>1, <3>2, <3>4
      <4> QED BY <1>1, <1>4, <1>8, <3>3, <4>1
    <3>5. CASE m \notin old
      <4>1. trail'[m] = trail[m]
        BY <1>1, <1>6, <3>2, <3>5
      <4> QED BY <3>2, <3>3, <4>1
    <3> QED BY <3>4, <3>5
  <2> QED BY <2>2, <2>3
<1>15. \A n \in 1..Len(trail) :
          trail[n].state = "open" /\ trail[n].says # "pruned" => trail'[n] = trail[n]
  BY <1>1, <1>6
<1> QED BY <1>4, <1>11, <1>12, <1>13, <1>14, <1>15 DEF TrailInv

LEMMA PruneUnrecordedKeeps ==
    ASSUME TrailInv, NEW s \in Servers, PruneUnrecorded(s)
    PROVE  /\ TrailInv'
           /\ Len(trail') = Len(trail)
           /\ \A n \in 1..Len(trail) :
                 trail[n].state = "open" /\ trail[n].says # "pruned" => trail'[n] = trail[n]
<1> DEFINE line == sweep[s].line
<1>0. TrailTypes /\ SweepsOK /\ Len(trail) \in Nat
  BY DEF TrailInv, TrailTypes
<1>u. /\ UNCHANGED <<shipped, room, cursor, taken, round>> /\ sweep[s].step = "pruning"
      /\ sweep' = [sweep EXCEPT ![s] = NoSweep]
  BY DEF PruneUnrecorded
<1>1. line \in 1..Len(trail) /\ trail[line].state = "open" /\ trail[line].says = "pruned"
  BY <1>0, <1>u DEF SweepsOK, SweepOK
<1>2. /\ Quiet /\ Len(trail') = Len(trail)
      /\ \A m \in 1..Len(trail) : m # line => trail'[m] = trail[m]
  BY <1>0, <1>1, EndedQuiet DEF PruneUnrecorded
<1>3. NoSweep \in Sweeps
  BY DEF NoSweep, Sweeps
<1>4. ASSUME NEW t \in Servers
      PROVE  \/ sweep'[t] = NoSweep
             \/ /\ sweep'[t] = sweep[t]
                /\ sweep[t].step = "pruning" => trail'[sweep[t].line] = trail[sweep[t].line]
  <2>1. CASE t = s
    BY <1>0, <1>u, <2>1 DEF TrailTypes
  <2>2. CASE t # s
    <3>1. sweep'[t] = sweep[t]
      BY <1>0, <1>u, <2>2 DEF TrailTypes
    <3>2. sweep[t].step = "pruning" => sweep[t].line # line /\ sweep[t].line \in 1..Len(trail)
      BY <1>0, <1>u, <2>2 DEF SweepsOK, SweepsApart, SweepOK
    <3> QED BY <1>2, <3>1, <3>2
  <2> QED BY <2>1, <2>2
<1>5. sweep' \in [Servers -> Sweeps]
  BY <1>0, <1>3, <1>u DEF TrailTypes
<1>6. TrailInv'
  BY <1>0, <1>2, <1>4, <1>5, <1>u, LinesKeep DEF TrailTypes
<1> QED BY <1>1, <1>2, <1>6

-----------------------------------------------------------------------------
(* The trail by itself.                                                    *)

(* A step of the trail leaves the open lines of everybody else.            *)
OwnLinesStay ==
    /\ Len(trail) <= Len(trail')
    /\ \A n \in 1..Len(trail) :
          trail[n].state = "open" /\ trail[n].says \notin {"pruned", "other"} => trail'[n] = trail[n]

LEMMA TrailInvInit ==
    ASSUME shipped \in BOOLEAN, room \in Nat, TrailInit
    PROVE  TrailInv
<1>1. Len(trail) = 0 /\ trail \in Seq(Line)
  BY DEF TrailInit
<1>2. NoRound \in Rounds /\ NoSweep \in Sweeps
  BY DEF NoRound, NoSweep, Rounds, Sweeps
<1>3. TrailTypes
  BY <1>1, <1>2 DEF TrailTypes, TrailInit
<1>4. Held = {}
  BY <1>1 DEF Held
<1>5. RoundsOK /\ DeliveredBehind
  BY <1>4 DEF RoundsOK, RoundOK, DeliveredBehind, TrailInit, NoRound
<1>6. SweepsOK
  BY DEF SweepsOK, SweepOK, SweepsApart, TrailInit, NoSweep
<1>7. GoneOK
  BY <1>1 DEF GoneOK
<1> QED BY <1>3, <1>5, <1>6, <1>7 DEF TrailInv

LEMMA TrailKeeps ==
    ASSUME TrailInv, OtherLine \/ OtherEnds \/ \E s \in Servers : TrailStep(s)
    PROVE  TrailInv' /\ OwnLinesStay /\ cursor <= cursor'
<1>0. TrailTypes /\ Len(trail) \in Nat /\ cursor \in Nat
  BY DEF TrailInv, TrailTypes
<1>1. CASE OtherLine
  <2>1. OwnLinesStay
    <3>1. trail' = Numbered("", "other") /\ "other" \in Says
      BY <1>1, Zenon DEF OtherLine, Says
    <3>2. Len(trail') = Len(trail) + 1 /\ \A n \in 1..Len(trail) : trail'[n] = trail[n]
      BY <1>0, <3>1, NumberedQuiet, Zenon
    <3> QED BY <1>0, <3>2 DEF OwnLinesStay
  <2>2. cursor' = cursor
    BY <1>1, Zenon DEF OtherLine
  <2> QED BY <1>0, <1>1, <2>1, <2>2, OtherKeeps
<1>2. CASE OtherEnds
  <2>1. PICK n \in 1..Len(trail) :
          /\ trail[n].state = "open" /\ trail[n].says = "other"
          /\ trail' \in {Stored(trail, n), Voided(trail, n)}
    BY <1>0, <1>2 DEF OtherEnds, InState, TrailTypes
  <2>2. Len(trail') = Len(trail) /\ \A m \in 1..Len(trail) : m # n => trail'[m] = trail[m]
    BY <1>0, <2>1, EndedQuiet
  <2>3. OwnLinesStay
    BY <1>0, <2>1, <2>2 DEF OwnLinesStay
  <2> QED BY <1>0, <1>2, <2>3, OtherKeeps DEF OtherEnds
<1>3. ASSUME NEW s \in Servers, Begin(s) \/ Select(s) \/ Accept(s) \/ Refuse(s) \/ Bound(s) \/ PruneNothing(s)
      PROVE  TrailInv' /\ OwnLinesStay /\ cursor <= cursor'
  <2>1. trail' = trail /\ cursor' = cursor
    BY <1>3 DEF Begin, Select, Accept, Refuse, Bound, PruneNothing
  <2> QED BY <1>0, <1>3, <2>1, BeginKeeps, SelectKeeps, AcceptKeeps, RefuseKeeps, BoundKeeps
       DEF OwnLinesStay
<1>4. ASSUME NEW s \in Servers, Mark(s)
      PROVE  TrailInv' /\ OwnLinesStay /\ cursor <= cursor'
  <2>1. trail' = trail
    BY <1>4 DEF Mark
  <2>2. TrailInv' /\ cursor <= cursor'
    BY <1>4, MarkKeeps
  <2> QED BY <1>0, <2>1, <2>2 DEF OwnLinesStay
<1>5. ASSUME NEW s \in Servers, Prune(s)
      PROVE  TrailInv' /\ OwnLinesStay /\ cursor <= cursor'
  <2>1. trail' = Numbered("", "pruned") /\ "pruned" \in Says /\ cursor' = cursor
    BY <1>5, Zenon DEF Prune, Says
  <2>2. Len(trail') = Len(trail) + 1 /\ \A n \in 1..Len(trail) : trail'[n] = trail[n]
    BY <1>0, <2>1, NumberedQuiet, Zenon
  <2>3. OwnLinesStay
    BY <1>0, <2>2 DEF OwnLinesStay
  <2>4. cursor <= cursor'
    <3>1. cursor' = cursor
      BY <2>1
    <3> QED BY <1>0, <3>1
  <2> QED BY <1>5, <2>3, <2>4, PruneKeeps
<1>6. ASSUME NEW s \in Servers, PruneCommits(s) \/ PruneUnrecorded(s)
      PROVE  TrailInv' /\ OwnLinesStay /\ cursor <= cursor'
  <2>1. cursor' = cursor
    BY <1>6 DEF PruneCommits, PruneUnrecorded
  <2> QED BY <1>0, <1>6, <2>1, PruneCommitsKeeps, PruneUnrecordedKeeps DEF OwnLinesStay
<1> QED BY <1>1, <1>2, <1>3, <1>4, <1>5, <1>6 DEF TrailStep

(* What the invariant is for.                                              *)
LEMMA PrunesKeptOf == TrailInv => PrunesKept
<1> SUFFICES ASSUME TrailInv PROVE PrunesKept
  OBVIOUS
<1>1. DOMAIN trail = 1..Len(trail)
  BY DEF TrailInv, TrailTypes
<1>2. NothingPrunedUnsent
  BY <1>1 DEF TrailInv, GoneOK, NothingPrunedUnsent, InState, Covered
<1>3. PrunesAreTold
  BY <1>1 DEF TrailInv, GoneOK, PrunesAreTold, InState
<1> QED BY <1>2, <1>3 DEF PrunesKept
-----------------------------------------------------------------------------
(* The accounts.                                                           *)

People == Accounts \cup {""}
Places == Servers \cup {""}
AccountKinds == {"disable", "enable", "admin", "analyst"}
ClaimSteps == {"gate", "role", "insert", "take", "back"}

Acts == [step : Steps, kind : AccountKinds \cup {"", "claim"}, at : Places,
         by : People, target : People, role : {"", "admin", "analyst"},
         everyone : SUBSET Accounts, line : Nat]

Person == [role : {"none", "admin", "analyst"}, banned : BOOLEAN]

AccountTypes ==
    /\ account \in [Accounts -> Person]
    /\ fresh \in BOOLEAN /\ claimed \in BOOLEAN /\ stopped \in BOOLEAN
    /\ turns \in [Servers -> Seq(Requests)]
    /\ act \in [Requests -> Acts]
    /\ lock \in SUBSET Requests
    /\ acts \in Nat /\ stops \in Nat

Waits(p) == act[p].step \in Holding \cup {"waiting"}

(* The line an act has open is its own.                                    *)
LinesOK ==
    /\ \A p \in Requests : act[p].step = "open" =>
          /\ act[p].line \in 1..Len(trail)
          /\ trail[act[p].line].state = "open"
          /\ trail[act[p].line].says \notin {"pruned", "other"}
    /\ \A p, q \in Requests :
          p # q /\ act[p].step = "open" /\ act[q].step = "open" => act[p].line # act[q].line

(* A queue is of the acts under way in its process, each there once.       *)
QueueOK(s) ==
    \A i \in 1..Len(turns[s]) :
       /\ Waits(turns[s][i]) /\ act[turns[s][i]].at = s
       /\ \A j \in 1..Len(turns[s]) : turns[s][i] = turns[s][j] => i = j

QueuesOK == \A s \in Servers : QueueOK(s)

(* The lock is one act's, the head's of its queue.                          *)
LockOK ==
    /\ lock = {} \/ \E p \in Requests : lock = {p}
    /\ \A p \in Requests :
          /\ act[p].step \in Holding <=> lock = {p}
          /\ lock = {p} => turns[act[p].at] # <<>> /\ Head(turns[act[p].at]) = p

(* What an act rests on, by the step it is at.                              *)
ActOK(p) ==
    /\ Waits(p) => /\ act[p].kind \in AccountKinds
                   /\ act[p].at \in Servers /\ act[p].target \in Accounts
                   /\ act[p].by \in SignedIn
    /\ act[p].kind = "claim" <=> act[p].step \in ClaimSteps
    /\ act[p].step \in ClaimSteps => act[p].target \in Accounts
    /\ act[p].step = "insert" => act[p].role # ""
    /\ act[p].step \in Holding \ {"still"} => Administers(act[p].by)
    /\ act[p].step \in {"write", "line", "open", "library"} /\ act[p].target = act[p].by
          => act[p].kind \in {"enable", "admin"}

ActsOK == \A p \in Requests : ActOK(p)

(* The claims whose account is inserted and not settled yet.                *)
Inserted(p) == act[p].step \in {"take", "back"}
Settled(t) == \A p \in Requests : Inserted(p) => act[p].target # t

ClaimsOK ==
    /\ \A p \in Requests : Inserted(p) => act[p].target \in Known
    /\ \A p, q \in Requests :
          p # q /\ Inserted(p) /\ Inserted(q) => act[p].target # act[q].target
    /\ claimed \/ (\E t \in Accounts : account[t].banned)
          => \E t \in Accounts : Administers(t) /\ Settled(t)
    /\ fresh /\ ~ stopped =>
          /\ ~ claimed => \A t \in Known : ~ Settled(t)
          /\ claimed => \E w \in Known :
                           Settled(w) /\ \A t \in Known : t # w => ~ Settled(t)

AccountsInv == LinesOK /\ AccountTypes /\ QueuesOK /\ LockOK /\ ActsOK /\ ClaimsOK

IInv == TrailInv /\ AccountsInv

-----------------------------------------------------------------------------
(* A request that goes on, and one that is answered.                       *)

OthersStay(p) == \A q \in Requests : q # p => act'[q] = act[q]

(* What the steps of a request never change of it.                          *)
SameRequest(p) ==
    /\ act'[p].kind = act[p].kind /\ act'[p].at = act[p].at
    /\ act'[p].by = act[p].by /\ act'[p].target = act[p].target

LEMMA GoesOn ==
    ASSUME act \in [Requests -> Acts], NEW p \in Requests, NEW step \in Steps, Goes(p, step)
    PROVE  /\ act' \in [Requests -> Acts] /\ OthersStay(p) /\ SameRequest(p)
           /\ act'[p].step = step
           /\ act'[p].role = act[p].role /\ act'[p].line = act[p].line
<1>1. \A old \in Acts : \E new \in Acts :
        /\ new = [old EXCEPT !.step = step]
        /\ new.step = step /\ new.kind = old.kind /\ new.at = old.at /\ new.by = old.by
        /\ new.target = old.target /\ new.role = old.role /\ new.line = old.line
  <2> TAKE old \in Acts
  <2>1. [old EXCEPT !.step = step] \in Acts
    BY DEF Acts
  <2> WITNESS [old EXCEPT !.step = step] \in Acts
  <2> QED BY DEF Acts
<1>2. PICK new \in Acts :
        /\ new = [act[p] EXCEPT !.step = step]
        /\ new.step = step /\ new.kind = act[p].kind /\ new.at = act[p].at /\ new.by = act[p].by
        /\ new.target = act[p].target /\ new.role = act[p].role /\ new.line = act[p].line
  BY <1>1
<1>3. act' = [act EXCEPT ![p] = new]
  BY <1>2, Zenon DEF Goes
<1> QED BY <1>2, <1>3 DEF OthersStay, SameRequest

LEMMA NoActFacts ==
    /\ NoAct \in Acts
    /\ NoAct.step = "idle" /\ NoAct.kind = ""
  BY DEF NoAct, Asked, Acts, Steps, People, Places

LEMMA Answered ==
    ASSUME act \in [Requests -> Acts], NEW p \in Requests, act' = [act EXCEPT ![p] = NoAct]
    PROVE  /\ act' \in [Requests -> Acts] /\ OthersStay(p)
           /\ act'[p].step = "idle" /\ act'[p].kind = ""
  BY NoActFacts DEF OthersStay

-----------------------------------------------------------------------------
(* The queues and the lock.                                                *)

QueuesKept ==
    /\ turns' \in [Servers -> Seq(Requests)] /\ lock' \in SUBSET Requests
    /\ QueuesOK' /\ LockOK'

(* A step in which nobody comes, ends or takes the lock.                   *)
LEMMA QueueStays ==
    ASSUME AccountTypes, QueuesOK, LockOK, turns' = turns, lock' = lock,
           NEW p \in Requests, OthersStay(p),
           act'[p].step \in Holding <=> act[p].step \in Holding,
           Waits(p)' <=> Waits(p),
           Waits(p) => act'[p].at = act[p].at
    PROVE  QueuesKept
<1>1. QueuesOK'
  <2> SUFFICES ASSUME NEW s \in Servers PROVE QueueOK(s)'
    BY DEF QueuesOK
  <2>1. turns[s] \in Seq(Requests)
    BY DEF AccountTypes
  <2>2. \A i \in 1..Len(turns[s]) : turns[s][i] \in Requests
    BY <2>1
  <2> QED BY <2>2 DEF QueuesOK, QueueOK, OthersStay, Waits
<1>2. LockOK'
  BY DEF LockOK, OthersStay, Waits
<1> QED BY <1>1, <1>2 DEF QueuesKept, AccountTypes

LEMMA TailOf ==
    ASSUME NEW q \in Seq(Requests), q # <<>>
    PROVE  /\ Tail(q) \in Seq(Requests)
           /\ Len(Tail(q)) = Len(q) - 1
           /\ \A i \in 1..Len(Tail(q)) : i + 1 \in 1..Len(q) /\ Tail(q)[i] = q[i + 1]
           /\ 1 \in 1..Len(q) /\ Head(q) = q[1]
  BY HeadTailProperties

(* The head of a queue is answered.                                        *)
LEMMA QueueEnds ==
    ASSUME AccountTypes, QueuesOK, LockOK, NEW p \in Requests, Ended(p),
           Waits(p), act[p].at \in Servers,
           turns[act[p].at] # <<>>, Head(turns[act[p].at]) = p
    PROVE  QueuesKept
<1> DEFINE at == act[p].at
           q == turns[at]
<1>1. q \in Seq(Requests) /\ turns \in [Servers -> Seq(Requests)]
  BY DEF AccountTypes
<1>2. /\ Tail(q) \in Seq(Requests)
      /\ Len(Tail(q)) = Len(q) - 1
      /\ \A i \in 1..Len(Tail(q)) : i + 1 \in 1..Len(q) /\ Tail(q)[i] = q[i + 1]
      /\ 1 \in 1..Len(q) /\ Head(q) = q[1]
  BY <1>1, TailOf
<1>3. /\ turns' = [turns EXCEPT ![at] = Tail(q)]
      /\ lock' = lock \ {p} /\ act' = [act EXCEPT ![p] = NoAct]
  BY DEF Ended, Left
<1>4. /\ turns' \in [Servers -> Seq(Requests)] /\ turns'[at] = Tail(q)
      /\ \A s \in Servers : s # at => turns'[s] = turns[s]
  BY <1>1, <1>2, <1>3
<1>5. OthersStay(p) /\ act'[p].step = "idle"
  BY <1>3, Answered DEF AccountTypes
<1>6. ASSUME NEW s \in Servers PROVE QueueOK(s)'
  <2>1. turns[s] \in Seq(Requests) /\ \A i \in 1..Len(turns[s]) : turns[s][i] \in Requests
    BY DEF AccountTypes
  <2>2. CASE s = at
    <3>1. ASSUME NEW i \in 1..Len(Tail(q))
          PROVE  /\ Tail(q)[i] \in Requests /\ Tail(q)[i] # p
                 /\ Waits(Tail(q)[i]) /\ act[Tail(q)[i]].at = at
                 /\ \A j \in 1..Len(Tail(q)) : Tail(q)[i] = Tail(q)[j] => i = j
      <4>1. /\ i + 1 \in 1..Len(q) /\ Tail(q)[i] = q[i + 1]
            /\ i \in Nat /\ Len(q) \in Nat
        BY <1>1, <1>2
      <4>2. i + 1 # 1
        BY <1>1, <1>2
      <4>3. \A j \in 1..Len(q) : q[i + 1] = q[j] => i + 1 = j
        BY <4>1 DEF QueuesOK, QueueOK
      <4>4. q[i + 1] # p
        BY <1>2, <4>2, <4>3
      <4>5. ASSUME NEW j \in 1..Len(Tail(q)), Tail(q)[i] = Tail(q)[j] PROVE i = j
        <5>1. j + 1 \in 1..Len(q) /\ Tail(q)[j] = q[j + 1] /\ j \in Nat
          BY <1>1, <1>2
        <5>2. i + 1 = j + 1
          BY <4>1, <4>3, <4>5, <5>1
        <5> QED BY <4>1, <5>1, <5>2
      <4> QED BY <2>1, <2>2, <4>1, <4>4, <4>5 DEF QueuesOK, QueueOK
    <3>2. \A i \in 1..Len(Tail(q)) :
            act'[Tail(q)[i]] = act[Tail(q)[i]] /\ act[Tail(q)[i]].at = s
      BY <1>5, <2>2, <3>1 DEF OthersStay
    <3>3. turns'[s] = Tail(q)
      BY <1>4, <2>2
    <3>4. \A i \in 1..Len(Tail(q)) : act'[Tail(q)[i]].step \in Holding \cup {"waiting"}
      BY <3>1, <3>2 DEF Waits
    <3> QED BY <3>1, <3>2, <3>3, <3>4 DEF QueueOK, Waits
  <2>3. CASE s # at
    <3>1. \A i \in 1..Len(turns[s]) : turns[s][i] # p
      BY <2>3 DEF QueuesOK, QueueOK
    <3> QED BY <1>4, <1>5, <2>1, <2>3, <3>1 DEF QueuesOK, QueueOK, Waits, OthersStay
  <2> QED BY <2>2, <2>3
<1>7. LockOK'
  <2>1. "idle" \notin Holding
    BY DEF Holding
  <2>2. ASSUME NEW r \in Requests, r # p, lock = {r}
        PROVE  /\ act'[r] = act[r] /\ act[r].step \in Holding /\ lock' = {r}
               /\ turns'[act[r].at] = turns[act[r].at]
    <3>1. turns[act[r].at] # <<>> /\ Head(turns[act[r].at]) = r
      BY <2>2 DEF LockOK
    <3>2. act[r].at # at
      BY <2>2, <3>1
    <3> QED BY <1>3, <1>4, <1>5, <2>2, <3>2 DEF LockOK, OthersStay
  <2>3. CASE lock = {p} \/ lock = {}
    BY <1>3, <1>5, <2>1, <2>3 DEF LockOK, OthersStay
  <2>4. CASE \E r \in Requests : r # p /\ lock = {r}
    BY <1>5, <2>1, <2>2, <2>4 DEF LockOK, OthersStay
  <2> QED BY <2>3, <2>4 DEF LockOK
<1> QED BY <1>3, <1>4, <1>6, <1>7 DEF QueuesKept, QueuesOK, AccountTypes

(* A request comes to the end of a queue.                                  *)
LEMMA QueueGrows ==
    ASSUME AccountTypes, QueuesOK, LockOK, NEW p \in Requests, NEW s \in Servers,
           ~ Waits(p), OthersStay(p), lock' = lock,
           act'[p].step = "waiting", act'[p].at = s,
           turns' = [turns EXCEPT ![s] = Append(@, p)]
    PROVE  QueuesKept
<1> DEFINE q == turns[s]
<1>1. q \in Seq(Requests) /\ turns \in [Servers -> Seq(Requests)] /\ Len(q) \in Nat
  BY DEF AccountTypes
<1>2. /\ Append(q, p) \in Seq(Requests)
      /\ Len(Append(q, p)) = Len(q) + 1
      /\ \A i \in 1..Len(q) : Append(q, p)[i] = q[i]
      /\ Append(q, p)[Len(q) + 1] = p
      /\ Append(q, p) # <<>>
  BY <1>1, AppendProperties
<1>3. /\ turns' \in [Servers -> Seq(Requests)] /\ turns'[s] = Append(q, p)
      /\ \A t \in Servers : t # s => turns'[t] = turns[t]
  BY <1>1, <1>2
<1>4. \A t \in Servers : \A i \in 1..Len(turns[t]) : turns[t][i] # p /\ turns[t][i] \in Requests
  <2> TAKE t \in Servers
  <2>1. turns[t] \in Seq(Requests)
    BY <1>1
  <2> QED BY <2>1 DEF QueuesOK, QueueOK
<1>5. ASSUME NEW t \in Servers PROVE QueueOK(t)'
  <2>1. CASE t # s
    BY <1>3, <1>4, <2>1 DEF QueuesOK, QueueOK, Waits, OthersStay
  <2>2. CASE t = s
    <3>1. \A i \in 1..Len(Append(q, p)) : i \in 1..Len(q) \/ i = Len(q) + 1
      BY <1>1, <1>2
    <3>2. ASSUME NEW i \in 1..Len(Append(q, p))
          PROVE  /\ act'[Append(q, p)[i]].step \in Holding \cup {"waiting"}
                 /\ act'[Append(q, p)[i]].at = s
                 /\ \A j \in 1..Len(Append(q, p)) : Append(q, p)[i] = Append(q, p)[j] => i = j
      <4>1. CASE i \in 1..Len(q)
        BY <1>2, <1>4, <3>1, <4>1 DEF QueuesOK, QueueOK, Waits, OthersStay
      <4>2. CASE i = Len(q) + 1
        BY <1>2, <1>4, <3>1, <4>2 DEF Waits
      <4> QED BY <3>1, <4>1, <4>2
    <3> QED BY <1>3, <2>2, <3>2 DEF QueueOK, Waits
  <2> QED BY <2>1, <2>2
<1>6. ASSUME NEW r \in Requests, lock = {r}
      PROVE  /\ r # p /\ act'[r] = act[r]
             /\ turns'[act[r].at] # <<>> /\ Head(turns'[act[r].at]) = r
  <2>1. r # p /\ turns[act[r].at] # <<>> /\ Head(turns[act[r].at]) = r
    BY <1>6 DEF LockOK, Waits
  <2>2. CASE act[r].at # s
    <3>1. turns'[act[r].at] = turns[act[r].at]
      BY <1>1, <2>2
    <3> QED BY <2>1, <3>1 DEF OthersStay
  <2>3. CASE act[r].at = s
    <3>1. Head(q) = q[1] /\ 1 \in 1..Len(q)
      BY <1>1, <2>1, <2>3, TailOf
    <3>2. Head(Append(q, p)) = Append(q, p)[1]
      BY <1>2, TailOf
    <3> QED BY <1>2, <1>3, <2>1, <2>3, <3>1, <3>2 DEF OthersStay
  <2> QED BY <2>2, <2>3
<1>7. LockOK'
  <2>1. "waiting" \notin Holding
    BY DEF Holding
  <2>2. act[p].step \notin Holding
    BY DEF Waits
  <2> QED BY <1>6, <2>1, <2>2 DEF LockOK, OthersStay
<1> QED BY <1>3, <1>5, <1>7 DEF QueuesKept, QueuesOK, AccountTypes

(* The head of a queue is given the lock.                                  *)
LEMMA QueueTakes ==
    ASSUME AccountTypes, QueuesOK, LockOK, NEW p \in Requests, TakeLock(p)
    PROVE  QueuesKept
<1>1. /\ turns' = turns /\ lock = {} /\ lock' = {p} /\ Goes(p, "still")
      /\ act[p].step = "waiting" /\ turns[act[p].at] # <<>> /\ Head(turns[act[p].at]) = p
  BY DEF TakeLock, Heads
<1>2. "still" \in Steps /\ "still" \in Holding /\ "waiting" \notin Holding
  BY DEF Steps, Holding
<1>3. OthersStay(p) /\ SameRequest(p) /\ act'[p].step = "still"
  BY <1>1, <1>2, GoesOn DEF AccountTypes
<1>4. QueuesOK'
  <2> SUFFICES ASSUME NEW s \in Servers PROVE QueueOK(s)'
    BY DEF QueuesOK
  <2>1. turns[s] \in Seq(Requests)
    BY DEF AccountTypes
  <2>2. \A i \in 1..Len(turns[s]) : turns[s][i] \in Requests
    BY <2>1
  <2> QED BY <1>1, <1>2, <1>3, <2>2 DEF QueuesOK, QueueOK, OthersStay, Waits, SameRequest
<1>5. LockOK'
  BY <1>1, <1>2, <1>3 DEF LockOK, OthersStay, SameRequest
<1> QED BY <1>1, <1>4, <1>5 DEF QueuesKept, AccountTypes

-----------------------------------------------------------------------------
(* The requests and the claims.                                            *)

(* Nobody who is signed in has a claim under way.                           *)
LEMMA SignedInSettled ==
    ASSUME ActsOK, NEW t \in SignedIn
    PROVE  t \in Known /\ Settled(t)
  BY DEF SignedIn, Settled, Inserted, ActsOK, ActOK, ClaimSteps

(* No account changes, and no claim of an inserted account begins or ends. *)
LEMMA ActsStay ==
    ASSUME ActsOK, ClaimsOK, UNCHANGED <<fresh, account, claimed, stopped>>,
           SignedIn \subseteq SignedIn',
           NEW p \in Requests, OthersStay(p), ~ Inserted(p), ~ Inserted(p)', ActOK(p)'
    PROVE  ActsOK' /\ ClaimsOK'
<1>1. Known' = Known
  BY DEF Known
<1>2. \A t : Administers(t)' <=> Administers(t)
  BY DEF Administers
<1>3. \A q \in Requests : Inserted(q)' <=> Inserted(q)
  BY DEF Inserted, OthersStay
<1>4. \A q \in Requests : Inserted(q) => act'[q] = act[q]
  BY DEF OthersStay
<1>5. \A t : Settled(t)' <=> Settled(t)
  BY <1>3, <1>4 DEF Settled
<1>6. ClaimsOK'
  BY <1>1, <1>2, <1>3, <1>4, <1>5 DEF ClaimsOK
<1>7. ASSUME NEW q \in Requests, q # p PROVE ActOK(q)'
  <2>1. ActOK(q) /\ act'[q] = act[q]
    BY <1>7 DEF ActsOK, OthersStay
  <2> QED BY <1>2, <2>1 DEF ActOK, Waits
<1> QED BY <1>6, <1>7 DEF ActsOK

(* What is signed in stays so while accounts stay and no claim begins.     *)
LEMMA SignedInStays ==
    ASSUME Known \subseteq Known', NEW p \in Requests, OthersStay(p),
           act'[p].kind = "claim" => act[p].kind = "claim" /\ act'[p].target = act[p].target
    PROVE  SignedIn \subseteq SignedIn'
  BY DEF SignedIn, OthersStay

(* Whether somebody administers the install after the step.                *)
WillAdminister(t) == account'[t].role = "admin" /\ ~ account'[t].banned

(* The change an act in its turn makes leaves its caller an administrator. *)
LEMMA Written ==
    ASSUME AccountTypes, ActsOK, NEW p \in Requests,
           act[p].step \in {"write", "library"}, act[p].target \in Known,
           account' = [account EXCEPT ![act[p].target] = Becomes(p)]
    PROVE  /\ account' \in [Accounts -> Person]
           /\ Known' = Known
           /\ WillAdminister(act[p].by)
<1> DEFINE t == act[p].target
           by == act[p].by
<1>1. /\ account \in [Accounts -> Person]
      /\ t \in Accounts /\ account[t] \in Person /\ account[t].role # "none"
      /\ by \in Accounts /\ account[by] \in Person
      /\ Waits(p) /\ act[p].kind \in AccountKinds /\ Administers(by)
      /\ t = by => act[p].kind \in {"enable", "admin"}
  BY DEF AccountTypes, ActsOK, ActOK, Waits, Holding, Known, SignedIn
<1>2. \A had \in Person :
        /\ \E new \in Person : new = [had EXCEPT !.banned = TRUE] /\ new.role = had.role
        /\ \E new \in Person : /\ new = [had EXCEPT !.banned = FALSE]
                               /\ new.role = had.role /\ ~ new.banned
        /\ \A role \in {"admin", "analyst"} :
              \E new \in Person : /\ new = [had EXCEPT !.role = role]
                                  /\ new.role = role /\ new.banned = had.banned
  <2> TAKE had \in Person
  <2>1. /\ [had EXCEPT !.banned = TRUE] \in Person
        /\ [had EXCEPT !.banned = TRUE].role = had.role
    BY DEF Person
  <2>2. /\ [had EXCEPT !.banned = FALSE] \in Person
        /\ [had EXCEPT !.banned = FALSE].role = had.role
        /\ ~ [had EXCEPT !.banned = FALSE].banned
    BY DEF Person
  <2>3. ASSUME NEW role \in {"admin", "analyst"}
        PROVE  /\ [had EXCEPT !.role = role] \in Person
               /\ [had EXCEPT !.role = role].role = role
               /\ [had EXCEPT !.role = role].banned = had.banned
    BY DEF Person
  <2> QED BY <2>1, <2>2, <2>3, Zenon
<1>3. PICK new \in Person :
        /\ new = Becomes(p) /\ new.role # "none"
        /\ act[p].kind = "enable" => new.role = account[t].role /\ ~ new.banned
        /\ act[p].kind = "admin" => new.role = "admin" /\ new.banned = account[t].banned
  <2>1. CASE act[p].kind = "disable"
    <3>1. PICK new \in Person : new = [account[t] EXCEPT !.banned = TRUE] /\ new.role = account[t].role
      BY <1>1, <1>2
    <3>2. Becomes(p) = new
      BY <2>1, <3>1, Zenon DEF Becomes
    <3> QED BY <1>1, <2>1, <3>1, <3>2
  <2>2. CASE act[p].kind = "enable"
    <3>1. PICK new \in Person : /\ new = [account[t] EXCEPT !.banned = FALSE]
                                /\ new.role = account[t].role /\ ~ new.banned
      BY <1>1, <1>2
    <3>2. Becomes(p) = new
      BY <2>2, <3>1 DEF Becomes
    <3> QED BY <1>1, <2>2, <3>1, <3>2
  <2>3. CASE act[p].kind \in {"admin", "analyst"}
    <3>1. PICK new \in Person : /\ new = [account[t] EXCEPT !.role = act[p].kind]
                                /\ new.role = act[p].kind /\ new.banned = account[t].banned
      BY <1>1, <1>2, <2>3
    <3>2. Becomes(p) = new
      BY <2>3, <3>1 DEF Becomes
    <3> QED BY <2>3, <3>1, <3>2
  <2> QED BY <1>1, <2>1, <2>2, <2>3 DEF AccountKinds
<1>4. /\ account' \in [Accounts -> Person] /\ account'[t] = new
      /\ \A u \in Accounts : u # t => account'[u] = account[u]
  BY <1>1, <1>3
<1>5. Known' = Known
  BY <1>1, <1>3, <1>4 DEF Known
<1>6. CASE by = t
  BY <1>1, <1>3, <1>4, <1>5, <1>6 DEF Administers, WillAdminister
<1>7. CASE by # t
  BY <1>1, <1>4, <1>5, <1>7 DEF Administers, WillAdminister
<1> QED BY <1>4, <1>5, <1>6, <1>7

(* A change by somebody who administers the install after it, too.         *)
LEMMA ChangeKeeps ==
    ASSUME ActsOK, ClaimsOK, LockOK, UNCHANGED <<fresh, claimed, stopped>>,
           NEW p \in Requests, act[p].step \in Holding, OthersStay(p),
           Known' = Known, WillAdminister(act[p].by),
           act'[p].kind # "claim", ActOK(p)'
    PROVE  ActsOK' /\ ClaimsOK'
<1>1. SignedIn \subseteq SignedIn'
  BY SignedInStays
<1>2. ~ Inserted(p) /\ act[p].by \in SignedIn
  BY DEF Inserted, Holding, ActsOK, ActOK, Waits
<1>3. ~ Inserted(p)'
  BY DEF Inserted, ActOK, ClaimSteps
<1>4. \A q \in Requests : Inserted(q)' <=> Inserted(q)
  BY <1>2, <1>3 DEF Inserted, OthersStay
<1>5. \A q \in Requests : Inserted(q) => act'[q] = act[q]
  BY <1>2 DEF OthersStay
<1>6. \A t : Settled(t)' <=> Settled(t)
  BY <1>4, <1>5 DEF Settled
<1>7. act[p].by \in Accounts /\ Settled(act[p].by)
  BY <1>2, SignedInSettled DEF Known
<1>8. ClaimsOK'
  <2>1. \E t \in Accounts : Administers(t)' /\ Settled(t)'
    <3>1. PICK by \in Accounts : by = act[p].by
      BY <1>7
    <3>2. Administers(by)' /\ Settled(by)'
      BY <1>6, <1>7, <3>1 DEF Administers, WillAdminister
    <3> QED BY <3>2
  <2> QED BY <1>4, <1>5, <1>6, <2>1 DEF ClaimsOK
<1>9. ASSUME NEW q \in Requests, q # p PROVE ActOK(q)'
  <2>1. ActOK(q) /\ act'[q] = act[q] /\ act[q].step \notin Holding
    BY <1>9 DEF ActsOK, OthersStay, LockOK
  <2> QED BY <1>1, <2>1 DEF ActOK, Waits, Holding
<1> QED BY <1>8, <1>9 DEF ActsOK

(* A claim's account is inserted.                                          *)
LEMMA InsertKeeps ==
    ASSUME AccountTypes, ActsOK, ClaimsOK, LockOK, NEW p \in Requests,
           act[p].step = "insert", act[p].target \notin Known, Goes(p, "take"),
           account' = [account EXCEPT ![act[p].target] = [role |-> act[p].role, banned |-> FALSE]],
           UNCHANGED <<fresh, claimed, stopped>>
    PROVE  account' \in [Accounts -> Person] /\ ActsOK' /\ ClaimsOK'
<1> DEFINE t == act[p].target
<1>1. "take" \in Steps
  BY DEF Steps
<1>2. /\ act' \in [Requests -> Acts] /\ OthersStay(p) /\ SameRequest(p) /\ act'[p].step = "take"
  BY <1>1, GoesOn DEF AccountTypes
<1>3. t \in Accounts /\ act[p].kind = "claim" /\ act[p].role \in {"admin", "analyst"}
      /\ account[t].role = "none"
  <2>1. act[p] \in Acts
    BY DEF AccountTypes
  <2>2. act[p].role \in {"", "admin", "analyst"}
    BY <2>1 DEF Acts
  <2> QED BY <2>2 DEF ActsOK, ActOK, ClaimSteps, Known
<1>4. PICK new \in Person : /\ new = [role |-> act[p].role, banned |-> FALSE]
                            /\ new.role # "none" /\ ~ new.banned
  <2>1. \A role \in {"admin", "analyst"} : \E new \in Person :
          new = [role |-> role, banned |-> FALSE] /\ new.role # "none" /\ ~ new.banned
    <3> TAKE role \in {"admin", "analyst"}
    <3>1. [role |-> role, banned |-> FALSE] \in Person
      BY DEF Person
    <3> QED BY <3>1
  <2> QED BY <1>3, <2>1
<1>5. /\ account' \in [Accounts -> Person] /\ account'[t] = new
      /\ \A u \in Accounts : u # t => account'[u] = account[u]
  BY <1>3, <1>4 DEF AccountTypes
<1>6. Known' = Known \cup {t}
  BY <1>3, <1>4, <1>5 DEF Known
<1>7. /\ \A q \in Requests : Inserted(q)' <=> Inserted(q) \/ q = p
      /\ \A q \in Requests : Inserted(q) => q # p /\ act'[q] = act[q]
      /\ act'[p].target = t
  BY <1>2 DEF Inserted, OthersStay, SameRequest
<1>8. \A u : Settled(u)' <=> Settled(u) /\ u # t
  BY <1>7 DEF Settled
<1>9. \A u \in Accounts : u # t => (Administers(u)' <=> Administers(u))
  BY <1>5 DEF Administers
<1>10. ~ Administers(t)
  BY <1>3 DEF Administers
<1>11. SignedIn \subseteq SignedIn'
  BY <1>2, <1>6, SignedInStays DEF SameRequest
<1>12. ActsOK'
  <2> SUFFICES ASSUME NEW q \in Requests PROVE ActOK(q)'
    BY DEF ActsOK
  <2>1. ActOK(q)
    BY DEF ActsOK
  <2>2. CASE q = p
    BY <1>2, <1>3, <2>2 DEF ActOK, Waits, Holding, ClaimSteps, SameRequest
  <2>3. CASE q # p
    <3>1. act'[q] = act[q]
      BY <1>2, <2>3 DEF OthersStay
    <3>2. Waits(q) => act[q].by \in Accounts /\ act[q].by # t
      BY <1>3, <2>1 DEF ActOK, SignedIn, Known
    <3>3. Waits(q) => (Administers(act[q].by) => WillAdminister(act[q].by))
      BY <1>5, <3>2 DEF Administers, WillAdminister
    <3> QED BY <1>11, <2>1, <3>1, <3>3 DEF ActOK, Waits, Administers, WillAdminister
  <2> QED BY <2>2, <2>3
<1>13. ClaimsOK'
  <2>1. \A q \in Requests : Inserted(q) => act[q].target \in Known /\ act[q].target # t
    BY <1>3 DEF ClaimsOK, Known
  <2>2. \A q \in Requests : Inserted(q)' => act'[q].target \in Known'
    BY <1>6, <1>7, <2>1
  <2>3. \A q, r \in Requests :
           q # r /\ Inserted(q)' /\ Inserted(r)' => act'[q].target # act'[r].target
    BY <1>7, <2>1 DEF ClaimsOK
  <2>4. claimed' \/ (\E u \in Accounts : account'[u].banned)
           => \E u \in Accounts : Administers(u)' /\ Settled(u)'
    <3>1. SUFFICES ASSUME claimed \/ (\E u \in Accounts : account[u].banned)
                   PROVE  \E u \in Accounts : Administers(u)' /\ Settled(u)'
      BY <1>4, <1>5
    <3>2. PICK u \in Accounts : Administers(u) /\ Settled(u)
      BY <3>1 DEF ClaimsOK
    <3> QED BY <1>8, <1>9, <1>10, <3>2
  <2>5. fresh' /\ ~ stopped' =>
          /\ ~ claimed' => \A u \in Known' : ~ Settled(u)'
          /\ claimed' => \E w \in Known' :
                            Settled(w)' /\ \A u \in Known' : u # w => ~ Settled(u)'
    <3>1. t \notin Known
      OBVIOUS
    <3> QED BY <1>6, <1>8, <3>1 DEF ClaimsOK
  <2> QED BY <2>2, <2>3, <2>4, <2>5 DEF ClaimsOK
<1> QED BY <1>5, <1>12, <1>13

(* A claim is won: the install has its administrator.                      *)
LEMMA TakeKeeps ==
    ASSUME AccountTypes, ActsOK, ClaimsOK, LockOK, NEW p \in Requests,
           act[p].step = "take", ~ claimed, claimed', act' = [act EXCEPT ![p] = NoAct],
           account' = [account EXCEPT ![act[p].target].role = "admin"],
           UNCHANGED <<fresh, stopped>>
    PROVE  account' \in [Accounts -> Person] /\ ActsOK' /\ ClaimsOK'
<1> DEFINE t == act[p].target
<1>1. OthersStay(p) /\ act'[p].step = "idle" /\ act'[p].kind = ""
  BY Answered DEF AccountTypes
<1>2. /\ Inserted(p) /\ act[p].kind = "claim" /\ t \in Accounts /\ t \in Known
  BY DEF Inserted, ActsOK, ActOK, ClaimSteps, ClaimsOK
<1>3. PICK new \in Person : /\ new = [account[t] EXCEPT !.role = "admin"]
                            /\ new.role = "admin" /\ new.banned = account[t].banned
  <2>1. \A had \in Person : \E new \in Person :
          new = [had EXCEPT !.role = "admin"] /\ new.role = "admin" /\ new.banned = had.banned
    <3> TAKE had \in Person
    <3>1. /\ [had EXCEPT !.role = "admin"] \in Person
          /\ [had EXCEPT !.role = "admin"].role = "admin"
          /\ [had EXCEPT !.role = "admin"].banned = had.banned
      BY DEF Person
    <3> QED BY <3>1, Zenon
  <2>2. account[t] \in Person
    BY <1>2 DEF AccountTypes
  <2> QED BY <2>1, <2>2
<1>4. account' = [account EXCEPT ![t] = new]
  BY <1>3, Zenon
<1>5. /\ account' \in [Accounts -> Person] /\ account'[t] = new
      /\ \A u \in Accounts : u # t => account'[u] = account[u]
  BY <1>2, <1>4 DEF AccountTypes
<1>6. Known' = Known
  BY <1>2, <1>3, <1>5 DEF Known
<1>7. /\ ~ Inserted(p)'
      /\ \A q \in Requests : q # p => (Inserted(q)' <=> Inserted(q)) /\ act'[q] = act[q]
  BY <1>1 DEF Inserted, OthersStay
<1>8. \A q \in Requests : q # p /\ Inserted(q) => act[q].target # t
  BY <1>2 DEF ClaimsOK
<1>9. \A u : Settled(u)' <=> Settled(u) \/ u = t
  BY <1>2, <1>7, <1>8 DEF Settled
<1>10. SignedIn \subseteq SignedIn'
  BY <1>1, <1>6, SignedInStays
<1>11. ActsOK'
  <2> SUFFICES ASSUME NEW q \in Requests PROVE ActOK(q)'
    BY DEF ActsOK
  <2>1. ActOK(q)
    BY DEF ActsOK
  <2>2. CASE q = p
    BY <1>1, <2>2 DEF ActOK, Waits, Holding, ClaimSteps
  <2>3. CASE q # p
    <3>1. act'[q] = act[q]
      BY <1>1, <2>3 DEF OthersStay
    <3>2. Waits(q) => act[q].by \in Accounts /\ act[q].by # t
      BY <1>2, <2>1 DEF ActOK, SignedIn, Known
    <3>3. Waits(q) => (Administers(act[q].by) => WillAdminister(act[q].by))
      BY <1>5, <3>2 DEF Administers, WillAdminister
    <3> QED BY <1>10, <2>1, <3>1, <3>3 DEF ActOK, Waits, Administers, WillAdminister
  <2> QED BY <2>2, <2>3
<1>12. ClaimsOK'
  <2>1. \A q \in Requests : Inserted(q)' => act'[q].target \in Known'
    BY <1>6, <1>7 DEF ClaimsOK
  <2>2. \A q, r \in Requests :
           q # r /\ Inserted(q)' /\ Inserted(r)' => act'[q].target # act'[r].target
    BY <1>7 DEF ClaimsOK
  <2>3. \E u \in Accounts : Administers(u)' /\ Settled(u)'
    <3>1. CASE account[t].banned
      <4>1. PICK u \in Accounts : Administers(u) /\ Settled(u)
        BY <1>2, <3>1 DEF ClaimsOK
      <4>2. u # t
        BY <1>2, <4>1 DEF Settled
      <4> QED BY <1>5, <1>9, <4>1, <4>2 DEF Administers
    <3>2. CASE ~ account[t].banned
      BY <1>2, <1>3, <1>5, <1>9, <3>2 DEF Administers
    <3> QED BY <3>1, <3>2
  <2>4. fresh' /\ ~ stopped' =>
          \E w \in Known' : Settled(w)' /\ \A u \in Known' : u # w => ~ Settled(u)'
    BY <1>2, <1>6, <1>9 DEF ClaimsOK
  <2> QED BY <2>1, <2>2, <2>3, <2>4 DEF ClaimsOK
<1> QED BY <1>5, <1>11, <1>12

(* A claim that lost takes its account back.                               *)
LEMMA TakeBackKeeps ==
    ASSUME AccountTypes, ActsOK, ClaimsOK, LockOK, NEW p \in Requests, TakeBack(p)
    PROVE  account' \in [Accounts -> Person] /\ ActsOK' /\ ClaimsOK'
<1> DEFINE t == act[p].target
<1>0. /\ act[p].step = "back" /\ act' = [act EXCEPT ![p] = NoAct]
      /\ account' = [account EXCEPT ![t] = Nobody]
      /\ UNCHANGED <<fresh, claimed, stopped>>
  BY DEF TakeBack, Refused
<1>1. OthersStay(p) /\ act'[p].step = "idle" /\ act'[p].kind = ""
  BY <1>0, Answered DEF AccountTypes
<1>2. /\ Inserted(p) /\ act[p].kind = "claim" /\ t \in Accounts
  BY <1>0 DEF Inserted, ActsOK, ActOK, ClaimSteps
<1>3. Nobody \in Person /\ Nobody.role = "none" /\ ~ Nobody.banned
  BY DEF Nobody, Person
<1>5. /\ account' \in [Accounts -> Person] /\ account'[t] = Nobody
      /\ \A u \in Accounts : u # t => account'[u] = account[u]
  BY <1>0, <1>2, <1>3 DEF AccountTypes
<1>6. Known' = Known \ {t}
  BY <1>2, <1>3, <1>5 DEF Known
<1>7. /\ ~ Inserted(p)'
      /\ \A q \in Requests : q # p => (Inserted(q)' <=> Inserted(q)) /\ act'[q] = act[q]
  BY <1>1 DEF Inserted, OthersStay
<1>8. \A q \in Requests : q # p /\ Inserted(q) => act[q].target # t
  BY <1>2 DEF ClaimsOK
<1>9. \A u : u # t => (Settled(u)' <=> Settled(u))
  BY <1>2, <1>7, <1>8 DEF Settled
<1>a. ~ Settled(t)
  BY <1>2 DEF Settled
<1>10. SignedIn \subseteq SignedIn'
  BY <1>1, <1>2, <1>6 DEF SignedIn, OthersStay
<1>11. ActsOK'
  <2> SUFFICES ASSUME NEW q \in Requests PROVE ActOK(q)'
    BY DEF ActsOK
  <2>1. ActOK(q)
    BY DEF ActsOK
  <2>2. CASE q = p
    BY <1>1, <2>2 DEF ActOK, Waits, Holding, ClaimSteps
  <2>3. CASE q # p
    <3>1. act'[q] = act[q]
      BY <1>1, <2>3 DEF OthersStay
    <3>2. Waits(q) => act[q].by \in Accounts /\ act[q].by # t
      BY <1>2, <2>1 DEF ActOK, SignedIn, Known
    <3>3. Waits(q) => (Administers(act[q].by) => WillAdminister(act[q].by))
      BY <1>5, <3>2 DEF Administers, WillAdminister
    <3> QED BY <1>10, <2>1, <3>1, <3>3 DEF ActOK, Waits, Administers, WillAdminister
  <2> QED BY <2>2, <2>3
<1>12. ClaimsOK'
  <2>1. \A q \in Requests : Inserted(q)' => act'[q].target \in Known'
    BY <1>6, <1>7, <1>8 DEF ClaimsOK
  <2>2. \A q, r \in Requests :
           q # r /\ Inserted(q)' /\ Inserted(r)' => act'[q].target # act'[r].target
    BY <1>7 DEF ClaimsOK
  <2>3. claimed' \/ (\E u \in Accounts : account'[u].banned)
           => \E u \in Accounts : Administers(u)' /\ Settled(u)'
    <3>1. SUFFICES ASSUME claimed \/ (\E u \in Accounts : account[u].banned)
                   PROVE  \E u \in Accounts : Administers(u)' /\ Settled(u)'
      BY <1>0, <1>3, <1>5
    <3>2. PICK u \in Accounts : Administers(u) /\ Settled(u)
      BY <3>1 DEF ClaimsOK
    <3>3. u # t
      BY <1>a, <3>2
    <3> QED BY <1>5, <1>9, <3>2, <3>3 DEF Administers
  <2>4. fresh' /\ ~ stopped' =>
          /\ ~ claimed' => \A u \in Known' : ~ Settled(u)'
          /\ claimed' => \E w \in Known' :
                            Settled(w)' /\ \A u \in Known' : u # w => ~ Settled(u)'
    BY <1>0, <1>6, <1>9, <1>a DEF ClaimsOK
  <2> QED BY <2>1, <2>2, <2>3, <2>4 DEF ClaimsOK
<1> QED BY <1>5, <1>11, <1>12

-----------------------------------------------------------------------------
(* A server stops.                                                         *)

LEMMA StopActs ==
    ASSUME AccountTypes, NEW s \in Servers, Stop(s)
    PROVE  /\ act' \in [Requests -> Acts]
           /\ \A p \in Requests :
                 /\ act[p].at = s => act'[p].step = "idle" /\ act'[p].kind = ""
                 /\ act[p].at # s => act'[p] = act[p]
<1>1. act' = [p \in Requests |-> IF p \in At(s) THEN NoAct ELSE act[p]]
  BY DEF Stop
<1> QED BY <1>1, NoActFacts DEF At, AccountTypes

LEMMA StopQueues ==
    ASSUME AccountTypes, QueuesOK, LockOK, NEW s \in Servers, Stop(s)
    PROVE  QueuesKept
<1>1. /\ turns' = [turns EXCEPT ![s] = <<>>] /\ lock' = lock \ At(s)
  BY DEF Stop
<1>2. \A p \in Requests :
        /\ act[p].at = s => act'[p].step = "idle" /\ act'[p].kind = ""
        /\ act[p].at # s => act'[p] = act[p]
  BY StopActs
<1>3. /\ turns' \in [Servers -> Seq(Requests)] /\ turns'[s] = <<>>
      /\ \A t \in Servers : t # s => turns'[t] = turns[t]
  BY <1>1 DEF AccountTypes
<1>4. ASSUME NEW t \in Servers PROVE QueueOK(t)'
  <2>1. CASE t = s
    BY <1>3, <2>1 DEF QueueOK
  <2>2. CASE t # s
    <3>1. turns[t] \in Seq(Requests) /\ \A i \in 1..Len(turns[t]) : turns[t][i] \in Requests
      BY DEF AccountTypes
    <3>2. ASSUME NEW i \in 1..Len(turns[t])
          PROVE  /\ act'[turns[t][i]] = act[turns[t][i]]
                 /\ act[turns[t][i]].at = t /\ Waits(turns[t][i])
                 /\ \A j \in 1..Len(turns[t]) : turns[t][i] = turns[t][j] => i = j
      <4>1. /\ act[turns[t][i]].at = t /\ Waits(turns[t][i])
            /\ \A j \in 1..Len(turns[t]) : turns[t][i] = turns[t][j] => i = j
        BY DEF QueuesOK, QueueOK
      <4>2. turns[t][i] \in Requests
        BY <3>1
      <4> QED BY <1>2, <2>2, <4>1, <4>2
    <3>3. turns'[t] = turns[t]
      BY <1>3, <2>2
    <3> QED BY <3>2, <3>3 DEF QueueOK, Waits
  <2> QED BY <2>1, <2>2
<1>5. "idle" \notin Holding
  BY DEF Holding
<1>6. LockOK'
  <2>1. CASE lock = {}
    BY <1>1, <1>2, <1>5, <2>1 DEF LockOK
  <2>2. ASSUME NEW p \in Requests, lock = {p}, act[p].at = s PROVE LockOK'
    <3>1. lock' = {}
      BY <1>1, <2>2 DEF At
    <3> QED BY <1>2, <1>5, <2>2, <3>1 DEF LockOK
  <2>3. ASSUME NEW p \in Requests, lock = {p}, act[p].at # s PROVE LockOK'
    <3>1. lock' = {p} /\ act'[p] = act[p]
      BY <1>1, <1>2, <2>3 DEF At
    <3>2. turns'[act[p].at] = turns[act[p].at]
      BY <1>1, <2>3 DEF AccountTypes
    <3>3. /\ act[p].step \in Holding
          /\ turns[act[p].at] # <<>> /\ Head(turns[act[p].at]) = p
      BY <2>3 DEF LockOK
    <3>4. \A q \in Requests : q # p => act'[q].step \notin Holding /\ lock' # {q}
      BY <1>2, <1>5, <2>3, <3>1 DEF LockOK
    <3> QED BY <3>1, <3>2, <3>3, <3>4 DEF LockOK
  <2> QED BY <2>1, <2>2, <2>3 DEF LockOK
<1>7. lock' \in SUBSET Requests
  BY <1>1 DEF AccountTypes
<1> QED BY <1>3, <1>4, <1>6, <1>7 DEF QueuesKept, QueuesOK

LEMMA StopClaims ==
    ASSUME AccountTypes, ActsOK, ClaimsOK, NEW s \in Servers, Stop(s)
    PROVE  ActsOK' /\ ClaimsOK'
<1>0. account' = account /\ claimed' = claimed /\ stopped'
  BY DEF Stop
<1>1. \A p \in Requests :
        /\ act[p].at = s => act'[p].step = "idle" /\ act'[p].kind = ""
        /\ act[p].at # s => act'[p] = act[p]
  BY StopActs
<1>2. Known' = Known /\ (\A t : Administers(t)' <=> Administers(t))
  BY <1>0 DEF Known, Administers
<1>3. SignedIn \subseteq SignedIn'
  BY <1>1, <1>2 DEF SignedIn
<1>4. ASSUME NEW p \in Requests PROVE ActOK(p)'
  <2>1. ActOK(p)
    BY DEF ActsOK
  <2>2. CASE act[p].at = s
    <3>1. act'[p].step = "idle" /\ act'[p].kind = ""
      BY <1>1, <2>2
    <3> QED BY <3>1 DEF ActOK, Waits, Holding, ClaimSteps
  <2>3. CASE act[p].at # s
    <3>1. act'[p] = act[p]
      BY <1>1, <2>3
    <3>2. Administers(act[p].by) => WillAdminister(act[p].by)
      BY <1>0 DEF Administers, WillAdminister
    <3> QED BY <1>3, <2>1, <3>1, <3>2 DEF ActOK, Waits, Administers, WillAdminister
  <2> QED BY <2>2, <2>3
<1>5. \A p \in Requests : Inserted(p)' => Inserted(p) /\ act'[p] = act[p]
  BY <1>1 DEF Inserted
<1>6. \A t : Settled(t) => Settled(t)'
  BY <1>5 DEF Settled
<1>7. ClaimsOK'
  BY <1>0, <1>2, <1>5, <1>6 DEF ClaimsOK
<1> QED BY <1>4, <1>7 DEF ActsOK

-----------------------------------------------------------------------------
(* The lines of the acts.                                                  *)

LEMMA TrailStutters == TrailInv /\ UNCHANGED trailVars => TrailInv'
  BY DEF TrailInv, trailVars, TrailTypes, RoundsOK, RoundOK, Held, Covered, DeliveredBehind,
         SweepsOK, SweepOK, SweepsApart, GoneOK

(* No act opens a line, and those open keep theirs.                        *)
LEMMA LinesStay ==
    ASSUME LinesOK, Len(trail) \in Nat, Len(trail') \in Nat, Len(trail) <= Len(trail'),
           \A p \in Requests : act'[p].step = "open" =>
              /\ act[p].step = "open" /\ act'[p].line = act[p].line
              /\ trail'[act[p].line] = trail[act[p].line]
    PROVE  LinesOK'
<1>1. \A p \in Requests : act'[p].step = "open" =>
        /\ act'[p].line \in 1..Len(trail')
        /\ trail'[act'[p].line].state = "open"
        /\ trail'[act'[p].line].says \notin {"pruned", "other"}
  BY DEF LinesOK
<1> QED BY <1>1 DEF LinesOK

LEMMA RecordOpen ==
    ASSUME NEW old \in Acts, NEW n \in Nat
    PROVE  \E new \in Acts :
              /\ new = [old EXCEPT !.step = "open", !.line = n]
              /\ new.step = "open" /\ new.kind = old.kind /\ new.at = old.at
              /\ new.by = old.by /\ new.target = old.target /\ new.line = n
<1>1. "open" \in Steps
  BY DEF Steps
<1>2. [old EXCEPT !.step = "open", !.line = n] \in Acts
  BY <1>1 DEF Acts
<1> WITNESS [old EXCEPT !.step = "open", !.line = n] \in Acts
<1> QED BY DEF Acts

LEMMA RecordKeeps ==
    ASSUME TrailInv, AccountTypes, LinesOK, ActsOK, NEW p \in Requests, Record(p)
    PROVE  /\ TrailInv' /\ LinesOK' /\ act' \in [Requests -> Acts]
           /\ OthersStay(p) /\ SameRequest(p) /\ act'[p].step = "open"
<1> DEFINE line == Len(trail) + 1
<1>0. /\ TrailTypes /\ Len(trail) \in Nat /\ SweepsOK
      /\ act \in [Requests -> Acts] /\ act[p].step = "line"
  BY DEF TrailInv, TrailTypes, AccountTypes, Record
<1>1. act[p].kind \in AccountKinds /\ act[p].target \in Accounts
  BY <1>0 DEF ActsOK, ActOK, Waits, Holding
<1>2. /\ act[p].kind \in Says /\ act[p].kind \notin {"pruned", "other"}
      /\ act[p].target \in Accounts \cup {""}
  BY <1>1 DEF AccountKinds, Says
<1>u. UNCHANGED <<shipped, room, cursor, taken, round, sweep>>
  BY DEF Record
<1>t. trail' = Numbered(act[p].target, act[p].kind)
  BY DEF Record
<1>3. /\ Quiet
      /\ Len(trail') = Len(trail) + 1
      /\ trail'[line].says = act[p].kind /\ trail'[line].state = "open"
      /\ \A n \in 1..Len(trail) : trail'[n] = trail[n]
  BY <1>0, <1>2, <1>t, NumberedQuiet, Zenon
<1>4. TrailInv'
  <2>1. \A s \in Servers : sweep[s].step = "pruning" => sweep[s].line \in 1..Len(trail)
    BY <1>0 DEF SweepsOK, SweepOK
  <2> QED BY <1>0, <1>3, <1>u, <2>1, LinesKeep DEF TrailTypes
<1>5. /\ act' \in [Requests -> Acts] /\ OthersStay(p) /\ SameRequest(p)
      /\ act'[p].step = "open" /\ act'[p].line = line
  <2> HIDE DEF line
  <2>1. line \in Nat
    BY <1>0 DEF line
  <2>a. PICK old \in Acts : old = act[p]
    BY <1>0
  <2>3. PICK new \in Acts :
          /\ new = [old EXCEPT !.step = "open", !.line = line]
          /\ new.step = "open" /\ new.kind = old.kind /\ new.at = old.at
          /\ new.by = old.by /\ new.target = old.target /\ new.line = line
    BY <2>1, RecordOpen
  <2>4. act' = [act EXCEPT ![p] = new]
    BY <2>a, <2>3, Zenon DEF Record, line
  <2> QED BY <1>0, <2>a, <2>3, <2>4 DEF OthersStay, SameRequest
<1>6. LinesOK'
  <2>1. \A q \in Requests : q # p /\ act'[q].step = "open" =>
          /\ act[q].step = "open" /\ act'[q].line = act[q].line
          /\ act[q].line \in 1..Len(trail)
    BY <1>5 DEF LinesOK, OthersStay
  <2>2. line \in 1..Len(trail') /\ line \notin 1..Len(trail)
    BY <1>0, <1>3
  <2>3. ASSUME NEW q \in Requests, act'[q].step = "open"
        PROVE  /\ act'[q].line \in 1..Len(trail')
               /\ trail'[act'[q].line].state = "open"
               /\ trail'[act'[q].line].says \notin {"pruned", "other"}
    <3>1. CASE q = p
      BY <1>2, <1>3, <1>5, <2>2, <3>1
    <3>2. CASE q # p
      <4>1. trail'[act[q].line] = trail[act[q].line] /\ act[q].line \in 1..Len(trail')
        BY <1>0, <1>3, <2>1, <2>3, <3>2
      <4> QED BY <2>1, <2>3, <3>2, <4>1 DEF LinesOK
    <3> QED BY <3>1, <3>2
  <2>4. \A q, r \in Requests :
          q # r /\ act'[q].step = "open" /\ act'[r].step = "open" => act'[q].line # act'[r].line
    BY <1>5, <2>1, <2>2 DEF LinesOK
  <2> QED BY <2>3, <2>4 DEF LinesOK
<1> QED BY <1>4, <1>5, <1>6

LEMMA RecordedKeeps ==
    ASSUME TrailInv, AccountTypes, LinesOK, NEW p \in Requests, Recorded(p)
    PROVE  TrailInv' /\ LinesOK'
<1> DEFINE line == act[p].line
<1>0. /\ TrailTypes /\ Len(trail) \in Nat /\ SweepsOK /\ act[p].step = "open"
      /\ UNCHANGED <<shipped, room, cursor, taken, round, sweep>>
      /\ Goes(p, "library") /\ trail' \in {Stored(trail, line), Voided(trail, line)}
  BY DEF TrailInv, TrailTypes, Recorded
<1>1. /\ line \in 1..Len(trail) /\ trail[line].state = "open"
      /\ trail[line].says \notin {"pruned", "other"}
  BY <1>0 DEF LinesOK
<1>2. /\ Quiet /\ Len(trail') = Len(trail)
      /\ \A n \in 1..Len(trail) : n # line => trail'[n] = trail[n]
  BY <1>0, <1>1, EndedQuiet
<1>3. TrailInv'
  <2>1. \A s \in Servers : sweep[s].step = "pruning" =>
          sweep[s].line \in 1..Len(trail) /\ sweep[s].line # line
    BY <1>0, <1>1 DEF SweepsOK, SweepOK
  <2> QED BY <1>0, <1>2, <2>1, LinesKeep DEF TrailTypes
<1>4. LinesOK'
  <2>1. "library" \in Steps
    BY DEF Steps
  <2>2. OthersStay(p) /\ act'[p].step = "library"
    BY <1>0, <2>1, GoesOn DEF AccountTypes
  <2>3. ASSUME NEW q \in Requests, act'[q].step = "open"
        PROVE  /\ act[q].step = "open" /\ act'[q].line = act[q].line
               /\ trail'[act[q].line] = trail[act[q].line]
    <3>1. q # p /\ act'[q] = act[q]
      BY <2>2, <2>3 DEF OthersStay
    <3>2. act[q].line \in 1..Len(trail) /\ act[q].line # line
      BY <1>0, <2>3, <3>1 DEF LinesOK
    <3> QED BY <1>2, <2>3, <3>1, <3>2
  <2> QED BY <1>0, <1>2, <2>3, LinesStay
<1> QED BY <1>3, <1>4

LEMMA StopLines ==
    ASSUME TrailInv, AccountTypes, LinesOK, NEW s \in Servers, Stop(s)
    PROVE  TrailInv' /\ LinesOK'
<1> DEFINE open == {act[p].line : p \in {q \in At(s) : act[q].step = "open"}}
           pruned == IF sweep[s].step = "pruning" THEN {sweep[s].line} ELSE {}
<1>0. /\ TrailTypes /\ SweepsOK /\ trail \in Seq(Line) /\ Len(trail) \in Nat
      /\ DOMAIN trail = 1..Len(trail)
      /\ UNCHANGED <<shipped, room, cursor, taken>>
      /\ round' = [round EXCEPT ![s] = NoRound] /\ sweep' = [sweep EXCEPT ![s] = NoSweep]
  BY DEF TrailInv, TrailTypes, Stop, TrailStopped
<1>1. PICK landed \in SUBSET open :
        trail' = [n \in 1..Len(trail) |->
                    IF n \in landed THEN Stored(trail, n)[n]
                    ELSE IF n \in open \cup pruned THEN Voided(trail, n)[n]
                    ELSE trail[n]]
  BY <1>0 DEF Stop
<1>2. \A n \in open \cup pruned : n \in 1..Len(trail) /\ trail[n].state = "open"
  BY DEF LinesOK, At, SweepsOK, SweepOK, TrailInv
<1> HIDE DEF open, pruned
<1>3. ASSUME NEW n \in 1..Len(trail)
      PROVE  /\ trail'[n] \in Line
             /\ n \in open \cup pruned => Ends(n)
             /\ n \notin open \cup pruned => trail'[n] = trail[n]
  <2>1. CASE n \in landed
    <3>1. trail'[n] = Stored(trail, n)[n]
      BY <1>1, <2>1
    <3>2. n \in open \cup pruned
      BY <1>1, <2>1
    <3>3. /\ Stored(trail, n)[n] \in Line
          /\ Stored(trail, n)[n].state = "stored" /\ Stored(trail, n)[n].late = Behind(n)
          /\ Stored(trail, n)[n].says = trail[n].says
      <4>1. /\ Stored(trail, n) \in Seq(Line) /\ Len(Stored(trail, n)) = Len(trail)
            /\ Stored(trail, n)[n].state = "stored" /\ Stored(trail, n)[n].late = Behind(n)
            /\ Stored(trail, n)[n].says = trail[n].says
        BY <1>0, StoredLines
      <4>2. n \in 1..Len(Stored(trail, n))
        BY <4>1
      <4>3. Stored(trail, n)[n] \in Line
        BY <4>1, <4>2, ElementOfSeq
      <4> QED BY <4>1, <4>3
    <3> QED BY <1>2, <3>1, <3>2, <3>3 DEF Ends
  <2>2. CASE n \notin landed /\ n \in open \cup pruned
    <3>1. trail'[n] = Voided(trail, n)[n]
      BY <1>1, <2>2
    <3>2. /\ Voided(trail, n)[n] \in Line
          /\ Voided(trail, n)[n].state = "void" /\ Voided(trail, n)[n].says = trail[n].says
      BY <1>0, VoidedLines
    <3> QED BY <1>2, <2>2, <3>1, <3>2 DEF Ends
  <2>3. CASE n \notin open \cup pruned
    <3>1. n \notin landed
      BY <1>1, <2>3
    <3>2. trail'[n] = trail[n]
      BY <1>1, <2>3, <3>1
    <3> QED BY <1>0, <2>3, <3>2
  <2> QED BY <2>1, <2>2, <2>3
<1>4. trail' \in Seq(Line) /\ Len(trail') = Len(trail)
  <2>1. trail' \in [1..Len(trail) -> Line]
    BY <1>1, <1>3, Zenon
  <2> QED BY <1>0, <2>1, SeqDef, LenProperties
<1>5. Quiet
  BY <1>0, <1>3, <1>4 DEF Quiet, Longer
<1>6. NoRound \in Rounds /\ NoSweep \in Sweeps
  BY DEF NoRound, NoSweep, Rounds, Sweeps
<1>7. \A n \in pruned : sweep[s].step = "pruning" /\ n = sweep[s].line
  BY DEF pruned
<1>8. \A n \in open : \E p \in Requests :
        act[p].at = s /\ act[p].step = "open" /\ n = act[p].line
  BY DEF open, At
<1>9. TrailInv'
  <2>1. /\ round' \in [Servers -> Rounds]
        /\ \A t \in Servers : round'[t] \in {round[t], NoRound}
    BY <1>0, <1>6 DEF TrailTypes
  <2>2. /\ sweep' \in [Servers -> Sweeps] /\ sweep'[s] = NoSweep
        /\ \A t \in Servers : t # s => sweep'[t] = sweep[t]
    BY <1>0, <1>6 DEF TrailTypes
  <2>3. ASSUME NEW t \in Servers, t # s, sweep[t].step = "pruning"
        PROVE  trail'[sweep[t].line] = trail[sweep[t].line]
    <3>1. sweep[t].line \in 1..Len(trail) /\ trail[sweep[t].line].says = "pruned"
      BY <1>0, <2>3 DEF SweepsOK, SweepOK
    <3>2. sweep[t].line \notin pruned
      BY <1>0, <1>7, <2>3 DEF SweepsOK, SweepsApart
    <3>3. sweep[t].line \notin open
      BY <1>8, <3>1 DEF LinesOK
    <3> QED BY <1>3, <3>1, <3>2, <3>3
  <2>4. room' \in Nat
    BY <1>0 DEF TrailTypes
  <2> QED BY <1>0, <1>5, <2>1, <2>2, <2>3, <2>4, LinesKeep
<1>10. LinesOK'
  <2>1. ASSUME NEW p \in Requests, act'[p].step = "open"
        PROVE  /\ act[p].step = "open" /\ act'[p].line = act[p].line
               /\ trail'[act[p].line] = trail[act[p].line]
    <3>1. act[p].at # s /\ act'[p] = act[p]
      BY <2>1, StopActs
    <3>2. /\ act[p].line \in 1..Len(trail) /\ trail[act[p].line].says # "pruned"
      BY <2>1, <3>1 DEF LinesOK
    <3>3. act[p].line \notin open
      BY <1>8, <2>1, <3>1 DEF LinesOK
    <3>4. act[p].line \notin pruned
      BY <1>0, <1>7, <3>2 DEF SweepsOK, SweepOK
    <3> QED BY <1>3, <2>1, <3>1, <3>2, <3>3, <3>4
  <2> QED BY <1>0, <1>4, <2>1, LinesStay
<1> QED BY <1>9, <1>10

-----------------------------------------------------------------------------
(* The steps of a request.                                                 *)

(* A step of one request that changes neither accounts nor trail.          *)
LEMMA RequestKeeps ==
    ASSUME IInv, UNCHANGED trailVars, UNCHANGED <<fresh, account, claimed, stopped, stops>>,
           acts' \in Nat, QueuesKept,
           NEW p \in Requests, act' \in [Requests -> Acts], OthersStay(p),
           act'[p].step # "open", ~ Inserted(p), ~ Inserted(p)',
           SignedIn \subseteq SignedIn', ActOK(p)'
    PROVE  IInv'
<1>1. TrailInv'
  BY TrailStutters DEF IInv
<1>2. LinesOK'
  <2>1. trail' = trail /\ Len(trail) \in Nat
    BY DEF trailVars, IInv, TrailInv, TrailTypes
  <2> QED BY <2>1, LinesStay DEF IInv, AccountsInv, OthersStay
<1>3. ActsOK' /\ ClaimsOK'
  BY ActsStay DEF IInv, AccountsInv
<1>4. AccountTypes'
  BY DEF IInv, AccountsInv, AccountTypes, QueuesKept
<1> QED BY <1>1, <1>2, <1>3, <1>4 DEF IInv, AccountsInv, QueuesKept

(* The act in its turn, of somebody who is signed in.                      *)
LEMMA InTurn ==
    ASSUME IInv, NEW p \in Requests, act[p].step \in Holding
    PROVE  /\ Waits(p) /\ ~ Inserted(p)
           /\ act[p].kind \in AccountKinds /\ act[p].kind # "claim"
           /\ act[p].at \in Servers /\ act[p].target \in Accounts
           /\ act[p].by \in SignedIn
           /\ turns[act[p].at] # <<>> /\ Head(turns[act[p].at]) = p
  BY DEF IInv, AccountsInv, ActsOK, ActOK, LockOK, Waits, Inserted, Holding, AccountKinds

LEMMA EndKeeps ==
    ASSUME IInv, UNCHANGED trailVars,
           UNCHANGED <<fresh, account, claimed, acts, stops, stopped>>,
           NEW p \in Requests, Waits(p), Ended(p),
           turns[act[p].at] # <<>>, Head(turns[act[p].at]) = p
    PROVE  IInv'
<1>1. /\ act[p].at \in Servers /\ ~ Inserted(p)
      /\ AccountTypes /\ QueuesOK /\ LockOK
  BY DEF IInv, AccountsInv, ActsOK, ActOK, Waits, Inserted, Holding
<1>2. /\ act' \in [Requests -> Acts] /\ OthersStay(p)
      /\ act'[p].step = "idle" /\ act'[p].kind = ""
  BY <1>1, Answered DEF Ended, AccountTypes
<1>3. QueuesKept
  BY <1>1, QueueEnds
<1>4. SignedIn \subseteq SignedIn'
  BY <1>2, SignedInStays DEF Known
<1>5. ActOK(p)' /\ ~ Inserted(p)'
  BY <1>2 DEF ActOK, Waits, Holding, ClaimSteps, Inserted
<1>6. acts' \in Nat
  BY <1>1 DEF AccountTypes
<1> QED BY <1>1, <1>2, <1>3, <1>4, <1>5, <1>6, RequestKeeps

(* An act goes from one step of its turn to another.                       *)
LEMMA TurnKeeps ==
    ASSUME IInv, UNCHANGED trailVars,
           UNCHANGED <<fresh, account, claimed, turns, lock, acts, stops, stopped>>,
           NEW p \in Requests, act[p].step \in Holding,
           act' \in [Requests -> Acts], OthersStay(p), SameRequest(p),
           act'[p].step \in Holding \ {"open"},
           Administers(act[p].by),
           act'[p].step \in {"write", "line", "library"} /\ act[p].target = act[p].by
              => act[p].kind \in {"enable", "admin"}
    PROVE  IInv'
<1>1. /\ Waits(p) /\ ~ Inserted(p) /\ act[p].kind \in AccountKinds /\ act[p].kind # "claim"
      /\ act[p].at \in Servers /\ act[p].target \in Accounts /\ act[p].by \in SignedIn
      /\ AccountTypes /\ QueuesOK /\ LockOK
  BY InTurn DEF IInv, AccountsInv
<1>2. QueuesKept
  BY <1>1, QueueStays DEF Waits, SameRequest
<1>3. SignedIn \subseteq SignedIn'
  BY <1>1, SignedInStays DEF Known, SameRequest
<1>4. act'[p].step \notin ClaimSteps \cup {"insert", "open"}
  BY DEF Holding, ClaimSteps
<1>5. WillAdminister(act[p].by)
  BY DEF Administers, WillAdminister
<1>6. ActOK(p)' /\ ~ Inserted(p)'
  BY <1>1, <1>3, <1>4, <1>5
     DEF ActOK, Waits, SameRequest, Inserted, ClaimSteps, WillAdminister, Administers
<1>7. acts' \in Nat
  BY <1>1 DEF AccountTypes
<1> QED BY <1>1, <1>2, <1>3, <1>4, <1>6, <1>7, RequestKeeps

LEMMA AskKeeps ==
    ASSUME IInv, NEW p \in Requests, Ask(p)
    PROVE  IInv'
<1>1. PICK kind \in AccountKinds, s \in Servers, t \in Accounts,
           by \in {a \in SignedIn : Administers(a)} :
        /\ act' = [act EXCEPT ![p] = Asked("waiting", kind, s, by, t)]
        /\ turns' = [turns EXCEPT ![s] = Append(@, p)]
  BY Zenon DEF Ask, AccountKinds
<1>2. by \in Accounts /\ by \in SignedIn
  BY DEF SignedIn, Known
<1>3. PICK new \in Acts :
        /\ new = Asked("waiting", kind, s, by, t)
        /\ new.step = "waiting" /\ new.kind = kind /\ new.at = s
        /\ new.by = by /\ new.target = t
  <2>1. /\ "waiting" \in Steps /\ s \in Places /\ by \in People /\ t \in People
        /\ kind \in AccountKinds \cup {"", "claim"}
    BY <1>2 DEF Steps, Places, People
  <2>2. Asked("waiting", kind, s, by, t) \in Acts
    BY <2>1 DEF Asked, Acts
  <2> WITNESS Asked("waiting", kind, s, by, t) \in Acts
  <2> QED BY DEF Asked
<1>4. act' = [act EXCEPT ![p] = new]
  BY <1>1, <1>3
<1>5. /\ AccountTypes /\ QueuesOK /\ LockOK
      /\ UNCHANGED <<trailVars, fresh, account, claimed, lock, stops, stopped>>
      /\ act[p].step = "idle" /\ acts' = acts - 1 /\ acts > 0
  BY DEF IInv, AccountsInv, Ask, Comes
<1>6. /\ act' \in [Requests -> Acts] /\ OthersStay(p) /\ act'[p] = new
  BY <1>4, <1>5 DEF AccountTypes, OthersStay
<1>7. ~ Waits(p) /\ ~ Inserted(p) /\ ~ Inserted(p)' /\ kind # "claim"
  BY <1>3, <1>5, <1>6 DEF Waits, Holding, Inserted, AccountKinds
<1>8. QueuesKept
  BY <1>1, <1>3, <1>5, <1>6, <1>7, QueueGrows
<1>9. SignedIn \subseteq SignedIn'
  BY <1>3, <1>5, <1>6, <1>7, SignedInStays DEF Known
<1>10. ActOK(p)'
  BY <1>2, <1>3, <1>6, <1>7, <1>9 DEF ActOK, Waits, Holding, ClaimSteps
<1>11. acts' \in Nat
  BY <1>5 DEF AccountTypes
<1> QED BY <1>3, <1>5, <1>6, <1>7, <1>8, <1>9, <1>10, <1>11, RequestKeeps

LEMMA ClaimKeeps ==
    ASSUME IInv, NEW p \in Requests, Claim(p)
    PROVE  IInv'
<1>1. PICK s \in Servers, t \in Accounts :
        act' = [act EXCEPT ![p] = Asked("gate", "claim", s, "", t)]
  BY Zenon DEF Claim
<1>2. PICK new \in Acts :
        /\ new = Asked("gate", "claim", s, "", t)
        /\ new.step = "gate" /\ new.kind = "claim" /\ new.target = t
  <2>1. /\ "gate" \in Steps /\ s \in Places /\ "" \in People /\ t \in People
        /\ "claim" \in AccountKinds \cup {"", "claim"}
    BY DEF Steps, Places, People
  <2>2. Asked("gate", "claim", s, "", t) \in Acts
    BY <2>1 DEF Asked, Acts
  <2> WITNESS Asked("gate", "claim", s, "", t) \in Acts
  <2> QED BY DEF Asked
<1>3. act' = [act EXCEPT ![p] = new]
  BY <1>1, <1>2
<1>4. /\ AccountTypes /\ QueuesOK /\ LockOK /\ Known = {}
      /\ UNCHANGED <<trailVars, fresh, account, claimed, turns, lock, stops, stopped>>
      /\ act[p].step = "idle" /\ acts' = acts - 1 /\ acts > 0
  BY DEF IInv, AccountsInv, Claim, Comes
<1>5. /\ act' \in [Requests -> Acts] /\ OthersStay(p) /\ act'[p] = new
  BY <1>3, <1>4 DEF AccountTypes, OthersStay
<1>6. /\ ~ Waits(p) /\ ~ Waits(p)' /\ ~ Inserted(p) /\ ~ Inserted(p)'
      /\ act[p].step \notin Holding /\ act'[p].step \notin Holding
  BY <1>2, <1>4, <1>5 DEF Waits, Holding, Inserted
<1>7. QueuesKept
  BY <1>4, <1>5, <1>6, QueueStays
<1>8. SignedIn \subseteq SignedIn'
  BY <1>4 DEF SignedIn
<1>9. ActOK(p)'
  BY <1>2, <1>5, <1>6 DEF ActOK, Waits, Holding, ClaimSteps
<1>10. acts' \in Nat
  BY <1>4 DEF AccountTypes
<1> QED BY <1>2, <1>4, <1>5, <1>6, <1>7, <1>8, <1>9, <1>10, RequestKeeps

LEMMA TakeLockKeeps ==
    ASSUME IInv, NEW p \in Requests, TakeLock(p)
    PROVE  IInv'
<1>1. /\ AccountTypes /\ QueuesOK /\ LockOK
      /\ UNCHANGED <<trailVars, fresh, account, claimed, turns, acts, stops, stopped>>
      /\ act[p].step = "waiting" /\ Goes(p, "still")
  BY DEF IInv, AccountsInv, TakeLock, Heads
<1>2. "still" \in Steps
  BY DEF Steps
<1>3. /\ act' \in [Requests -> Acts] /\ OthersStay(p) /\ SameRequest(p) /\ act'[p].step = "still"
  BY <1>1, <1>2, GoesOn DEF AccountTypes
<1>4. Waits(p) /\ ~ Inserted(p) /\ ~ Inserted(p)' /\ ActOK(p)
  BY <1>1, <1>3 DEF Waits, Inserted, IInv, AccountsInv, ActsOK
<1>5. QueuesKept
  BY <1>1, QueueTakes
<1>6. SignedIn \subseteq SignedIn'
  BY <1>1, <1>3, SignedInStays DEF Known, SameRequest
<1>7. ActOK(p)'
  BY <1>1, <1>3, <1>4, <1>6 DEF ActOK, Waits, ClaimSteps, SameRequest
<1>8. acts' \in Nat
  BY <1>1 DEF AccountTypes
<1> QED BY <1>1, <1>3, <1>4, <1>5, <1>6, <1>7, <1>8, RequestKeeps

LEMMA StillKeeps ==
    ASSUME IInv, NEW p \in Requests, Still(p)
    PROVE  IInv'
<1>0. /\ act \in [Requests -> Acts] /\ act[p].step = "still" /\ act[p].step \in Holding
      /\ UNCHANGED trailVars
      /\ UNCHANGED <<fresh, account, claimed, acts, stops, stopped>>
  BY DEF Still, Holding, IInv, AccountsInv, AccountTypes
<1>1. CASE Administers(act[p].by)
  <2>1. PICK step \in {"target", "everyone"} : Goes(p, step) /\ UNCHANGED <<turns, lock>>
    BY <1>1 DEF Still
  <2>2. step \in Steps /\ step \in Holding \ {"open"} /\ step \notin {"write", "line", "library"}
    BY DEF Steps, Holding
  <2>3. act' \in [Requests -> Acts] /\ OthersStay(p) /\ SameRequest(p) /\ act'[p].step = step
    BY <1>0, <2>1, <2>2, GoesOn
  <2> QED BY <1>0, <1>1, <2>1, <2>2, <2>3, TurnKeeps
<1>2. CASE ~ Administers(act[p].by)
  <2>1. Ended(p)
    BY <1>2 DEF Still
  <2> QED BY <1>0, <2>1, InTurn, EndKeeps
<1> QED BY <1>1, <1>2

LEMMA EveryoneAct ==
    ASSUME NEW old \in Acts, NEW everyone \in SUBSET Accounts
    PROVE  \E new \in Acts :
              /\ new = [old EXCEPT !.step = "target", !.everyone = everyone]
              /\ new.step = "target" /\ new.kind = old.kind /\ new.at = old.at
              /\ new.by = old.by /\ new.target = old.target
<1>1. "target" \in Steps
  BY DEF Steps
<1>2. [old EXCEPT !.step = "target", !.everyone = everyone] \in Acts
  BY <1>1 DEF Acts
<1> WITNESS [old EXCEPT !.step = "target", !.everyone = everyone] \in Acts
<1> QED BY DEF Acts

LEMMA EveryoneKeeps ==
    ASSUME IInv, NEW p \in Requests, Everyone(p)
    PROVE  IInv'
<1>0. /\ act \in [Requests -> Acts] /\ act[p].step = "everyone" /\ act[p].step \in Holding
      /\ UNCHANGED trailVars
      /\ UNCHANGED <<fresh, account, claimed, turns, lock, acts, stops, stopped>>
  BY DEF Everyone, Holding, IInv, AccountsInv, AccountTypes
<1>1. PICK old \in Acts : old = act[p]
  BY <1>0
<1>2. PICK everyone \in SUBSET Accounts : everyone = Administrators
  BY DEF Administrators
<1>3. PICK new \in Acts :
        /\ new = [old EXCEPT !.step = "target", !.everyone = everyone]
        /\ new.step = "target" /\ new.kind = old.kind /\ new.at = old.at
        /\ new.by = old.by /\ new.target = old.target
  BY EveryoneAct
<1>4. act' = [act EXCEPT ![p] = new]
  BY <1>1, <1>2, <1>3, Zenon DEF Everyone
<1>5. act' \in [Requests -> Acts] /\ OthersStay(p) /\ SameRequest(p) /\ act'[p].step = "target"
  BY <1>0, <1>1, <1>3, <1>4 DEF OthersStay, SameRequest
<1>6. Administers(act[p].by)
  BY <1>0 DEF IInv, AccountsInv, ActsOK, ActOK, Holding
<1>7. "target" \in Holding \ {"open"}
  BY DEF Holding
<1> QED BY <1>0, <1>5, <1>6, <1>7, TurnKeeps

LEMMA TargetKeeps ==
    ASSUME IInv, NEW p \in Requests, Target(p)
    PROVE  IInv'
<1>0. /\ act \in [Requests -> Acts] /\ act[p].step = "target" /\ act[p].step \in Holding
      /\ UNCHANGED trailVars
      /\ UNCHANGED <<fresh, account, claimed, acts, stops, stopped>>
  BY DEF Target, Holding, IInv, AccountsInv, AccountTypes
<1>1. CASE Ended(p)
  BY <1>0, <1>1, InTurn, EndKeeps
<1>2. CASE Goes(p, "write") /\ UNCHANGED <<turns, lock>> /\ ~ OnThemselves(p)
  <2>1. "write" \in Steps /\ "write" \in Holding \ {"open"}
    BY DEF Steps, Holding
  <2>2. act' \in [Requests -> Acts] /\ OthersStay(p) /\ SameRequest(p) /\ act'[p].step = "write"
    BY <1>0, <1>2, <2>1, GoesOn
  <2>3. Administers(act[p].by) /\ act[p].kind \in AccountKinds
    BY <1>0, InTurn DEF IInv, AccountsInv, ActsOK, ActOK, Holding
  <2>4. act[p].target = act[p].by => act[p].kind \in {"enable", "admin"}
    BY <1>2, <2>3 DEF OnThemselves, Administers, AccountKinds
  <2> QED BY <1>0, <1>2, <2>1, <2>2, <2>3, <2>4, TurnKeeps
<1> QED BY <1>1, <1>2 DEF Target

LEMMA WriteKeeps ==
    ASSUME IInv, NEW p \in Requests, Write(p)
    PROVE  IInv'
<1>0. /\ act \in [Requests -> Acts] /\ act[p].step = "write" /\ act[p].step \in Holding
      /\ act[p].target \in Known
      /\ account' = [account EXCEPT ![act[p].target] = Becomes(p)]
      /\ UNCHANGED trailVars
      /\ UNCHANGED <<fresh, claimed, turns, lock, acts, stops, stopped>>
      /\ AccountTypes /\ QueuesOK /\ LockOK /\ ActsOK /\ ClaimsOK
  BY DEF Write, Holding, IInv, AccountsInv, AccountTypes
<1>1. /\ account' \in [Accounts -> Person] /\ Known' = Known /\ WillAdminister(act[p].by)
  BY <1>0, Written
<1>2. PICK step \in {"line", "library"} : Goes(p, step)
  BY DEF Write
<1>3. step \in Steps /\ step \in Holding \ {"open"}
  BY DEF Steps, Holding
<1>4. act' \in [Requests -> Acts] /\ OthersStay(p) /\ SameRequest(p) /\ act'[p].step = step
  BY <1>0, <1>2, <1>3, GoesOn
<1>5. /\ Waits(p) /\ act[p].kind \in AccountKinds /\ act[p].kind # "claim"
      /\ act[p].at \in Servers /\ act[p].target \in Accounts /\ act[p].by \in SignedIn
  BY <1>0, InTurn
<1>6. SignedIn \subseteq SignedIn'
  BY <1>1, <1>4, <1>5, SignedInStays DEF SameRequest
<1>7. ActOK(p)'
  <2>1. act[p].target = act[p].by => act[p].kind \in {"enable", "admin"}
    BY <1>0 DEF ActsOK, ActOK
  <2>2. act'[p].step \notin ClaimSteps
    BY <1>4 DEF ClaimSteps
  <2> QED BY <1>1, <1>3, <1>4, <1>5, <1>6, <2>1, <2>2
       DEF ActOK, Waits, SameRequest, Administers, WillAdminister, ClaimSteps
<1>8. ActsOK' /\ ClaimsOK'
  BY <1>0, <1>1, <1>4, <1>5, <1>7, ChangeKeeps DEF SameRequest
<1>9. QueuesKept
  BY <1>0, <1>3, <1>4, <1>5, QueueStays DEF Waits, SameRequest
<1>10. TrailInv'
  BY <1>0, TrailStutters DEF IInv
<1>11. LinesOK'
  <2>1. trail' = trail /\ Len(trail) \in Nat
    BY <1>0 DEF trailVars, IInv, TrailInv, TrailTypes
  <2> QED BY <1>3, <1>4, <2>1, LinesStay DEF IInv, AccountsInv, OthersStay
<1>12. AccountTypes'
  BY <1>0, <1>1, <1>4 DEF AccountTypes
<1> QED BY <1>8, <1>9, <1>10, <1>11, <1>12 DEF IInv, AccountsInv, QueuesKept

LEMMA LibraryKeeps ==
    ASSUME IInv, NEW p \in Requests, Library(p)
    PROVE  IInv'
<1>0. /\ act \in [Requests -> Acts] /\ act[p].step = "library" /\ act[p].step \in Holding
      /\ Ended(p)
      /\ UNCHANGED trailVars
      /\ UNCHANGED <<fresh, claimed, acts, stops, stopped>>
      /\ AccountTypes /\ QueuesOK /\ LockOK /\ ActsOK /\ ClaimsOK
  BY DEF Library, Holding, IInv, AccountsInv, AccountTypes
<1>1. CASE account' = account
  BY <1>0, <1>1, InTurn, EndKeeps
<1>2. CASE /\ act[p].target \in Known
           /\ account' = [account EXCEPT ![act[p].target] = Becomes(p)]
  <2>1. /\ account' \in [Accounts -> Person] /\ Known' = Known /\ WillAdminister(act[p].by)
    BY <1>0, <1>2, Written
  <2>2. /\ act' \in [Requests -> Acts] /\ OthersStay(p)
        /\ act'[p].step = "idle" /\ act'[p].kind = ""
    BY <1>0, Answered DEF Ended
  <2>3. ActOK(p)'
    BY <2>2 DEF ActOK, Waits, Holding, ClaimSteps
  <2>4. ActsOK' /\ ClaimsOK'
    BY <1>0, <2>1, <2>2, <2>3, ChangeKeeps
  <2>5. QueuesKept
    BY <1>0, InTurn, QueueEnds
  <2>6. TrailInv'
    BY <1>0, TrailStutters DEF IInv
  <2>7. LinesOK'
    <3>1. trail' = trail /\ Len(trail) \in Nat
      BY <1>0 DEF trailVars, IInv, TrailInv, TrailTypes
    <3>2. \A q \in Requests : act'[q].step = "open" => act'[q] = act[q]
      BY <2>2 DEF OthersStay
    <3> QED BY <3>1, <3>2, LinesStay DEF IInv, AccountsInv
  <2>8. AccountTypes'
    BY <1>0, <2>1, <2>2, <2>5 DEF AccountTypes, QueuesKept
  <2> QED BY <2>4, <2>5, <2>6, <2>7, <2>8 DEF IInv, AccountsInv, QueuesKept
<1> QED BY <1>1, <1>2 DEF Library

(* What of the trail and the queues a step of a claim leaves, which is all. *)
LEMMA ClaimStepRest ==
    ASSUME IInv, UNCHANGED trailVars, UNCHANGED <<turns, lock>>,
           NEW p \in Requests, OthersStay(p), act[p].step \in ClaimSteps,
           act'[p].step \in ClaimSteps \cup {"idle"}
    PROVE  TrailInv' /\ LinesOK' /\ QueuesKept
<1>1. TrailInv'
  BY TrailStutters DEF IInv
<1>2. LinesOK'
  <2>1. trail' = trail /\ Len(trail) \in Nat
    BY DEF trailVars, IInv, TrailInv, TrailTypes
  <2>2. \A q \in Requests : act'[q].step = "open" => act'[q] = act[q]
    BY DEF OthersStay, ClaimSteps
  <2> QED BY <2>1, <2>2, LinesStay DEF IInv, AccountsInv
<1>3. /\ ~ Waits(p) /\ ~ Waits(p)' /\ act[p].step \notin Holding /\ act'[p].step \notin Holding
  BY DEF Waits, Holding, ClaimSteps
<1>4. QueuesKept
  BY <1>3, QueueStays DEF IInv, AccountsInv
<1> QED BY <1>1, <1>2, <1>4

(* A claim on its way to its account, or refused before it has one.        *)
LEMMA ClaimGoesKeeps ==
    ASSUME IInv, UNCHANGED trailVars,
           UNCHANGED <<fresh, account, claimed, turns, lock, acts, stops, stopped>>,
           NEW p \in Requests, act' \in [Requests -> Acts], OthersStay(p),
           act[p].step \in {"gate", "role", "insert"},
           \/ act'[p].step = "idle" /\ act'[p].kind = ""
           \/ /\ act'[p].step \in {"role", "insert"} /\ SameRequest(p)
              /\ act'[p].step = "insert" => act'[p].role # ""
    PROVE  IInv'
<1>1. /\ act[p].step \in ClaimSteps /\ act'[p].step \in ClaimSteps \cup {"idle"}
      /\ ~ Inserted(p) /\ ~ Inserted(p)' /\ act'[p].step # "open"
      /\ act'[p].step \notin Holding \cup {"waiting"}
  BY DEF ClaimSteps, Inserted, Holding
<1>2. QueuesKept
  BY <1>1, ClaimStepRest
<1>3. act[p].kind = "claim" /\ act[p].target \in Accounts
  BY <1>1 DEF IInv, AccountsInv, ActsOK, ActOK
<1>4. SignedIn \subseteq SignedIn'
  BY <1>3, SignedInStays DEF Known, SameRequest
<1>5. ActOK(p)'
  BY <1>1, <1>3 DEF ActOK, Waits, SameRequest, ClaimSteps, Holding
<1>6. acts' \in Nat
  BY DEF IInv, AccountsInv, AccountTypes
<1> QED BY <1>1, <1>2, <1>4, <1>5, <1>6, RequestKeeps

LEMMA GateKeeps ==
    ASSUME IInv, NEW p \in Requests, Gate(p)
    PROVE  IInv'
<1>0. /\ act \in [Requests -> Acts] /\ act[p].step = "gate" /\ UNCHANGED trailVars
      /\ UNCHANGED <<fresh, account, claimed, turns, lock, acts, stops, stopped>>
  BY DEF Gate, IInv, AccountsInv, AccountTypes
<1>1. CASE Goes(p, "role")
  <2>1. "role" \in Steps
    BY DEF Steps
  <2>2. act' \in [Requests -> Acts] /\ OthersStay(p) /\ SameRequest(p) /\ act'[p].step = "role"
    BY <1>0, <1>1, <2>1, GoesOn
  <2> QED BY <1>0, <2>2, ClaimGoesKeeps
<1>2. CASE Refused(p)
  BY <1>0, <1>2, Answered, ClaimGoesKeeps DEF Refused
<1> QED BY <1>1, <1>2 DEF Gate

LEMMA RoleAct ==
    ASSUME NEW old \in Acts, NEW role \in {"admin", "analyst"}
    PROVE  \E new \in Acts :
              /\ new = [old EXCEPT !.step = "insert", !.role = role]
              /\ new.step = "insert" /\ new.kind = old.kind /\ new.at = old.at
              /\ new.by = old.by /\ new.target = old.target /\ new.role # ""
<1>1. "insert" \in Steps
  BY DEF Steps
<1>2. [old EXCEPT !.step = "insert", !.role = role] \in Acts
  BY <1>1 DEF Acts
<1> WITNESS [old EXCEPT !.step = "insert", !.role = role] \in Acts
<1> QED BY DEF Acts

LEMMA RoleKeeps ==
    ASSUME IInv, NEW p \in Requests, RoleForNewUser(p)
    PROVE  IInv'
<1>0. /\ act \in [Requests -> Acts] /\ act[p].step = "role" /\ UNCHANGED trailVars
      /\ UNCHANGED <<fresh, account, claimed, turns, lock, acts, stops, stopped>>
  BY DEF RoleForNewUser, IInv, AccountsInv, AccountTypes
<1>1. PICK old \in Acts : old = act[p]
  BY <1>0
<1>2. PICK role \in {"admin", "analyst"} : role = IF Known = {} THEN "admin" ELSE "analyst"
  OBVIOUS
<1>3. PICK new \in Acts :
        /\ new = [old EXCEPT !.step = "insert", !.role = role]
        /\ new.step = "insert" /\ new.kind = old.kind /\ new.at = old.at
        /\ new.by = old.by /\ new.target = old.target /\ new.role # ""
  BY RoleAct
<1>4. act' = [act EXCEPT ![p] = new]
  BY <1>1, <1>2, <1>3, Zenon DEF RoleForNewUser
<1>5. /\ act' \in [Requests -> Acts] /\ OthersStay(p) /\ SameRequest(p)
      /\ act'[p].step = "insert" /\ act'[p].role # ""
  BY <1>0, <1>1, <1>3, <1>4 DEF OthersStay, SameRequest
<1> QED BY <1>0, <1>5, ClaimGoesKeeps

LEMMA InsertStepKeeps ==
    ASSUME IInv, NEW p \in Requests, Insert(p)
    PROVE  IInv'
<1>0. /\ act \in [Requests -> Acts] /\ act[p].step = "insert" /\ UNCHANGED trailVars
      /\ UNCHANGED <<fresh, claimed, turns, lock, acts, stops, stopped>>
      /\ AccountTypes /\ ActsOK /\ ClaimsOK /\ LockOK
  BY DEF Insert, IInv, AccountsInv, AccountTypes
<1>1. CASE Refused(p) /\ UNCHANGED account
  BY <1>0, <1>1, Answered, ClaimGoesKeeps DEF Refused
<1>2. CASE /\ act[p].target \notin Known /\ Goes(p, "take")
           /\ account' = [account EXCEPT ![act[p].target] = [role |-> act[p].role, banned |-> FALSE]]
  <2>1. "take" \in Steps /\ act[p].step \in ClaimSteps /\ "take" \in ClaimSteps \cup {"idle"}
    BY <1>0 DEF Steps, ClaimSteps
  <2>2. act' \in [Requests -> Acts] /\ OthersStay(p) /\ act'[p].step = "take"
    BY <1>0, <1>2, <2>1, GoesOn
  <2>3. account' \in [Accounts -> Person] /\ ActsOK' /\ ClaimsOK'
    BY <1>0, <1>2, InsertKeeps
  <2>4. TrailInv' /\ LinesOK' /\ QueuesKept
    BY <1>0, <2>1, <2>2, ClaimStepRest
  <2>5. AccountTypes'
    BY <1>0, <2>2, <2>3 DEF AccountTypes
  <2> QED BY <2>3, <2>4, <2>5 DEF IInv, AccountsInv, QueuesKept
<1> QED BY <1>1, <1>2 DEF Insert

LEMMA TakeStepKeeps ==
    ASSUME IInv, NEW p \in Requests, Take(p)
    PROVE  IInv'
<1>0. /\ act \in [Requests -> Acts] /\ act[p].step = "take" /\ UNCHANGED trailVars
      /\ UNCHANGED <<fresh, turns, lock, acts, stops, stopped>>
      /\ AccountTypes /\ ActsOK /\ ClaimsOK /\ LockOK
  BY DEF Take, IInv, AccountsInv, AccountTypes
<1>s. /\ "back" \in Steps /\ act[p].step \in ClaimSteps
      /\ "back" \in ClaimSteps /\ "idle" \in ClaimSteps \cup {"idle"}
  BY <1>0 DEF Steps, ClaimSteps
<1>1. CASE Goes(p, "back") /\ UNCHANGED <<account, claimed>>
  <2>1. act' \in [Requests -> Acts] /\ OthersStay(p) /\ SameRequest(p) /\ act'[p].step = "back"
    BY <1>0, <1>1, <1>s, GoesOn
  <2>2. TrailInv' /\ LinesOK' /\ QueuesKept
    BY <1>0, <1>s, <2>1, ClaimStepRest
  <2>3. SignedIn \subseteq SignedIn'
    BY <1>1, <2>1, SignedInStays DEF Known, SameRequest
  <2>4. Inserted(p) /\ Inserted(p)' /\ Known' = Known
    BY <1>0, <1>1, <2>1 DEF Inserted, Known
  <2>5. \A q \in Requests : (Inserted(q)' <=> Inserted(q)) /\ act'[q].target = act[q].target
    BY <2>1, <2>4 DEF Inserted, OthersStay, SameRequest
  <2>6. /\ \A t : Settled(t)' <=> Settled(t)
        /\ \A t : Administers(t)' <=> Administers(t)
    BY <1>1, <2>5 DEF Settled, Administers
  <2>7. ClaimsOK'
    BY <1>0, <1>1, <2>4, <2>5, <2>6 DEF ClaimsOK
  <2>8. ASSUME NEW q \in Requests PROVE ActOK(q)'
    <3>1. ActOK(q)
      BY <1>0 DEF ActsOK
    <3>2. CASE q = p
      BY <1>0, <2>1, <3>1, <3>2 DEF ActOK, Waits, Holding, ClaimSteps, SameRequest
    <3>3. CASE q # p
      BY <2>1, <2>3, <2>6, <3>1, <3>3 DEF ActOK, Waits, OthersStay
    <3> QED BY <3>2, <3>3
  <2>9. AccountTypes'
    BY <1>0, <1>1, <2>1 DEF AccountTypes
  <2> QED BY <2>2, <2>7, <2>8, <2>9 DEF IInv, AccountsInv, QueuesKept, ActsOK
<1>2. CASE /\ ~ claimed /\ claimed' = TRUE /\ Refused(p)
           /\ account' = [account EXCEPT ![act[p].target].role = "admin"]
  <2>1. act' \in [Requests -> Acts] /\ OthersStay(p) /\ act'[p].step = "idle"
    BY <1>0, <1>2, Answered DEF Refused
  <2>2. TrailInv' /\ LinesOK' /\ QueuesKept
    BY <1>0, <1>s, <2>1, ClaimStepRest
  <2>3. account' \in [Accounts -> Person] /\ ActsOK' /\ ClaimsOK'
    BY <1>0, <1>2, TakeKeeps DEF Refused
  <2>4. AccountTypes'
    BY <1>0, <1>2, <2>1, <2>3 DEF AccountTypes
  <2> QED BY <2>2, <2>3, <2>4 DEF IInv, AccountsInv, QueuesKept
<1> QED BY <1>1, <1>2 DEF Take

LEMMA TakeBackStepKeeps ==
    ASSUME IInv, NEW p \in Requests, TakeBack(p)
    PROVE  IInv'
<1>0. /\ act \in [Requests -> Acts] /\ act[p].step = "back" /\ UNCHANGED trailVars
      /\ UNCHANGED <<fresh, claimed, turns, lock, acts, stops, stopped>>
      /\ AccountTypes /\ ActsOK /\ ClaimsOK /\ LockOK
      /\ act[p].step \in ClaimSteps /\ act' = [act EXCEPT ![p] = NoAct]
  BY DEF TakeBack, Refused, IInv, AccountsInv, AccountTypes, ClaimSteps
<1>1. act' \in [Requests -> Acts] /\ OthersStay(p) /\ act'[p].step = "idle"
  BY <1>0, Answered
<1>2. TrailInv' /\ LinesOK' /\ QueuesKept
  BY <1>0, <1>1, ClaimStepRest
<1>3. account' \in [Accounts -> Person] /\ ActsOK' /\ ClaimsOK'
  BY <1>0, TakeBackKeeps
<1>4. AccountTypes'
  BY <1>0, <1>1, <1>3 DEF AccountTypes
<1> QED BY <1>2, <1>3, <1>4 DEF IInv, AccountsInv, QueuesKept

LEMMA LineStepsKeep ==
    ASSUME IInv, NEW p \in Requests, Record(p) \/ Recorded(p)
    PROVE  IInv'
<1>0. /\ act \in [Requests -> Acts] /\ act[p].step \in Holding
      /\ act[p].step \in {"line", "open"}
      /\ UNCHANGED <<fresh, account, claimed, turns, lock, acts, stops, stopped>>
      /\ AccountTypes /\ ActsOK /\ ClaimsOK /\ LockOK /\ QueuesOK /\ LinesOK /\ TrailInv
  BY DEF Record, Recorded, IInv, AccountsInv, AccountTypes, Holding
<1>1. /\ TrailInv' /\ LinesOK' /\ act' \in [Requests -> Acts]
      /\ OthersStay(p) /\ SameRequest(p) /\ act'[p].step \in {"open", "library"}
  <2>1. CASE Record(p)
    BY <1>0, <2>1, RecordKeeps
  <2>2. CASE Recorded(p)
    <3>1. Goes(p, "library") /\ "library" \in Steps
      BY <2>2 DEF Recorded, Steps
    <3> QED BY <1>0, <2>2, <3>1, RecordedKeeps, GoesOn
  <2> QED BY <2>1, <2>2
<1>2. /\ Waits(p) /\ ~ Inserted(p) /\ act[p].kind \in AccountKinds /\ act[p].kind # "claim"
      /\ act[p].at \in Servers /\ act[p].target \in Accounts /\ act[p].by \in SignedIn
  BY <1>0, InTurn
<1>3. /\ act'[p].step \in Holding /\ act'[p].step \notin ClaimSteps /\ act'[p].step # "still"
      /\ act'[p].step # "insert" /\ ~ Inserted(p)' /\ act[p].step # "still"
  BY <1>0, <1>1 DEF Holding, ClaimSteps, Inserted
<1>4. QueuesKept
  BY <1>0, <1>1, <1>2, <1>3, QueueStays DEF Waits, SameRequest
<1>5. SignedIn \subseteq SignedIn'
  BY <1>0, <1>1, <1>2, SignedInStays DEF Known, SameRequest
<1>6. /\ Administers(act[p].by) /\ WillAdminister(act[p].by)
      /\ act[p].target = act[p].by => act[p].kind \in {"enable", "admin"}
  BY <1>0, <1>3 DEF ActsOK, ActOK, Administers, WillAdminister
<1>7. ActOK(p)'
  BY <1>1, <1>2, <1>3, <1>5, <1>6 DEF ActOK, Waits, SameRequest, Administers, WillAdminister
<1>8. ActsOK' /\ ClaimsOK'
  BY <1>0, <1>1, <1>2, <1>3, <1>5, <1>7, ActsStay
<1>9. AccountTypes'
  BY <1>0, <1>1 DEF AccountTypes
<1> QED BY <1>1, <1>4, <1>8, <1>9 DEF IInv, AccountsInv, QueuesKept

LEMMA StopKeeps ==
    ASSUME IInv, NEW s \in Servers, Stop(s)
    PROVE  IInv'
<1>0. AccountTypes /\ ActsOK /\ ClaimsOK /\ LockOK /\ QueuesOK /\ LinesOK /\ TrailInv
  BY DEF IInv, AccountsInv
<1>1. TrailInv' /\ LinesOK'
  BY <1>0, StopLines
<1>2. QueuesKept
  BY <1>0, StopQueues
<1>3. ActsOK' /\ ClaimsOK'
  BY <1>0, StopClaims
<1>4. act' \in [Requests -> Acts]
  BY <1>0, StopActs
<1>5. /\ stops' = stops - 1 /\ stops > 0 /\ stopped' = TRUE
      /\ UNCHANGED <<fresh, account, claimed, acts>>
  BY DEF Stop
<1>6. AccountTypes'
  BY <1>0, <1>2, <1>4, <1>5 DEF AccountTypes, QueuesKept
<1> QED BY <1>1, <1>2, <1>3, <1>6 DEF IInv, AccountsInv, QueuesKept

(* A step in which no request takes part.                                  *)
LEMMA AccountsStutter ==
    ASSUME AccountsInv, UNCHANGED accountVars, LinesOK'
    PROVE  AccountsInv'
<1>1. AccountTypes' /\ QueuesOK' /\ LockOK'
  BY DEF AccountsInv, accountVars, AccountTypes, QueuesOK, QueueOK, LockOK, Waits
<1>2. Known' = Known /\ SignedIn' = SignedIn
  BY DEF accountVars, Known, SignedIn
<1>3. /\ \A p : Inserted(p)' <=> Inserted(p)
      /\ \A t : Administers(t)' <=> Administers(t)
      /\ \A t : Settled(t)' <=> Settled(t)
  BY DEF accountVars, Inserted, Administers, Settled
<1>4. ActsOK'
  BY <1>2, <1>3 DEF AccountsInv, accountVars, ActsOK, ActOK, Waits
<1>5. ClaimsOK'
  BY <1>2, <1>3 DEF AccountsInv, accountVars, ClaimsOK
<1> QED BY <1>1, <1>4, <1>5 DEF AccountsInv

LEMMA TrailStepKeeps ==
    ASSUME IInv, OtherLine \/ OtherEnds \/ \E s \in Servers : TrailStep(s),
           UNCHANGED accountVars
    PROVE  IInv'
<1>1. TrailInv' /\ OwnLinesStay
  BY TrailKeeps DEF IInv
<1>2. LinesOK'
  <2>1. Len(trail) \in Nat /\ Len(trail') \in Nat
    BY <1>1 DEF IInv, TrailInv, TrailTypes
  <2>2. Len(trail) <= Len(trail') /\ act' = act
    BY <1>1, <2>1 DEF OwnLinesStay, accountVars
  <2>3. \A p \in Requests : act[p].step = "open" => trail'[act[p].line] = trail[act[p].line]
    BY <1>1 DEF OwnLinesStay, IInv, AccountsInv, LinesOK
  <2> QED BY <2>1, <2>2, <2>3, LinesStay DEF IInv, AccountsInv
<1> QED BY <1>1, <1>2, AccountsStutter DEF IInv

-----------------------------------------------------------------------------
(* The invariant.                                                          *)

LEMMA InitKeeps == Init => IInv
<1> SUFFICES ASSUME Init PROVE IInv
  OBVIOUS
<1>1. PICK install \in Installs :
        /\ shipped = install.shipped /\ room = install.room
        /\ acts = install.acts /\ stops = install.stops
        /\ account = [t \in Accounts |-> [role |-> install.who[t], banned |-> FALSE]]
  BY DEF Init
<1>2. /\ install.shipped \in BOOLEAN /\ install.room \in Nat
      /\ install.acts \in Nat /\ install.stops \in Nat
      /\ install.who \in [Accounts -> {"none", "admin", "analyst"}]
  BY InstallsAssumption
<1>3. /\ fresh = (Known = {}) /\ claimed = ~ fresh /\ TrailInit
      /\ turns = [s \in Servers |-> <<>>] /\ lock = {}
      /\ act = [p \in Requests |-> NoAct] /\ stopped = FALSE
  BY DEF Init
<1>4. TrailInv
  BY <1>1, <1>2, <1>3, TrailInvInit
<1>5. /\ account \in [Accounts -> Person]
      /\ \A t \in Accounts : account[t].role = install.who[t] /\ ~ account[t].banned
  BY <1>1, <1>2 DEF Person
<1>6. /\ act \in [Requests -> Acts]
      /\ \A p \in Requests : act[p].step = "idle" /\ act[p].kind = ""
  BY <1>3, NoActFacts
<1>7. turns \in [Servers -> Seq(Requests)] /\ \A s \in Servers : Len(turns[s]) = 0
  BY <1>3
<1>8. AccountTypes
  <2>1. fresh \in BOOLEAN /\ claimed \in BOOLEAN /\ stopped \in BOOLEAN
    BY <1>3, Zenon
  <2> QED BY <1>1, <1>2, <1>3, <1>5, <1>6, <1>7, <2>1 DEF AccountTypes
<1>9. LinesOK /\ QueuesOK
  <2>1. LinesOK
    BY <1>6 DEF LinesOK
  <2>2. \A s \in Servers : 1..Len(turns[s]) = {}
    BY <1>7
  <2>3. QueuesOK
    BY <2>2 DEF QueuesOK, QueueOK
  <2> QED BY <2>1, <2>3
<1>10. LockOK
  BY <1>3, <1>6 DEF LockOK, Holding
<1>11. ActsOK
  BY <1>6 DEF ActsOK, ActOK, Waits, Holding, ClaimSteps
<1>12. \A p \in Requests : ~ Inserted(p)
  BY <1>6 DEF Inserted
<1>13. \A t : Settled(t)
  BY <1>12 DEF Settled
<1>14. claimed => \E t \in Accounts : Administers(t)
  <2>1. ASSUME claimed PROVE \E t \in Accounts : account[t].role = "admin"
    <3>1. PICK t \in Accounts : account[t].role # "none"
      BY <1>3, <2>1 DEF Known
    <3>2. install.who[t] # "none"
      BY <1>5, <3>1
    <3>3. PICK a \in Accounts : install.who[a] = "admin"
      BY <3>2, AdministeredAssumption
    <3> QED BY <1>5, <3>3
  <2> QED BY <1>5, <2>1 DEF Administers
<1>15. ClaimsOK
  <2>1. fresh => Known = {} /\ ~ claimed
    BY <1>3
  <2> QED BY <1>5, <1>12, <1>13, <1>14, <2>1 DEF ClaimsOK
<1> QED BY <1>4, <1>8, <1>9, <1>10, <1>11, <1>15 DEF IInv, AccountsInv

LEMMA NextKeeps ==
    ASSUME IInv, [Next]_vars
    PROVE  IInv'
<1>1. CASE UNCHANGED vars
  <2>1. UNCHANGED trailVars /\ UNCHANGED accountVars
    BY <1>1 DEF vars
  <2>2. TrailInv'
    BY <2>1, TrailStutters DEF IInv
  <2>3. LinesOK'
    BY <2>1 DEF trailVars, accountVars, LinesOK, IInv, AccountsInv
  <2> QED BY <2>1, <2>2, <2>3, AccountsStutter DEF IInv
<1>2. ASSUME NEW p \in Requests, TurnStep(p) PROVE IInv'
  <2>1. CASE TakeLock(p)
    BY <2>1, TakeLockKeeps
  <2>2. CASE GiveUp(p)
    <3>1. /\ UNCHANGED trailVars /\ UNCHANGED <<fresh, account, claimed, acts, stops, stopped>>
          /\ Waits(p) /\ Ended(p) /\ turns[act[p].at] # <<>> /\ Head(turns[act[p].at]) = p
      BY <2>2 DEF GiveUp, Heads, Waits
    <3> QED BY <3>1, EndKeeps
  <2>3. CASE Still(p)
    BY <2>3, StillKeeps
  <2>4. CASE Everyone(p)
    BY <2>4, EveryoneKeeps
  <2>5. CASE Target(p)
    BY <2>5, TargetKeeps
  <2>6. CASE Write(p)
    BY <2>6, WriteKeeps
  <2>7. CASE WriteMissing(p)
    <3>1. /\ UNCHANGED trailVars /\ UNCHANGED <<fresh, account, claimed, acts, stops, stopped>>
          /\ act[p].step \in Holding /\ Ended(p)
      BY <2>7 DEF WriteMissing, Holding
    <3> QED BY <3>1, InTurn, EndKeeps
  <2>8. CASE Record(p) \/ Recorded(p)
    BY <2>8, LineStepsKeep
  <2>9. CASE Library(p)
    BY <2>9, LibraryKeeps
  <2> QED BY <1>2, <2>1, <2>2, <2>3, <2>4, <2>5, <2>6, <2>7, <2>8, <2>9 DEF TurnStep
<1>3. ASSUME NEW p \in Requests, ClaimStep(p) PROVE IInv'
  BY <1>3, GateKeeps, RoleKeeps, InsertStepKeeps, TakeStepKeeps, TakeBackStepKeeps DEF ClaimStep
<1> QED BY <1>1, <1>2, <1>3, AskKeeps, ClaimKeeps, StopKeeps, TrailStepKeeps DEF Next

LEMMA TheInvariant == Spec => []IInv
<1>1. Init => IInv
  BY InitKeeps
<1>2. IInv /\ [Next]_vars => IInv'
  BY NextKeeps
<1> QED BY <1>1, <1>2, PTL DEF Spec

LEMMA TypesOf == IInv => TypeOK
<1> SUFFICES ASSUME IInv PROVE TypeOK
  OBVIOUS
<1>0. /\ TrailTypes /\ RoundsOK /\ SweepsOK
      /\ LinesOK /\ AccountTypes /\ QueuesOK /\ LockOK
      /\ DOMAIN trail = 1..Len(trail) /\ Len(trail) \in Nat
  BY DEF IInv, TrailInv, TrailTypes, AccountsInv
<1>1. \A n \in DOMAIN trail :
        trail[n].state \in {"open", "stored", "void", "gone"} /\ trail[n].late \in BOOLEAN
  <2> TAKE n \in DOMAIN trail
  <2>1. trail[n] \in Line
    BY <1>0 DEF TrailTypes
  <2> QED BY <2>1 DEF Line
<1>2. ASSUME NEW s \in Servers
      PROVE  /\ round[s].step \in {"idle", "marked", "picked", "sent"}
             /\ round[s].from <= cursor
             /\ round[s].batch \subseteq DOMAIN trail
             /\ round[s].step \in {"picked", "sent"} => round[s].newest \in round[s].batch
             /\ sweep[s].step \in {"idle", "bound", "pruning"}
             /\ sweep[s].old \subseteq InState("stored")
             /\ sweep[s].step = "pruning" => sweep[s].line \in InState("open")
  <2>1. RoundOK(s) /\ SweepOK(s) /\ round[s] \in Rounds /\ sweep[s] \in Sweeps
    BY <1>0 DEF RoundsOK, SweepsOK, TrailTypes
  <2>2. /\ round[s].step \in {"idle", "marked", "picked", "sent"}
        /\ sweep[s].step \in {"idle", "bound", "pruning"}
    BY <2>1 DEF Rounds, Sweeps
  <2> QED BY <1>0, <2>1, <2>2 DEF RoundOK, SweepOK, Held, InState
<1>3. TrailTypeOK
  BY <1>0, <1>1, <1>2 DEF TrailTypeOK, TrailTypes
<1>4. \A t \in Accounts :
        account[t].role \in {"none", "admin", "analyst"} /\ account[t].banned \in BOOLEAN
  <2> TAKE t \in Accounts
  <2>1. account[t] \in Person
    BY <1>0 DEF AccountTypes
  <2> QED BY <2>1 DEF Person
<1>5. ASSUME NEW p \in Requests
      PROVE  /\ act[p].step \in Steps
             /\ act[p].step \in Holding <=> lock = {p}
             /\ lock = {p} => turns[act[p].at] # <<>> /\ Head(turns[act[p].at]) = p
             /\ act[p].step = "open" => act[p].line \in InState("open")
  <2>1. act[p] \in Acts
    BY <1>0 DEF AccountTypes
  <2>2. act[p].step \in Steps
    BY <2>1 DEF Acts
  <2> QED BY <1>0, <2>2 DEF LockOK, LinesOK, InState
<1>6. \A s \in Servers : \A i \in 1..Len(turns[s]) :
        act[turns[s][i]].at = s /\ act[turns[s][i]].step \in Holding \cup {"waiting"}
  BY <1>0 DEF QueuesOK, QueueOK, Waits
<1>7. acts \in Nat /\ stops \in Nat
  BY <1>0 DEF AccountTypes
<1> QED BY <1>3, <1>4, <1>5, <1>6, <1>7 DEF TypeOK

LEMMA KeptOf == IInv => AccountsKept
<1> SUFFICES ASSUME IInv PROVE AccountsKept
  OBVIOUS
<1>1. AdministratorStands
  BY DEF IInv, AccountsInv, ClaimsOK, AdministratorStands
<1>2. OneClaimStands
  <2> SUFFICES ASSUME fresh, ~ stopped, \A p \in Requests : act[p].kind # "claim"
               PROVE  Cardinality(Known) = IF claimed THEN 1 ELSE 0
    BY DEF OneClaimStands
  <2>1. \A t : Settled(t)
    BY DEF IInv, AccountsInv, ActsOK, ActOK, Settled, Inserted, ClaimSteps
  <2>2. CASE claimed
    <3>1. PICK w \in Known : \A t \in Known : t = w
      BY <2>1, <2>2 DEF IInv, AccountsInv, ClaimsOK
    <3>2. Known = {w}
      BY <3>1
    <3> QED BY <2>2, <3>2, FS_Singleton
  <2>3. CASE ~ claimed
    <3>1. Known = {}
      BY <2>1, <2>3 DEF IInv, AccountsInv, ClaimsOK
    <3> QED BY <2>3, <3>1, FS_EmptySet
  <2> QED BY <2>2, <2>3
<1> QED BY <1>1, <1>2, TypesOf DEF AccountsKept

(* The turns are one act's at a time, the install that is claimed has an   *)
(* administrator, and two claims leave one account: of any accounts, any   *)
(* servers and however many requests at once (accounts.controller.ts,      *)
(* setup.controller.ts).                                                   *)
THEOREM AccountsAreKept == Spec => []AccountsKept
  BY TheInvariant, KeptOf, PTL

(* Nothing leaves the trail that the destination lacks, but a line that    *)
(* was committed behind the mark, and no deletion goes untold, whatever    *)
(* the batch and however many servers deliver and prune                    *)
(* (deliver.service.ts, prune.service.ts).                                 *)
THEOREM PrunesAreKept == Spec => []PrunesKept
<1>1. IInv => PrunesKept
  BY PrunesKeptOf DEF IInv
<1> QED BY <1>1, TheInvariant, PTL

(* Whoever makes a change administers the install when it is made          *)
(* (stillAdministers, in the turn and under the lock).                     *)
THEOREM OnlyAdministratorsDo == Spec => OnlyAdministratorsChange
<1> DEFINE Changed == \A p \in Requests :
             act[p].step \in {"write", "library"} /\ act'[p] # act[p] /\ account' # account
                => Administers(act[p].by)
<1>1. IInv /\ [Next]_vars => [Changed]_vars
  BY DEF IInv, AccountsInv, ActsOK, ActOK, Holding
<1> QED BY <1>1, TheInvariant, PTL DEF Spec, OnlyAdministratorsChange
-----------------------------------------------------------------------------
(* What the lines say.  A claim cut short leaves an account no line names  *)
(* and no claim row: what follows is of the installs where none was.       *)
Orderly == ~ (fresh /\ stopped)

OthersLines == \A n \in 1..Len(trail) : trail[n].says \in {"pruned", "other"} => trail[n].of = ""

(* Nobody acts on an install before it is claimed, and only an install     *)
(* nobody had an account on is ever claimed.                               *)
Unclaimed ==
    /\ ~ claimed => /\ fresh
                    /\ \A p \in Requests : ~ Waits(p)
                    /\ \A n \in 1..Len(trail) : trail[n].of \notin Accounts
    /\ \A p \in Requests : act[p].step \in ClaimSteps => fresh

Agrees(t, half, says) ==
    IF half = "banned" THEN account[t].banned <=> says = "disable" ELSE account[t].role = says

(* The change an act has made and still has to tell, or to write again.    *)
Telling == {"line", "open"}
Changed(p) == act[p].step \in Telling \cup {"library"}
Tells(p) ==
    /\ act[p].step = "open" =>
          /\ trail[act[p].line].of = act[p].target /\ trail[act[p].line].says = act[p].kind
          /\ \A m \in 1..Len(trail) : m > act[p].line => trail[m].of \notin Accounts
    /\ act[p].step \in Telling => <<act[p].target, Half(act[p].kind)>> \in untold
    /\ Changed(p) /\ act[p].target \in Known /\ Settled(act[p].target) =>
          Agrees(act[p].target, Half(act[p].kind), act[p].kind)

LinesOf(t, half) == {n \in Held : trail[n].of = t /\ Half(trail[n].says) = half}

LastTells(t, half) ==
    \/ LinesOf(t, half) = {}
    \/ \E n \in LinesOf(t, half) :
          /\ \A m \in LinesOf(t, half) : m <= n
          /\ Agrees(t, half, trail[n].says)

AccountsTold ==
    \A t \in Known, half \in {"banned", "role"} :
       Settled(t) /\ <<t, half>> \notin untold => LastTells(t, half)

TellInv ==
    /\ OthersLines
    /\ Orderly => Unclaimed /\ (\A p \in Requests : Tells(p)) /\ AccountsTold

(* A step that stores no line of an account but one that stays untold.     *)
SameLines ==
    /\ Len(trail) <= Len(trail')
    /\ \A n \in 1..Len(trail) :
          trail'[n].of = trail[n].of /\ trail'[n].says = trail[n].says
    /\ \A n \in Held : n \in Held'
    /\ Orderly' => \A n \in 1..Len(trail) : n \in Held' /\ trail[n].of \in Accounts =>
          n \in Held \/ <<trail[n].of, Half(trail[n].says)>> \in untold
    /\ \A n \in 1..Len(trail') : n > Len(trail) => trail'[n].of = ""

LEMMA LinesOfStay ==
    ASSUME TrailTypes, TrailTypes', SameLines, Orderly',
           NEW t \in Accounts, NEW half, <<t, half>> \notin untold
    PROVE  LinesOf(t, half)' = LinesOf(t, half)
<1>0. Len(trail) \in Nat /\ Len(trail') \in Nat
  BY DEF TrailTypes
<1>a. "" \notin Accounts
  BY AddressAssumption
<1>1. \A n \in LinesOf(t, half) : n \in LinesOf(t, half)'
  BY <1>0 DEF SameLines, LinesOf, Held
<1>2. ASSUME NEW n \in LinesOf(t, half)' PROVE n \in LinesOf(t, half)
  <2>1. n \in 1..Len(trail') /\ trail'[n].of = t /\ Half(trail'[n].says) = half /\ n \in Held'
    BY <1>2 DEF LinesOf, Held
  <2>2. n \in 1..Len(trail)
    <3>1. ~ (n > Len(trail))
      BY <1>a, <2>1, Zenon DEF SameLines
    <3> QED BY <1>0, <2>1, <3>1
  <2>3. trail[n].of = t /\ trail[n].says = trail'[n].says
    BY <2>1, <2>2 DEF SameLines
  <2>4. n \in Held
    BY <2>1, <2>2, <2>3 DEF SameLines
  <2> QED BY <2>1, <2>3, <2>4 DEF LinesOf
<1> QED BY <1>1, <1>2

(* A step that leaves the accounts of no claim under way as they were, and *)
(* in which no act has changed one.                                        *)
LEMMA TellStays ==
    ASSUME IInv, TrailTypes', TellInv, SameLines, fresh' = fresh, stopped => stopped',
           untold' = untold, claimed => claimed',
           \A p \in Requests : Changed(p)' =>
              /\ SameRequest(p) /\ act'[p].line = act[p].line
              /\ act'[p].step = act[p].step \/ (act[p].step = "open" /\ act'[p].step = "library"),
           Orderly' => \A p \in Requests :
              /\ ~ claimed' => ~ Waits(p)'
              /\ act'[p].step \in ClaimSteps => fresh,
           Orderly' => \A t \in Known' : Settled(t)' =>
              ~ claimed \/ (t \in Known /\ Settled(t) /\ account'[t] = account[t])
    PROVE  TellInv'
<1>0. Len(trail) \in Nat /\ Len(trail') \in Nat /\ TrailTypes /\ LinesOK
  BY DEF IInv, TrailInv, TrailTypes, AccountsInv
<1>a. "" \notin Accounts
  BY AddressAssumption
<1>1. OthersLines'
  <2> SUFFICES ASSUME NEW n \in 1..Len(trail'), trail'[n].says \in {"pruned", "other"}
               PROVE  trail'[n].of = ""
    BY DEF OthersLines
  <2>1. n \in 1..Len(trail) \/ n > Len(trail)
    BY <1>0
  <2>2. CASE n \in 1..Len(trail)
    BY <2>2 DEF TellInv, OthersLines, SameLines
  <2>3. CASE n > Len(trail)
    BY <2>3, Zenon DEF SameLines
  <2> QED BY <2>1, <2>2, <2>3
<1> SUFFICES ASSUME Orderly'
             PROVE  Unclaimed' /\ (\A p \in Requests : Tells(p)') /\ AccountsTold'
  BY <1>1 DEF TellInv
<1>2. Orderly /\ Unclaimed /\ (\A p \in Requests : Tells(p)) /\ AccountsTold
  BY DEF Orderly, TellInv
<1>3. ASSUME NEW n \in 1..Len(trail'), trail'[n].of \in Accounts
      PROVE  n \in 1..Len(trail) /\ trail[n].of = trail'[n].of
  <2>1. ~ (n > Len(trail))
    BY <1>a, <1>3, Zenon DEF SameLines
  <2>2. n \in 1..Len(trail)
    BY <1>0, <2>1
  <2> QED BY <2>2 DEF SameLines
<1>4. Unclaimed'
  BY <1>2, <1>3 DEF Unclaimed
<1>5. ASSUME NEW p \in Requests PROVE Tells(p)'
  <2> SUFFICES ASSUME Changed(p)' PROVE Tells(p)'
    BY DEF Tells, Changed, Telling
  <2>1. /\ SameRequest(p) /\ act'[p].line = act[p].line
        /\ act'[p].step = act[p].step \/ (act[p].step = "open" /\ act'[p].step = "library")
    OBVIOUS
  <2>2. Changed(p)
    BY <2>1 DEF Changed, Telling
  <2>3. Tells(p)
    BY <1>2
  <2>4. ASSUME act'[p].step = "open"
        PROVE  /\ trail'[act'[p].line].of = act'[p].target
               /\ trail'[act'[p].line].says = act'[p].kind
               /\ \A m \in 1..Len(trail') : m > act'[p].line => trail'[m].of \notin Accounts
    <3>1. act[p].step = "open" /\ act[p].line \in 1..Len(trail)
      BY <1>0, <2>1, <2>4 DEF LinesOK
    <3> QED BY <1>3, <2>1, <2>3, <3>1 DEF Tells, SameRequest, SameLines
  <2>5. act'[p].step \in Telling => <<act'[p].target, Half(act'[p].kind)>> \in untold'
    BY <2>1, <2>3 DEF Tells, Telling, SameRequest, Half
  <2>6. ASSUME NEW t \in Known', t = act'[p].target, Settled(t)', NEW kind, kind = act'[p].kind
        PROVE  Agrees(t, Half(kind), kind)'
    <3>1. claimed
      BY <1>2, <2>2 DEF Unclaimed, Changed, Telling, Waits, Holding
    <3>2. t \in Known /\ Settled(t) /\ account'[t] = account[t]
      BY <2>6, <3>1
    <3>3. t = act[p].target /\ kind = act[p].kind
      BY <2>1, <2>6 DEF SameRequest
    <3>4. Agrees(t, Half(kind), kind)
      BY <2>2, <2>3, <3>2, <3>3 DEF Tells
    <3> QED BY <3>2, <3>4 DEF Agrees
  <2> QED BY <2>4, <2>5, <2>6 DEF Tells, Settled, Agrees, Half
<1>6. ASSUME NEW t \in Known', NEW half \in {"banned", "role"}, Settled(t)', <<t, half>> \notin untold
      PROVE  LastTells(t, half)'
  <2>1. t \in Accounts
    BY <1>6 DEF Known
  <2>2. LinesOf(t, half)' = LinesOf(t, half)
    BY <1>0, <1>6, <2>1, LinesOfStay
  <2>3. CASE ~ claimed
    <3>1. LinesOf(t, half) = {}
      BY <1>2, <2>1, <2>3 DEF Unclaimed, LinesOf, Held
    <3> QED BY <2>2, <3>1 DEF LastTells
  <2>4. CASE t \in Known /\ Settled(t) /\ account'[t] = account[t]
    <3>1. LastTells(t, half)
      BY <1>2, <1>6, <2>4 DEF AccountsTold
    <3>2. \A n \in LinesOf(t, half) : trail'[n].says = trail[n].says
      BY DEF LinesOf, Held, SameLines
    <3>3. \A says : Agrees(t, half, says)' <=> Agrees(t, half, says)
      BY <2>4 DEF Agrees
    <3> QED BY <2>2, <3>1, <3>2, <3>3 DEF LastTells
  <2> QED BY <1>6, <2>3, <2>4
<1>7. AccountsTold'
  BY <1>6 DEF AccountsTold
<1> QED BY <1>4, <1>5, <1>7

LEMMA SameTrailLines ==
    ASSUME TrailTypes, trail' = trail
    PROVE  SameLines
<1>1. Held' = Held
  BY DEF Held
<1>2. Len(trail) <= Len(trail) /\ \A n \in 1..Len(trail) : ~ (n > Len(trail))
  BY DEF TrailTypes
<1> QED BY <1>1, <1>2 DEF SameLines

(* A request goes on and changes nothing yet, or is answered.              *)
LEMMA TellTurns ==
    ASSUME IInv, IInv', TellInv, UNCHANGED trailVars,
           UNCHANGED <<fresh, account, claimed, stopped, untold>>,
           NEW p \in Requests, OthersStay(p), ~ Changed(p)',
           Orderly /\ Waits(p)' => Waits(p) \/ claimed,
           Orderly /\ act'[p].step \in ClaimSteps => act[p].step \in ClaimSteps \/ fresh,
           Inserted(p) => Inserted(p)' /\ act'[p].target = act[p].target
    PROVE  TellInv'
<1>1. TrailTypes /\ TrailTypes' /\ SameLines
  BY SameTrailLines DEF IInv, TrailInv, trailVars
<1>2. ASSUME NEW q \in Requests, Changed(q)'
      PROVE  /\ SameRequest(q) /\ act'[q].line = act[q].line /\ act'[q].step = act[q].step
  BY <1>2 DEF OthersStay, SameRequest
<1>3. Orderly' => Orderly /\ Unclaimed
  BY DEF Orderly, TellInv
<1>4. ASSUME Orderly', NEW q \in Requests
      PROVE  /\ ~ claimed' => ~ Waits(q)'
             /\ act'[q].step \in ClaimSteps => fresh
  <2>1. CASE q = p
    BY <1>3, <1>4, <2>1 DEF Unclaimed
  <2>2. CASE q # p
    BY <1>3, <1>4, <2>2 DEF Unclaimed, OthersStay, Waits
  <2> QED BY <2>1, <2>2
<1>5. \A t \in Known' : Settled(t)' => t \in Known /\ Settled(t) /\ account'[t] = account[t]
  <2>1. Known' = Known
    BY DEF Known
  <2>2. ASSUME NEW t, Settled(t)' PROVE Settled(t)
    BY <2>2 DEF Settled, Inserted, OthersStay
  <2> QED BY <2>1, <2>2
<1> QED BY <1>1, <1>2, <1>4, <1>5, TellStays

LEMMA AskTells ==
    ASSUME IInv, IInv', TellInv, NEW p \in Requests, Ask(p)
    PROVE  TellInv'
<1>1. PICK kind \in AccountKinds, s \in Servers, t \in Accounts,
           by \in {a \in SignedIn : Administers(a)} :
        act' = [act EXCEPT ![p] = Asked("waiting", kind, s, by, t)]
  BY Zenon DEF Ask, AccountKinds
<1>2. /\ act \in [Requests -> Acts] /\ act[p].step = "idle" /\ ActsOK /\ ClaimsOK
      /\ UNCHANGED trailVars /\ UNCHANGED <<fresh, account, claimed, stopped, untold>>
  BY DEF Ask, Comes, IInv, AccountsInv, AccountTypes
<1>3. OthersStay(p) /\ act'[p].step = "waiting"
  BY <1>1, <1>2 DEF OthersStay, Asked
<1>4. ~ Inserted(p) /\ ~ Changed(p)' /\ act'[p].step \notin ClaimSteps
  BY <1>2, <1>3 DEF Inserted, Changed, Telling, ClaimSteps
<1>5. Orderly => claimed
  <2>1. by \in Known /\ Settled(by)
    BY <1>2, SignedInSettled
  <2>2. ~ claimed /\ Orderly => fresh /\ ~ stopped
    BY DEF Orderly, TellInv, Unclaimed
  <2> QED BY <1>2, <2>1, <2>2 DEF ClaimsOK
<1> QED BY <1>2, <1>3, <1>4, <1>5, TellTurns

LEMMA ClaimTells ==
    ASSUME IInv, IInv', TellInv, NEW p \in Requests, Claim(p)
    PROVE  TellInv'
<1>1. PICK s \in Servers, t \in Accounts :
        act' = [act EXCEPT ![p] = Asked("gate", "claim", s, "", t)]
  BY Zenon DEF Claim
<1>2. /\ act \in [Requests -> Acts] /\ act[p].step = "idle" /\ ClaimsOK /\ Known = {}
      /\ UNCHANGED trailVars /\ UNCHANGED <<fresh, account, claimed, stopped, untold>>
  BY DEF Claim, Comes, IInv, AccountsInv, AccountTypes
<1>3. OthersStay(p) /\ act'[p].step = "gate"
  BY <1>1, <1>2 DEF OthersStay, Asked
<1>4. ~ Inserted(p) /\ ~ Changed(p)' /\ ~ Waits(p)'
  BY <1>2, <1>3 DEF Inserted, Changed, Telling, Waits, Holding
<1>5. Orderly => fresh
  <2>1. ~ claimed
    BY <1>2 DEF ClaimsOK, Administers, Known
  <2> QED BY <2>1 DEF TellInv, Unclaimed
<1> QED BY <1>2, <1>3, <1>4, <1>5, TellTurns

(* The steps of an act's turn up to its change, and its refusals.          *)
LEMMA TurnTells ==
    ASSUME IInv, IInv', TellInv, NEW p \in Requests,
           TakeLock(p) \/ GiveUp(p) \/ Still(p) \/ Everyone(p) \/ Target(p) \/ WriteMissing(p)
    PROVE  TellInv'
<1>1. /\ act \in [Requests -> Acts] /\ UNCHANGED trailVars
      /\ UNCHANGED <<fresh, account, claimed, stopped, untold>>
      /\ act[p].step \in {"waiting", "still", "everyone", "target", "write"}
  BY DEF TakeLock, GiveUp, Heads, Still, Everyone, Target, WriteMissing,
         IInv, AccountsInv, AccountTypes
<1>2. Waits(p) /\ ~ Inserted(p)
  BY <1>1 DEF Waits, Holding, Inserted
<1>3. OthersStay(p) /\ act'[p].step \in {"still", "everyone", "target", "write", "idle"}
  <2>1. CASE \E step \in {"still", "everyone", "target", "write"} : Goes(p, step)
    <3>1. PICK step \in {"still", "everyone", "target", "write"} : Goes(p, step)
      BY <2>1
    <3>2. step \in Steps
      BY DEF Steps
    <3> QED BY <1>1, <3>1, <3>2, GoesOn
  <2>2. CASE Ended(p)
    BY <1>1, <2>2, Answered DEF Ended
  <2>3. CASE Everyone(p)
    BY <1>1, <2>3 DEF Everyone, OthersStay
  <2> QED BY <2>1, <2>2, <2>3 DEF TakeLock, GiveUp, Still, Target, WriteMissing
<1>4. ~ Changed(p)' /\ act'[p].step \notin ClaimSteps
  BY <1>3 DEF Changed, Telling, ClaimSteps
<1> QED BY <1>1, <1>2, <1>3, <1>4, TellTurns

LEMMA ClaimStepTells ==
    ASSUME IInv, IInv', TellInv, NEW p \in Requests, ClaimStep(p)
    PROVE  TellInv'
<1>0. /\ act \in [Requests -> Acts] /\ act[p].step \in ClaimSteps
      /\ account \in [Accounts -> Person] /\ ActsOK /\ act[p].target \in Accounts
      /\ UNCHANGED trailVars /\ UNCHANGED <<fresh, stopped, untold>> /\ (claimed => claimed')
      /\ TrailTypes /\ TrailTypes' /\ claimed' \in BOOLEAN
  <2>1. act[p].step \in ClaimSteps
    BY DEF ClaimStep, Gate, RoleForNewUser, Insert, Take, TakeBack, ClaimSteps
  <2> QED BY <2>1 DEF ClaimStep, Gate, RoleForNewUser, Insert, Take, TakeBack,
            IInv, AccountsInv, AccountTypes, TrailInv, ActsOK, ActOK
<1>1. /\ OthersStay(p) /\ act'[p].step \in ClaimSteps \cup {"idle"}
      /\ act'[p].step \in ClaimSteps => act'[p].target = act[p].target
  <2>1. CASE \E step \in ClaimSteps : Goes(p, step)
    <3>1. PICK step \in ClaimSteps : Goes(p, step)
      BY <2>1
    <3>2. step \in Steps
      BY DEF Steps, ClaimSteps
    <3> QED BY <1>0, <3>1, <3>2, GoesOn DEF SameRequest
  <2>2. CASE Refused(p)
    BY <1>0, <2>2, Answered DEF Refused, ClaimSteps
  <2>3. CASE RoleForNewUser(p)
    BY <1>0, <2>3 DEF RoleForNewUser, OthersStay, ClaimSteps
  <2> QED BY <2>1, <2>2, <2>3 DEF ClaimStep, Gate, Insert, Take, TakeBack, ClaimSteps
<1>2. \A q \in Requests : Changed(q)' => act'[q] = act[q]
  BY <1>1 DEF OthersStay, Changed, Telling, ClaimSteps
<1>3. ASSUME Orderly', NEW q \in Requests
      PROVE  /\ ~ claimed' => ~ Waits(q)'
             /\ act'[q].step \in ClaimSteps => fresh
  <2>0. fresh' = fresh /\ stopped' = stopped /\ (~ claimed' => ~ claimed)
    BY <1>0
  <2>1. Unclaimed
    BY <1>3, <2>0, Zenon DEF Orderly, TellInv
  <2>2. CASE q = p
    BY <1>0, <1>1, <2>1, <2>2 DEF Unclaimed, Waits, Holding, ClaimSteps
  <2>3. CASE q # p
    <3>1. act'[q] = act[q]
      BY <1>1, <2>3 DEF OthersStay
    <3> QED BY <2>0, <2>1, <3>1, Zenon DEF Unclaimed, Waits
  <2> QED BY <2>2, <2>3
<1>4. ASSUME NEW t \in Known', Settled(t)'
      PROVE  ~ claimed \/ (t \in Known /\ Settled(t) /\ account'[t] = account[t])
  <2>0. t \in Accounts /\ account'[t].role # "none"
    BY DEF Known
  <2>1. ASSUME t # act[p].target PROVE t \in Known /\ Settled(t) /\ account'[t] = account[t]
    <3>1. account'[t] = account[t]
      BY <1>0, <2>0, <2>1 DEF ClaimStep, Gate, RoleForNewUser, Insert, Take, TakeBack
    <3>2. Settled(t)
      BY <1>1, <1>4, <2>1 DEF Settled, Inserted, OthersStay
    <3> QED BY <2>0, <3>1, <3>2 DEF Known
  <2>2. CASE ~ Inserted(p) /\ ~ Inserted(p)' /\ account' = account
    BY <1>1, <1>4, <2>0, <2>2 DEF Known, Settled, Inserted, OthersStay
  <2>3. CASE Inserted(p)'
    BY <1>1, <1>4, <2>1, <2>3 DEF Settled, Inserted, ClaimSteps
  <2>4. CASE ~ claimed
    BY <2>4
  <2>5. CASE TakeBack(p)
    <3>1. account' = [account EXCEPT ![act[p].target] = Nobody] /\ Nobody.role = "none"
      BY <2>5 DEF TakeBack, Nobody
    <3>2. t # act[p].target
      BY <1>0, <2>0, <3>1
    <3> QED BY <2>1, <3>2
  <2>6. CASE Gate(p) \/ RoleForNewUser(p)
    <3>1. ~ Inserted(p) /\ ~ Inserted(p)' /\ account' = account
      <4>1. CASE Gate(p)
        <5>1. act'[p].step \in {"role", "idle"}
          BY <1>0, <4>1, GoesOn, Answered DEF Gate, Refused, Steps
        <5> QED BY <4>1, <5>1 DEF Gate, Inserted
      <4>2. CASE RoleForNewUser(p)
        BY <1>0, <4>2 DEF RoleForNewUser, Inserted
      <4> QED BY <2>6, <4>1, <4>2
    <3> QED BY <2>2, <3>1
  <2>7. CASE Insert(p)
    <3>1. CASE Refused(p) /\ account' = account
      <4>1. act'[p].step = "idle"
        BY <1>0, <3>1, Answered DEF Refused
      <4> QED BY <2>2, <2>7, <3>1, <4>1 DEF Insert, Inserted
    <3>2. CASE Goes(p, "take")
      <4>1. act'[p].step = "take"
        BY <1>0, <3>2, GoesOn DEF Steps
      <4> QED BY <2>3, <4>1 DEF Inserted
    <3> QED BY <2>7, <3>1, <3>2 DEF Insert
  <2>8. CASE Take(p) /\ claimed
    <3>1. act'[p].step = "back"
      BY <1>0, <2>8, GoesOn DEF Take, Steps
    <3> QED BY <2>3, <3>1 DEF Inserted
  <2> QED BY <2>4, <2>5, <2>6, <2>7, <2>8 DEF ClaimStep
<1>5. SameLines
  <2>1. trail' = trail
    BY <1>0 DEF trailVars
  <2> QED BY <1>0, <2>1, SameTrailLines
<1>6. ASSUME NEW q \in Requests, Changed(q)'
      PROVE  /\ SameRequest(q) /\ act'[q].line = act[q].line /\ act'[q].step = act[q].step
  BY <1>2, <1>6 DEF SameRequest
<1>7. fresh' = fresh /\ untold' = untold /\ (stopped => stopped') /\ (claimed => claimed')
  BY <1>0
<1> QED BY <1>0, <1>3, <1>4, <1>5, <1>6, <1>7, TellStays

(* The rest of an act: what it made of the account, and its line.          *)
LEMMA OneHolds ==
    ASSUME IInv, NEW p \in Requests, act[p].step \in Holding,
           NEW q \in Requests, q # p
    PROVE  act[q].step \notin Holding
  BY DEF IInv, AccountsInv, LockOK

LEMMA SamePerson ==
    ASSUME NEW a \in Person, NEW b \in Person, a.role = b.role, a.banned = b.banned
    PROVE  a = b
  BY DEF Person

(* One half of the account becomes what the act's kind says.               *)
LEMMA HalfChanges ==
    ASSUME AccountTypes, NEW p \in Requests, act[p].kind \in AccountKinds,
           act[p].target \in Accounts
    PROVE  /\ Becomes(p) \in Person
           /\ Half(act[p].kind) = "banned" =>
                 /\ Becomes(p).role = account[act[p].target].role
                 /\ Becomes(p).banned <=> act[p].kind = "disable"
           /\ Half(act[p].kind) = "role" =>
                 /\ Becomes(p).banned = account[act[p].target].banned
                 /\ Becomes(p).role = act[p].kind
           /\ Half(act[p].kind) \in {"banned", "role"}
<1>1. PICK had \in Person : had = account[act[p].target]
  BY DEF AccountTypes
<1>2. PICK kind \in AccountKinds : kind = act[p].kind
  OBVIOUS
<1>3. CASE kind = "disable"
  <2>1. PICK new : new = [had EXCEPT !.banned = TRUE]
    OBVIOUS
  <2>2. Becomes(p) = new
    BY <1>1, <1>2, <1>3, <2>1, Zenon DEF Becomes
  <2>3. new \in Person /\ new.role = had.role /\ new.banned
    BY <2>1 DEF Person
  <2> QED BY <1>1, <1>2, <1>3, <2>2, <2>3 DEF Half
<1>4. CASE kind = "enable"
  <2>1. PICK new : new = [had EXCEPT !.banned = FALSE]
    OBVIOUS
  <2>2. Becomes(p) = new
    BY <1>1, <1>2, <1>4, <2>1 DEF Becomes
  <2>3. new \in Person /\ new.role = had.role /\ ~ new.banned
    BY <2>1 DEF Person
  <2> QED BY <1>1, <1>2, <1>4, <2>2, <2>3 DEF Half
<1>5. CASE kind \in {"admin", "analyst"}
  <2>1. PICK new : new = [had EXCEPT !.role = kind]
    OBVIOUS
  <2>2. Becomes(p) = new
    BY <1>1, <1>2, <1>5, <2>1 DEF Becomes
  <2>3. new \in Person /\ new.role = kind /\ new.banned = had.banned
    BY <1>5, <2>1 DEF Person
  <2> QED BY <1>1, <1>2, <1>5, <2>2, <2>3 DEF Half
<1> QED BY <1>2, <1>3, <1>4, <1>5 DEF AccountKinds

(* What the library writes once more is what the account already is.       *)
LEMMA LibraryTells ==
    ASSUME IInv, IInv', TellInv, NEW p \in Requests, Library(p)
    PROVE  TellInv'
<1> DEFINE t == act[p].target
<1>0. /\ act \in [Requests -> Acts] /\ act[p].step = "library" /\ act[p].step \in Holding
      /\ UNCHANGED trailVars /\ Ended(p) /\ AccountTypes
      /\ fresh' = fresh /\ stopped' = stopped /\ claimed' = claimed /\ untold' = untold
      /\ trail' = trail /\ TrailTypes /\ TrailTypes'
  BY DEF Library, Holding, IInv, AccountsInv, AccountTypes, TrailInv, trailVars
<1>1. OthersStay(p) /\ act'[p].step = "idle"
  BY <1>0, Answered DEF Ended
<1>2. /\ Waits(p) /\ ~ Inserted(p) /\ t \in Accounts /\ act[p].kind \in AccountKinds
  BY <1>0, InTurn
<1>3. /\ account \in [Accounts -> Person] /\ account' \in [Accounts -> Person]
      /\ \A u \in Accounts : u # t => account'[u] = account[u]
      /\ account'[t] \in {account[t], Becomes(p)}
      /\ Known' = Known
  <2>1. CASE account' = account
    BY <1>0, <2>1 DEF AccountTypes, Known
  <2>2. CASE t \in Known /\ account' = [account EXCEPT ![t] = Becomes(p)]
    <3>1. account' \in [Accounts -> Person] /\ Known' = Known
      BY <1>0, <2>2, Written DEF IInv, AccountsInv
    <3> QED BY <1>0, <1>2, <2>2, <3>1 DEF AccountTypes
  <2> QED BY <2>1, <2>2 DEF Library
<1>4. ASSUME Orderly, t \in Known, Settled(t) PROVE account'[t] = account[t]
  <2>1. Agrees(t, Half(act[p].kind), act[p].kind)
    BY <1>0, <1>4 DEF TellInv, Tells, Changed
  <2>2. PICK new \in Person : new = Becomes(p)
    BY <1>0, <1>2, HalfChanges
  <2>3. PICK had \in Person : had = account[t]
    BY <1>2, <1>3
  <2>4. CASE Half(act[p].kind) = "banned"
    <3>1. new.role = had.role /\ (new.banned <=> had.banned)
      BY <1>0, <1>2, <2>1, <2>2, <2>3, <2>4, HalfChanges DEF Agrees
    <3>2. new.banned \in BOOLEAN /\ had.banned \in BOOLEAN
      BY DEF Person
    <3>3. new = had
      BY <3>1, <3>2, SamePerson
    <3> QED BY <1>3, <2>2, <2>3, <3>3
  <2>5. CASE Half(act[p].kind) = "role"
    <3>1. new.role = had.role /\ new.banned = had.banned
      BY <1>0, <1>2, <2>1, <2>2, <2>3, <2>5, HalfChanges DEF Agrees
    <3>2. new = had
      BY <3>1, SamePerson
    <3> QED BY <1>3, <2>2, <2>3, <3>2
  <2> QED BY <1>0, <1>2, <2>4, <2>5, HalfChanges
<1>5. ASSUME Orderly', NEW q \in Requests
      PROVE  /\ ~ claimed' => ~ Waits(q)'
             /\ act'[q].step \in ClaimSteps => fresh
  <2>1. Unclaimed
    BY <1>0, <1>5, Zenon DEF Orderly, TellInv
  <2>2. CASE q = p
    BY <1>1, <2>2 DEF Waits, Holding, ClaimSteps
  <2>3. CASE q # p
    <3>1. act'[q] = act[q]
      BY <1>1, <2>3 DEF OthersStay
    <3> QED BY <1>0, <2>1, <3>1, Zenon DEF Unclaimed, Waits
  <2> QED BY <2>2, <2>3
<1>6. ASSUME Orderly', NEW u \in Known', Settled(u)'
      PROVE  u \in Known /\ Settled(u) /\ account'[u] = account[u]
  <2>1. u \in Known /\ u \in Accounts /\ Orderly
    BY <1>0, <1>3, <1>6 DEF Orderly, Known
  <2>2. Settled(u)
    BY <1>1, <1>2, <1>6 DEF Settled, Inserted, OthersStay
  <2> QED BY <1>3, <1>4, <2>1, <2>2
<1>7. ASSUME NEW q \in Requests, Changed(q)'
      PROVE  /\ SameRequest(q) /\ act'[q].line = act[q].line /\ act'[q].step = act[q].step
  BY <1>1, <1>7 DEF SameRequest, OthersStay, Changed, Telling
<1>8. SameLines
  BY <1>0, SameTrailLines
<1> QED BY <1>0, <1>5, <1>6, <1>7, <1>8, TellStays

(* The change itself: no line tells it yet, of the half it is of, and the  *)
(* other half stays as it was told.                                        *)
LEMMA WriteTells ==
    ASSUME IInv, TellInv, NEW p \in Requests, Write(p)
    PROVE  TellInv'
<1> DEFINE t == act[p].target
           kind == act[p].kind
<1>0. /\ act \in [Requests -> Acts] /\ act[p].step = "write" /\ act[p].step \in Holding
      /\ trail' = trail /\ AccountTypes /\ ActsOK
      /\ fresh' = fresh /\ stopped' = stopped /\ claimed' = claimed
      /\ t \in Known /\ account' = [account EXCEPT ![t] = Becomes(p)]
  BY DEF Write, Holding, IInv, AccountsInv, AccountTypes, trailVars
<1>1. PICK step \in {"line", "library"} :
        /\ Goes(p, step)
        /\ step = "line" => untold' = untold \cup {<<t, Half(kind)>>}
        /\ step = "library" => untold' = untold /\ account' = account
  BY DEF Write
<1>2. OthersStay(p) /\ SameRequest(p) /\ act'[p].step = step
  <2>1. step \in Steps
    BY DEF Steps
  <2> QED BY <1>0, <1>1, <2>1, GoesOn
<1>3. Waits(p) /\ ~ Inserted(p) /\ ~ Inserted(p)' /\ t \in Accounts /\ kind \in AccountKinds
  BY <1>0, <1>2, InTurn DEF Inserted
<1>4. /\ account'[t] = Becomes(p) /\ \A u \in Accounts : u # t => account'[u] = account[u]
      /\ Known' = Known
  BY <1>0, <1>3, Written DEF AccountTypes
<1>5. \A u : Settled(u)' <=> Settled(u)
  BY <1>2, <1>3 DEF Settled, Inserted, OthersStay
<1>6. OthersLines' /\ Held' = Held
  BY <1>0 DEF TellInv, OthersLines, Held
<1> SUFFICES ASSUME Orderly'
             PROVE  Unclaimed' /\ (\A q \in Requests : Tells(q)') /\ AccountsTold'
  BY <1>6 DEF TellInv
<1>7. Unclaimed /\ (\A q \in Requests : Tells(q)) /\ AccountsTold
  BY <1>0, Zenon DEF Orderly, TellInv
<1>8. Unclaimed'
  <2>1. claimed
    BY <1>3, <1>7 DEF Unclaimed
  <2>2. \A q \in Requests : act'[q].step \in ClaimSteps => act[q].step \in ClaimSteps
    BY <1>2 DEF OthersStay, ClaimSteps
  <2> QED BY <1>0, <1>7, <2>1, <2>2 DEF Unclaimed
<1>9. ASSUME NEW u, u = t, NEW k, k = kind, NEW half, half = Half(k) PROVE Agrees(u, half, k)'
  <2>1. half \in {"banned", "role"}
    BY <1>0, <1>3, <1>9, HalfChanges
  <2>2. CASE half = "banned"
    <3>1. account'[u].banned <=> k = "disable"
      BY <1>0, <1>3, <1>4, <1>9, <2>2, HalfChanges
    <3> QED BY <2>2, <3>1 DEF Agrees
  <2>3. CASE half = "role"
    <3>1. account'[u].role = k
      <4>1. Half(kind) = "role"
        BY <1>9, <2>3
      <4>2. Becomes(p).role = kind
        BY <1>0, <1>3, <4>1, HalfChanges
      <4> QED BY <1>4, <1>9, <4>2, Zenon
    <3> QED BY <2>3, <3>1 DEF Agrees
  <2> QED BY <2>1, <2>2, <2>3
<1>10. ASSUME NEW q \in Requests PROVE Tells(q)'
  <2>1. CASE q # p
    <3>1. act'[q] = act[q] /\ act[q].step \notin Holding
      BY <1>0, <1>2, <2>1, OneHolds DEF OthersStay
    <3> QED BY <3>1 DEF Tells, Changed, Telling, Holding
  <2>2. CASE q = p
    <3>1. act'[q].step # "open"
      BY <1>2, <2>2
    <3>2. act'[q].step \in Telling => <<act'[q].target, Half(act'[q].kind)>> \in untold'
      BY <1>1, <1>2, <2>2 DEF Telling, SameRequest, Half
    <3>3. ASSUME NEW u, u = act'[q].target, NEW k, k = act'[q].kind
          PROVE  Agrees(u, Half(k), k)'
      <4>1. u = t /\ k = kind
        BY <1>2, <2>2, <3>3 DEF SameRequest
      <4> QED BY <1>9, <4>1
    <3> QED BY <3>1, <3>2, <3>3 DEF Tells, Agrees, Half
  <2> QED BY <2>1, <2>2
<1>11. ASSUME NEW u \in Known', NEW half \in {"banned", "role"}, Settled(u)', <<u, half>> \notin untold'
       PROVE  LastTells(u, half)'
  <2>1. u \in Known /\ u \in Accounts /\ Settled(u) /\ <<u, half>> \notin untold
    BY <1>1, <1>4, <1>5, <1>11 DEF Known
  <2>2. LastTells(u, half)
    BY <1>7, <2>1 DEF AccountsTold
  <2>3. LinesOf(u, half)' = LinesOf(u, half)
    BY <1>0, <1>6 DEF LinesOf
  <2>4. ASSUME NEW says PROVE Agrees(u, half, says)' <=> Agrees(u, half, says)
    <3>1. CASE account'[u] = account[u]
      BY <3>1 DEF Agrees
    <3>2. CASE u = t /\ step = "line"
      <4>1. half # Half(kind)
        BY <1>1, <1>11, <3>2
      <4>2. CASE Half(kind) = "banned"
        <5>1. account'[u].role = account[u].role /\ half = "role"
          BY <1>0, <1>3, <1>4, <3>2, <4>1, <4>2, HalfChanges
        <5> QED BY <5>1 DEF Agrees
      <4>3. CASE Half(kind) = "role"
        <5>1. account'[u].banned = account[u].banned /\ half = "banned"
          BY <1>0, <1>3, <1>4, <3>2, <4>1, <4>3, HalfChanges
        <5> QED BY <5>1 DEF Agrees
      <4> QED BY <1>0, <1>3, <4>2, <4>3, HalfChanges
    <3> QED BY <1>1, <1>4, <2>1, <3>1, <3>2
  <2> QED BY <1>0, <2>2, <2>3, <2>4 DEF LastTells
<1> QED BY <1>8, <1>10, <1>11 DEF AccountsTold

(* A line numbered is the newest of any account.                           *)
LEMMA RecordTells ==
    ASSUME IInv, TellInv, NEW p \in Requests, Record(p)
    PROVE  TellInv'
<1> DEFINE t == act[p].target
           kind == act[p].kind
           line == Len(trail) + 1
<1>0. /\ act \in [Requests -> Acts] /\ act[p].step = "line" /\ act[p].step \in Holding
      /\ AccountTypes /\ ActsOK /\ LinesOK /\ TrailInv
      /\ fresh' = fresh /\ stopped' = stopped /\ claimed' = claimed
      /\ account' = account /\ untold' = untold
      /\ trail' = Numbered(t, kind) /\ trail \in Seq(Line) /\ Len(trail) \in Nat
  BY DEF Record, Holding, IInv, AccountsInv, AccountTypes, TrailInv, TrailTypes
<1>1. /\ OthersStay(p) /\ SameRequest(p) /\ act'[p].step = "open"
  BY <1>0, RecordKeeps
<1>2. act'[p].line = line
  <2>1. PICK old \in Acts : old = act[p]
    BY <1>0
  <2>2. PICK new \in Acts :
          /\ new = [old EXCEPT !.step = "open", !.line = line]
          /\ new.step = "open" /\ new.kind = old.kind /\ new.at = old.at
          /\ new.by = old.by /\ new.target = old.target /\ new.line = line
    <3>1. line \in Nat
      BY <1>0
    <3> HIDE DEF line
    <3> QED BY <3>1, RecordOpen
  <2>3. act' = [act EXCEPT ![p] = new]
    BY <2>1, <2>2, Zenon DEF Record
  <2> QED BY <1>0, <2>2, <2>3
<1>3. Waits(p) /\ ~ Inserted(p) /\ ~ Inserted(p)' /\ t \in Accounts /\ kind \in AccountKinds
  BY <1>0, <1>1, InTurn DEF Inserted
<1>4. PICK new : new = [of |-> t, says |-> kind, state |-> "open", late |-> FALSE]
  OBVIOUS
<1>5. new \in Line /\ new.of = t /\ new.says = kind /\ new.state = "open"
  BY <1>3, <1>4 DEF Line, AccountKinds
<1>6. /\ Len(trail') = line /\ trail'[line] = new
      /\ \A n \in 1..Len(trail) : trail'[n] = trail[n]
  <2>1. trail' = Append(trail, new)
    BY <1>0, <1>4, Zenon DEF Numbered
  <2> QED BY <1>0, <1>5, <2>1, AppendProperties
<1>7. \A n \in 1..Len(trail') : n \in 1..Len(trail) \/ n = line
  BY <1>0, <1>6
<1>8. OthersLines'
  <2>1. kind \notin {"pruned", "other"}
    BY <1>3 DEF AccountKinds
  <2> QED BY <1>5, <1>6, <1>7, <2>1 DEF TellInv, OthersLines
<1>9. Held' = Held /\ Known' = Known /\ \A u : Settled(u)' <=> Settled(u)
  <2>1. Held' = Held
    BY <1>0, <1>5, <1>6, <1>7 DEF Held
  <2> QED BY <1>0, <1>1, <1>3, <2>1 DEF Known, Settled, Inserted, OthersStay
<1> SUFFICES ASSUME Orderly'
             PROVE  Unclaimed' /\ (\A q \in Requests : Tells(q)') /\ AccountsTold'
  BY <1>8 DEF TellInv
<1>10. Unclaimed /\ (\A q \in Requests : Tells(q)) /\ AccountsTold
  BY <1>0, Zenon DEF Orderly, TellInv
<1>11. Unclaimed'
  <2>1. claimed
    BY <1>3, <1>10 DEF Unclaimed
  <2>2. \A q \in Requests : act'[q].step \in ClaimSteps => act[q].step \in ClaimSteps
    BY <1>1 DEF OthersStay, ClaimSteps
  <2> QED BY <1>0, <1>10, <2>1, <2>2 DEF Unclaimed
<1>12. ASSUME NEW q \in Requests PROVE Tells(q)'
  <2>1. CASE q # p
    <3>1. act'[q] = act[q] /\ act[q].step \notin Holding
      BY <1>0, <1>1, <2>1, OneHolds DEF OthersStay
    <3> QED BY <3>1 DEF Tells, Changed, Telling, Holding
  <2>2. CASE q = p
    <3>1. act'[q].target = t /\ act'[q].kind = kind /\ act'[q].line = line
      BY <1>1, <1>2, <2>2 DEF SameRequest
    <3>2. /\ trail'[line].of = t /\ trail'[line].says = kind
          /\ \A m \in 1..Len(trail') : ~ (m > line)
      BY <1>0, <1>5, <1>6, <1>7
    <3>3. <<t, Half(kind)>> \in untold'
      BY <1>0, <1>10 DEF Tells, Telling
    <3>4. t \in Known /\ Settled(t) => Agrees(t, Half(kind), kind)
      BY <1>0, <1>10 DEF Tells, Changed, Telling
    <3>5. ASSUME NEW u \in Known, u = t, Settled(u), NEW k, k = kind
          PROVE  Agrees(u, Half(k), k)'
      BY <1>0, <3>4, <3>5 DEF Agrees, Half
    <3> QED BY <1>9, <3>1, <3>2, <3>3, <3>5 DEF Tells, Half, Agrees
  <2> QED BY <2>1, <2>2
<1>13. ASSUME NEW u \in Known', NEW half \in {"banned", "role"}, Settled(u)', <<u, half>> \notin untold'
       PROVE  LastTells(u, half)'
  <2>1. LastTells(u, half)
    BY <1>0, <1>9, <1>10, <1>13 DEF AccountsTold
  <2>2. \A n \in Held : trail'[n] = trail[n]
    BY <1>6 DEF Held
  <2>3. LinesOf(u, half)' = LinesOf(u, half)
    BY <1>9, <2>2 DEF LinesOf
  <2>4. \A says : Agrees(u, half, says)' <=> Agrees(u, half, says)
    BY <1>0 DEF Agrees
  <2> QED BY <2>1, <2>2, <2>3, <2>4 DEF LastTells, LinesOf
<1> QED BY <1>11, <1>12, <1>13 DEF AccountsTold

(* The line that ends stays of its account.                                *)
LEMMA EndedLine ==
    ASSUME NEW old \in Seq(Line), NEW n \in 1..Len(old), NEW lines
    PROVE  /\ lines = Stored(old, n) =>
                 /\ Len(lines) = Len(old) /\ lines[n].state = "stored"
                 /\ lines[n].of = old[n].of /\ lines[n].says = old[n].says
                 /\ \A m \in 1..Len(old) : m # n => lines[m] = old[m]
           /\ lines = Voided(old, n) =>
                 /\ Len(lines) = Len(old) /\ lines[n].state = "void"
                 /\ lines[n].of = old[n].of /\ lines[n].says = old[n].says
                 /\ \A m \in 1..Len(old) : m # n => lines[m] = old[m]
<1>1. old[n] \in Line /\ Behind(n) \in BOOLEAN
  BY DEF Behind
<1>2. \A line \in Line, late \in BOOLEAN : \E stored \in Line :
        /\ stored = [line EXCEPT !.state = "stored", !.late = late]
        /\ stored.state = "stored" /\ stored.of = line.of /\ stored.says = line.says
  <2> TAKE line \in Line, late \in BOOLEAN
  <2>1. [line EXCEPT !.state = "stored", !.late = late] \in Line
    BY DEF Line
  <2> WITNESS [line EXCEPT !.state = "stored", !.late = late] \in Line
  <2> QED BY DEF Line
<1>3. \A line \in Line : \E voided \in Line :
        /\ voided = [line EXCEPT !.state = "void"]
        /\ voided.state = "void" /\ voided.of = line.of /\ voided.says = line.says
  <2> TAKE line \in Line
  <2>1. [line EXCEPT !.state = "void"] \in Line
    BY DEF Line
  <2> WITNESS [line EXCEPT !.state = "void"] \in Line
  <2> QED BY DEF Line
<1>4. CASE lines = Stored(old, n)
  <2>1. PICK stored \in Line :
          /\ stored = [old[n] EXCEPT !.state = "stored", !.late = Behind(n)]
          /\ stored.state = "stored" /\ stored.of = old[n].of /\ stored.says = old[n].says
    BY <1>1, <1>2
  <2>2. lines = [old EXCEPT ![n] = stored]
    BY <1>4, <2>1, Zenon DEF Stored
  <2>3. Stored(old, n) # Voided(old, n)
    <3>1. PICK voided \in Line :
            voided = [old[n] EXCEPT !.state = "void"] /\ voided.state = "void"
      BY <1>1, <1>3
    <3>2. Voided(old, n) = [old EXCEPT ![n] = voided]
      BY <3>1, Zenon DEF Voided
    <3>3. Stored(old, n)[n] = stored /\ Voided(old, n)[n] = voided
      BY <1>1, <1>4, <2>2, <3>2
    <3>4. stored # voided
      BY <2>1, <3>1
    <3> QED BY <3>3, <3>4, Zenon
  <2> QED BY <1>1, <1>4, <2>1, <2>2, <2>3, ExceptSeq
<1>5. CASE lines = Voided(old, n) /\ lines # Stored(old, n)
  <2>1. PICK voided \in Line :
          /\ voided = [old[n] EXCEPT !.state = "void"]
          /\ voided.state = "void" /\ voided.of = old[n].of /\ voided.says = old[n].says
    BY <1>1, <1>3
  <2>2. lines = [old EXCEPT ![n] = voided]
    BY <1>5, <2>1, Zenon DEF Voided
  <2> QED BY <1>1, <1>5, <2>1, <2>2, ExceptSeq
<1> QED BY <1>4, <1>5

(* A line stored is the newest of its account, and says what it is; one    *)
(* that is not leaves the change untold.                                   *)
LEMMA RecordedTells ==
    ASSUME IInv, IInv', TellInv, NEW p \in Requests, Recorded(p)
    PROVE  TellInv'
<1> DEFINE t == act[p].target
           kind == act[p].kind
           line == act[p].line
<1>0. /\ act \in [Requests -> Acts] /\ act[p].step = "open" /\ act[p].step \in Holding
      /\ AccountTypes /\ TrailTypes /\ TrailTypes' /\ Len(trail) \in Nat /\ trail \in Seq(Line)
      /\ fresh' = fresh /\ stopped' = stopped /\ claimed' = claimed /\ account' = account
      /\ Goes(p, "library")
  BY DEF Recorded, Holding, IInv, AccountsInv, AccountTypes, TrailInv, TrailTypes
<1>1. OthersStay(p) /\ SameRequest(p) /\ act'[p].step = "library" /\ act'[p].line = line
  <2>1. "library" \in Steps
    BY DEF Steps
  <2> QED BY <1>0, <2>1, GoesOn
<1>2. Waits(p) /\ ~ Inserted(p) /\ ~ Inserted(p)' /\ t \in Accounts /\ kind \in AccountKinds
  BY <1>0, <1>1, InTurn DEF Inserted
<1>3. line \in 1..Len(trail) /\ trail[line].state = "open"
  BY <1>0 DEF IInv, AccountsInv, LinesOK
<1>4. Known' = Known /\ \A u : Settled(u)' <=> Settled(u)
  BY <1>0, <1>1, <1>2 DEF Known, Settled, Inserted, OthersStay
<1>5. /\ Len(trail') = Len(trail)
      /\ \A n \in 1..Len(trail) : trail'[n].of = trail[n].of /\ trail'[n].says = trail[n].says
      /\ \A n \in 1..Len(trail) : n # line => trail'[n] = trail[n]
      /\ trail' = Stored(trail, line) => trail'[line].state = "stored"
      /\ trail' = Voided(trail, line) => trail'[line].state = "void"
  BY <1>0, <1>3, EndedLine DEF Recorded
<1>6. \A u, half, says : Agrees(u, half, says)' <=> Agrees(u, half, says)
  BY <1>0 DEF Agrees
<1>7. ASSUME NEW q \in Requests, Changed(q)'
      PROVE  /\ SameRequest(q) /\ act'[q].line = act[q].line
             /\ act'[q].step = act[q].step \/ (act[q].step = "open" /\ act'[q].step = "library")
  BY <1>0, <1>1 DEF SameRequest, OthersStay
<1>8. ASSUME Orderly'
      PROVE  /\ Orderly /\ Unclaimed /\ (\A q \in Requests : Tells(q)) /\ AccountsTold
             /\ claimed /\ claimed'
             /\ \A q \in Requests : act'[q].step \in ClaimSteps => fresh
  <2>1. Orderly /\ Unclaimed /\ (\A q \in Requests : Tells(q)) /\ AccountsTold
    BY <1>0, <1>8, Zenon DEF Orderly, TellInv
  <2>2. claimed
    BY <1>2, <2>1 DEF Unclaimed
  <2>3. \A q \in Requests : act'[q].step \in ClaimSteps => act[q].step \in ClaimSteps
    BY <1>1 DEF OthersStay, ClaimSteps
  <2> QED BY <1>0, <2>1, <2>2, <2>3 DEF Unclaimed
<1>9. CASE trail' = Voided(trail, line) /\ untold' = untold
  <2>1. Held' = Held
    BY <1>3, <1>5, <1>9 DEF Held
  <2>2. SameLines
    <3>1. Len(trail) <= Len(trail') /\ \A n \in 1..Len(trail') : ~ (n > Len(trail))
      BY <1>0, <1>5
    <3> QED BY <1>5, <2>1, <3>1 DEF SameLines
  <2> QED BY <1>0, <1>4, <1>7, <1>8, <1>9, <2>2, TellStays
<1>10. CASE trail' = Stored(trail, line) /\ untold' = untold \ {<<t, Half(kind)>>}
  <2>1. Held' = Held \cup {line} /\ line \notin Held
    BY <1>3, <1>5, <1>10 DEF Held
  <2>2. OthersLines'
    BY <1>5 DEF TellInv, OthersLines
  <2> SUFFICES ASSUME Orderly'
               PROVE  Unclaimed' /\ (\A q \in Requests : Tells(q)') /\ AccountsTold'
    BY <2>2 DEF TellInv
  <2>3. Tells(p)
    BY <1>8
  <2>4. Unclaimed'
    BY <1>0, <1>8 DEF Unclaimed
  <2>5. ASSUME NEW q \in Requests PROVE Tells(q)'
    <3>1. CASE q # p
      <4>1. act'[q] = act[q] /\ act[q].step \notin Holding
        BY <1>0, <1>1, <3>1, OneHolds DEF OthersStay
      <4> QED BY <4>1 DEF Tells, Changed, Telling, Holding
    <3>2. CASE q = p
      <4>1. act'[q].target = t /\ act'[q].kind = kind /\ act'[q].step = "library"
        BY <1>1, <3>2 DEF SameRequest
      <4>2. ASSUME NEW u \in Known, u = t, Settled(u), NEW k, k = kind
            PROVE  Agrees(u, Half(k), k)'
        <5>1. Agrees(u, Half(k), k)
          BY <1>0, <2>3, <4>2 DEF Tells, Changed, Telling
        <5> QED BY <1>0, <5>1 DEF Agrees, Half
      <4> QED BY <1>4, <4>1, <4>2 DEF Tells, Telling, Half, Agrees
    <3> QED BY <3>1, <3>2
  <2>6. ASSUME NEW u \in Known', NEW half \in {"banned", "role"}, Settled(u)', <<u, half>> \notin untold'
        PROVE  LastTells(u, half)'
    <3>0. u \in Known /\ Settled(u) /\ u \in Accounts
      BY <1>4, <2>6 DEF Known
    <3>1. CASE u = t /\ half = Half(kind)
      <4>1. trail[line].of = t /\ trail[line].says = kind
            /\ \A m \in 1..Len(trail) : m > line => trail[m].of \notin Accounts
        BY <1>0, <2>3 DEF Tells
      <4>2. line \in LinesOf(u, half)' /\ trail'[line].says = kind
        BY <1>3, <1>5, <2>1, <3>1, <4>1 DEF LinesOf, Held
      <4>3. ASSUME NEW m \in LinesOf(u, half)' PROVE m <= line
        <5>1. m \in 1..Len(trail) /\ trail[m].of = u
          BY <1>5, <4>3 DEF LinesOf, Held
        <5>2. ~ (m > line)
          BY <3>0, <4>1, <5>1
        <5> QED BY <1>0, <1>3, <5>1, <5>2
      <4>4. Agrees(u, half, kind)
        BY <1>0, <2>3, <3>0, <3>1 DEF Tells, Changed, Telling
      <4>5. PICK n : n = line
        OBVIOUS
      <4>6. Agrees(u, half, trail'[n].says)
        BY <4>2, <4>4, <4>5
      <4>7. /\ n \in LinesOf(u, half)' /\ \A m \in LinesOf(u, half)' : m <= n
            /\ Agrees(u, half, trail[n].says)'
        BY <1>0, <4>2, <4>3, <4>5, <4>6 DEF Agrees
      <4> QED BY <4>7 DEF LastTells
    <3>2. CASE ~ (u = t /\ half = Half(kind))
      <4>1. <<u, half>> \notin untold
        BY <1>10, <2>6, <3>2
      <4>2. LastTells(u, half)
        BY <1>8, <3>0, <4>1 DEF AccountsTold
      <4>3. trail'[line].of = t /\ trail'[line].says = kind
        BY <1>0, <1>3, <1>5, <2>3 DEF Tells
      <4>4. LinesOf(u, half)' = LinesOf(u, half)
        BY <1>5, <2>1, <3>2, <4>3 DEF LinesOf, Held
      <4>5. \A n \in LinesOf(u, half) : trail'[n].says = trail[n].says
        BY <1>5 DEF LinesOf, Held
      <4> QED BY <1>0, <4>2, <4>4, <4>5 DEF LastTells, Agrees
    <3> QED BY <3>1, <3>2
  <2> QED BY <2>4, <2>5, <2>6 DEF AccountsTold
<1> QED BY <1>9, <1>10 DEF Recorded

(* A process that goes may store a line it had open: the change it is of   *)
(* stays untold.                                                           *)
LEMMA StopTells ==
    ASSUME IInv, IInv', TellInv, NEW s \in Servers, Stop(s)
    PROVE  TellInv'
<1> DEFINE open == {act[p].line : p \in {q \in At(s) : act[q].step = "open"}}
           pruned == IF sweep[s].step = "pruning" THEN {sweep[s].line} ELSE {}
<1>0. /\ AccountTypes /\ TrailTypes /\ TrailTypes' /\ SweepsOK /\ LinesOK
      /\ trail \in Seq(Line) /\ Len(trail) \in Nat /\ DOMAIN trail = 1..Len(trail)
      /\ fresh' = fresh /\ stopped' = TRUE /\ claimed' = claimed /\ account' = account
      /\ untold' = untold
  BY DEF Stop, IInv, AccountsInv, TrailInv, TrailTypes
<1>1. PICK landed \in SUBSET open :
        trail' = [n \in 1..Len(trail) |->
                    IF n \in landed THEN Stored(trail, n)[n]
                    ELSE IF n \in open \cup pruned THEN Voided(trail, n)[n]
                    ELSE trail[n]]
  BY <1>0 DEF Stop
<1>2. \A q \in Requests : act'[q] = act[q] \/ (act'[q].step = "idle" /\ act'[q].kind = "")
  BY <1>0, StopActs
<1>3. \A n \in open \cup pruned : n \in 1..Len(trail) /\ trail[n].state = "open"
  BY <1>0 DEF LinesOK, At, SweepsOK, SweepOK
<1>4. \A n \in open : \E q \in Requests : act[q].step = "open" /\ n = act[q].line
  BY DEF At
<1> HIDE DEF open, pruned
<1>5. ASSUME Orderly'
      PROVE  /\ ~ fresh /\ Orderly /\ Unclaimed /\ (\A q \in Requests : Tells(q)) /\ claimed
  <2>1. ~ fresh
    BY <1>0, <1>5 DEF Orderly
  <2> QED BY <2>1 DEF Orderly, TellInv, Unclaimed
<1>6. ASSUME NEW n \in 1..Len(trail)
      PROVE  /\ trail'[n].of = trail[n].of /\ trail'[n].says = trail[n].says
             /\ n \notin open \cup pruned => trail'[n] = trail[n]
             /\ n \in open \cup pruned /\ n \notin landed => trail'[n].state = "void"
  <2>1. CASE n \in landed
    <3>1. PICK lines : lines = Stored(trail, n)
      OBVIOUS
    <3>2. lines[n].of = trail[n].of /\ lines[n].says = trail[n].says
      BY <1>0, <3>1, EndedLine
    <3>3. trail'[n] = lines[n]
      BY <1>1, <2>1, <3>1
    <3> QED BY <1>1, <2>1, <3>2, <3>3
  <2>2. CASE n \notin landed /\ n \in open \cup pruned
    <3>1. PICK lines : lines = Voided(trail, n)
      OBVIOUS
    <3>2. lines[n].of = trail[n].of /\ lines[n].says = trail[n].says /\ lines[n].state = "void"
      BY <1>0, <3>1, EndedLine
    <3>3. trail'[n] = lines[n]
      BY <1>1, <2>2, <3>1
    <3> QED BY <2>2, <3>2, <3>3
  <2>3. CASE n \notin landed /\ n \notin open \cup pruned
    BY <1>1, <2>3
  <2> QED BY <1>1, <2>1, <2>2, <2>3
<1>7. Len(trail') = Len(trail)
  <2>1. DOMAIN trail' = 1..Len(trail)
    BY <1>1
  <2> QED BY <1>0, <2>1 DEF TrailTypes
<1>8. ASSUME Orderly', NEW n \in 1..Len(trail), n \in Held'
      PROVE  n \in Held \/ <<trail[n].of, Half(trail[n].says)>> \in untold
  <2>1. CASE n \in landed
    <3>1. PICK q \in Requests : act[q].step = "open" /\ n = act[q].line
      BY <1>1, <1>4, <2>1
    <3>2. Tells(q)
      BY <1>5, <1>8
    <3> QED BY <3>1, <3>2 DEF Tells, Telling
  <2>2. CASE n \notin landed
    <3>1. n \notin open \cup pruned
      BY <1>6, <1>8, <2>2 DEF Held
    <3>2. trail'[n] = trail[n]
      BY <1>6, <3>1
    <3> QED BY <1>8, <3>2 DEF Held
  <2> QED BY <2>1, <2>2
<1>9. SameLines
  <2>1. Len(trail) <= Len(trail') /\ \A n \in 1..Len(trail') : ~ (n > Len(trail))
    BY <1>0, <1>7
  <2>2. ASSUME NEW n \in Held PROVE n \in Held'
    <3>1. n \in 1..Len(trail) /\ n \notin open \cup pruned
      BY <1>3 DEF Held
    <3>2. trail'[n] = trail[n]
      BY <1>6, <3>1
    <3> QED BY <1>7, <3>1, <3>2 DEF Held
  <2> QED BY <1>6, <1>8, <2>1, <2>2 DEF SameLines
<1>10. ASSUME NEW q \in Requests, Changed(q)'
       PROVE  /\ SameRequest(q) /\ act'[q].line = act[q].line /\ act'[q].step = act[q].step
  BY <1>2, <1>10 DEF SameRequest, Changed, Telling
<1>11. ASSUME Orderly', NEW q \in Requests
       PROVE  /\ ~ claimed' => ~ Waits(q)'
              /\ act'[q].step \in ClaimSteps => fresh
  BY <1>0, <1>2, <1>5, <1>11 DEF Unclaimed, ClaimSteps
<1>12. ASSUME Orderly', NEW t \in Known', Settled(t)'
       PROVE  t \in Known /\ Settled(t) /\ account'[t] = account[t]
  <2>1. \A q \in Requests : ~ Inserted(q)
    BY <1>5, <1>12 DEF Unclaimed, Inserted, ClaimSteps
  <2> QED BY <1>0, <2>1 DEF Known, Settled
<1> QED BY <1>0, <1>9, <1>10, <1>11, <1>12, TellStays

(* The trail's own steps number and store no line of an account.           *)
LEMMA TrailTells ==
    ASSUME IInv, IInv', TellInv, UNCHANGED accountVars,
           UNCHANGED trailVars \/ OtherLine \/ OtherEnds \/ \E s \in Servers : TrailStep(s)
    PROVE  TellInv'
<1>0. /\ TrailTypes /\ TrailTypes' /\ SweepsOK /\ Len(trail) \in Nat
      /\ trail \in Seq(Line) /\ DOMAIN trail = 1..Len(trail)
      /\ fresh' = fresh /\ stopped' = stopped /\ claimed' = claimed /\ account' = account
      /\ untold' = untold /\ act' = act
  BY DEF IInv, TrailInv, TrailTypes, accountVars
<1>a. "" \notin Accounts
  BY AddressAssumption
<1>1. ASSUME NEW n \in 1..Len(trail), trail[n].state = "open", trail[n].says \in {"pruned", "other"},
             trail' \in {Stored(trail, n), Voided(trail, n)}
      PROVE  SameLines
  <2>1. trail[n].of = ""
    BY <1>1 DEF TellInv, OthersLines
  <2>2. /\ Len(trail') = Len(trail) /\ trail'[n].of = trail[n].of /\ trail'[n].says = trail[n].says
        /\ \A m \in 1..Len(trail) : m # n => trail'[m] = trail[m]
    <3>1. CASE trail' = Stored(trail, n)
      BY <1>0, <3>1, EndedLine
    <3>2. CASE trail' = Voided(trail, n)
      BY <1>0, <3>2, EndedLine
    <3> QED BY <1>1, <3>1, <3>2
  <2>3. Len(trail) <= Len(trail') /\ \A m \in 1..Len(trail') : ~ (m > Len(trail))
    BY <1>0, <2>2
  <2>4. \A m \in 1..Len(trail) : m # n => (m \in Held' <=> m \in Held)
    BY <2>2 DEF Held
  <2>5. n \notin Held /\ Held \subseteq 1..Len(trail)
    BY <1>1 DEF Held
  <2>6. \A m \in 1..Len(trail) : m \in Held' /\ trail[m].of \in Accounts => m \in Held
    BY <1>a, <2>1, <2>4, Zenon
  <2> QED BY <2>2, <2>3, <2>4, <2>5, <2>6 DEF SameLines
<1>2. ASSUME NEW says, trail' = Numbered("", says), says \in Says
      PROVE  SameLines
  <2>1. PICK new : new = [of |-> "", says |-> says, state |-> "open", late |-> FALSE]
    OBVIOUS
  <2>2. new \in Line /\ new.of = "" /\ new.state = "open"
    BY <1>2, <2>1 DEF Line, Says
  <2>3. trail' = Append(trail, new)
    BY <1>2, <2>1, Zenon DEF Numbered
  <2>4. /\ Len(trail') = Len(trail) + 1 /\ trail'[Len(trail) + 1] = new
        /\ \A n \in 1..Len(trail) : trail'[n] = trail[n]
    BY <1>0, <2>2, <2>3, AppendQuiet, Zenon
  <2>5. /\ Len(trail) <= Len(trail')
        /\ \A n \in 1..Len(trail') : n > Len(trail) => n = Len(trail) + 1
        /\ \A n \in 1..Len(trail) : n \in 1..Len(trail')
    BY <1>0, <2>4
  <2>6. \A n \in 1..Len(trail) : n \in Held' <=> n \in Held
    BY <2>4, <2>5 DEF Held
  <2>7. Held \subseteq 1..Len(trail)
    BY DEF Held
  <2> QED BY <2>2, <2>4, <2>5, <2>6, <2>7 DEF SameLines
<1>3. ASSUME NEW s \in Servers, PruneCommits(s) PROVE SameLines
  <2> DEFINE old == sweep[s].old
             line == sweep[s].line
  <2>0. PICK removed : removed = Removed(trail, old)
    OBVIOUS
  <2>1. /\ line \in 1..Len(trail) /\ trail[line].state = "open" /\ trail[line].says = "pruned"
        /\ \A o \in old : o \in 1..Len(trail) /\ trail[o].state = "stored"
    BY <1>0, <1>3 DEF PruneCommits, SweepsOK, SweepOK
  <2>2. /\ removed \in Seq(Line) /\ Len(removed) = Len(trail)
        /\ \A n \in 1..Len(trail) :
              /\ removed[n].of = trail[n].of /\ removed[n].says = trail[n].says
              /\ n \notin old => removed[n] = trail[n]
              /\ n \in old => removed[n].state = "gone"
    <3>1. /\ removed \in Seq(Line) /\ Len(removed) = Len(trail)
          /\ \A n \in 1..Len(trail) :
                /\ n \notin old => removed[n] = trail[n]
                /\ n \in old => removed[n].state = "gone" /\ removed[n].says = trail[n].says
      BY <1>0, <2>0, RemovedLines
    <3>2. ASSUME NEW n \in 1..Len(trail) PROVE removed[n].of = trail[n].of
      <4>1. \A had \in Line : [had EXCEPT !.state = "gone"].of = had.of
        BY DEF Line
      <4>2. removed[n] \in {trail[n], [trail[n] EXCEPT !.state = "gone"]}
        BY <1>0, <2>0 DEF Removed
      <4>3. trail[n] \in Line
        BY <1>0
      <4> QED BY <4>1, <4>2, <4>3
    <3> QED BY <3>1, <3>2
  <2>3. trail' = Stored(removed, line)
    BY <1>3, <2>0 DEF PruneCommits
  <2> HIDE DEF old, line
  <2>4. /\ Len(trail') = Len(removed)
        /\ trail'[line].of = removed[line].of /\ trail'[line].says = removed[line].says
        /\ \A m \in 1..Len(removed) : m # line => trail'[m] = removed[m]
    BY <2>1, <2>2, <2>3, EndedLine
  <2>5. \A n \in 1..Len(trail) : trail'[n].of = trail[n].of /\ trail'[n].says = trail[n].says
    BY <2>1, <2>2, <2>4
  <2>6. \A n \in 1..Len(trail) : n # line => (n \in Held' <=> n \in Held)
    BY <2>1, <2>2, <2>4 DEF Held
  <2>7. line \notin Held /\ Held \subseteq 1..Len(trail)
    BY <2>1 DEF Held
  <2>8. trail[line].of = ""
    BY <2>1 DEF TellInv, OthersLines
  <2>9. \A n \in 1..Len(trail) : n \in Held' /\ trail[n].of \in Accounts => n \in Held
    BY <1>a, <2>6, <2>8, Zenon
  <2>10. Len(trail) <= Len(trail') /\ \A n \in 1..Len(trail') : ~ (n > Len(trail))
    BY <1>0, <2>2, <2>4
  <2> QED BY <2>5, <2>6, <2>7, <2>9, <2>10 DEF SameLines
<1>4. ASSUME NEW s \in Servers, TrailStep(s) PROVE SameLines
  <2>1. CASE Begin(s) \/ Select(s) \/ Accept(s) \/ Refuse(s) \/ Mark(s) \/ Bound(s) \/ PruneNothing(s)
    <3>1. trail' = trail
      BY <2>1 DEF Begin, Select, Accept, Refuse, Mark, Bound, PruneNothing
    <3> QED BY <1>0, <3>1, SameTrailLines
  <2>2. CASE Prune(s)
    BY <1>2, <2>2 DEF Prune, Says
  <2>3. CASE PruneUnrecorded(s)
    <3>1. /\ sweep[s].line \in 1..Len(trail) /\ trail[sweep[s].line].state = "open"
          /\ trail[sweep[s].line].says = "pruned"
      BY <1>0, <2>3 DEF PruneUnrecorded, SweepsOK, SweepOK
    <3> QED BY <1>1, <2>3, <3>1 DEF PruneUnrecorded
  <2> QED BY <1>3, <1>4, <2>1, <2>2, <2>3 DEF TrailStep
<1>5. ASSUME OtherLine PROVE SameLines
  BY <1>2, <1>5 DEF OtherLine, Says
<1>6. ASSUME OtherEnds PROVE SameLines
  BY <1>0, <1>1, <1>6 DEF OtherEnds, InState
<1>7. SameLines
  <2>1. CASE UNCHANGED trailVars
    BY <1>0, <2>1, SameTrailLines DEF trailVars
  <2> QED BY <1>4, <1>5, <1>6, <2>1
<1>8. ASSUME NEW q \in Requests
      PROVE  SameRequest(q) /\ act'[q].line = act[q].line /\ act'[q].step = act[q].step
  BY <1>0 DEF SameRequest
<1>9. ASSUME Orderly', NEW q \in Requests
      PROVE  /\ ~ claimed' => ~ Waits(q)'
             /\ act'[q].step \in ClaimSteps => fresh
  <2>1. Unclaimed
    BY <1>0, <1>9, Zenon DEF Orderly, TellInv
  <2> QED BY <1>0, <2>1, Zenon DEF Unclaimed, Waits
<1>10. \A t \in Known' : Settled(t)' => t \in Known /\ Settled(t) /\ account'[t] = account[t]
  BY <1>0 DEF Known, Settled, Inserted
<1> QED BY <1>0, <1>7, <1>8, <1>9, <1>10, TellStays

LEMMA TellKeeps ==
    ASSUME IInv, IInv', TellInv, [Next]_vars
    PROVE  TellInv'
<1>1. CASE UNCHANGED vars
  BY <1>1, TrailTells DEF vars
<1>2. ASSUME NEW p \in Requests, TurnStep(p) PROVE TellInv'
  BY <1>2, TurnTells, WriteTells, RecordTells, RecordedTells, LibraryTells DEF TurnStep
<1> QED BY <1>1, <1>2, AskTells, ClaimTells, ClaimStepTells, StopTells, TrailTells DEF Next

LEMMA TellInit == Init => TellInv
<1> SUFFICES ASSUME Init PROVE TellInv
  OBVIOUS
<1>1. /\ Len(trail) = 0 /\ untold = {} /\ claimed = ~ fresh
      /\ act = [p \in Requests |-> NoAct]
  BY DEF Init, TrailInit
<1>2. \A p \in Requests : act[p].step = "idle"
  BY <1>1, NoActFacts
<1>3. Held = {}
  BY <1>1 DEF Held
<1>4. OthersLines /\ Unclaimed
  <2>1. ~ claimed => fresh
    BY <1>1, Zenon
  <2>2. \A n \in 1..Len(trail) : FALSE
    BY <1>1
  <2>3. \A p \in Requests : ~ Waits(p) /\ act[p].step \notin ClaimSteps
    BY <1>2 DEF Waits, Holding, ClaimSteps
  <2> QED BY <2>1, <2>2, <2>3, Zenon DEF OthersLines, Unclaimed
<1>5. \A p \in Requests : Tells(p)
  BY <1>2 DEF Tells, Changed, Telling
<1>6. AccountsTold
  BY <1>3 DEF AccountsTold, LastTells, LinesOf
<1> QED BY <1>4, <1>5, <1>6 DEF TellInv

LEMMA TellOf == IInv /\ TellInv => LinesTellTheAccounts
<1> SUFFICES ASSUME IInv, TellInv PROVE LinesTellTheAccounts
  OBVIOUS
<1> SUFFICES ASSUME Orderly, NEW t \in SignedIn, NEW half \in {"banned", "role"}
             PROVE  LET told == {n \in InState("stored") \cup InState("gone") :
                                    trail[n].of = t /\ Half(trail[n].says) = half}
                        last == trail[Top(told)].says
                    IN <<t, half>> \notin untold /\ told # {} =>
                          IF half = "banned" THEN account[t].banned <=> last = "disable"
                          ELSE account[t].role = last
  BY DEF LinesTellTheAccounts, Orderly
<1> DEFINE told == {n \in InState("stored") \cup InState("gone") :
                       trail[n].of = t /\ Half(trail[n].says) = half}
<1> SUFFICES ASSUME <<t, half>> \notin untold, told # {}
             PROVE  IF half = "banned"
                    THEN account[t].banned <=> trail[Top(told)].says = "disable"
                    ELSE account[t].role = trail[Top(told)].says
  OBVIOUS
<1>1. DOMAIN trail = 1..Len(trail) /\ ActsOK
  BY DEF IInv, TrailInv, TrailTypes, AccountsInv
<1>2. told = LinesOf(t, half)
  BY <1>1 DEF LinesOf, Held, InState
<1>3. LastTells(t, half)
  <2>1. t \in Known /\ Settled(t)
    BY <1>1, SignedInSettled
  <2> QED BY <2>1 DEF TellInv, AccountsTold
<1>4. PICK n \in told : (\A m \in told : m <= n) /\ Agrees(t, half, trail[n].says)
  BY <1>2, <1>3 DEF LastTells
<1>5. Top(told) = n
  <2>1. told \subseteq Nat
    BY <1>2 DEF LinesOf, Held
  <2>2. Top(told) \in told /\ \A m \in told : m <= Top(told)
    BY <1>4 DEF Top
  <2>3. Top(told) \in Nat /\ n \in Nat /\ Top(told) <= n /\ n <= Top(told)
    BY <1>4, <2>1, <2>2
  <2> QED BY <2>3
<1> QED BY <1>4, <1>5 DEF Agrees

(* Of what an account was last made its newest line says it, whatever the  *)
(* accounts, the servers and the requests: an act has the lock from its    *)
(* change to its last write, so that lines are numbered in the order of    *)
(* the changes and nothing an earlier act still writes undoes a later      *)
(* change (accounts.controller.ts; record.ts, whose failure is swallowed). *)
THEOREM LinesTell == Spec => []LinesTellTheAccounts
<1>1. Init => IInv /\ TellInv
  BY InitKeeps, TellInit
<1>2. (IInv /\ TellInv) /\ [Next]_vars => (IInv /\ TellInv)'
  BY NextKeeps, TellKeeps
<1> QED BY <1>1, <1>2, TellOf, PTL DEF Spec

-----------------------------------------------------------------------------
(* The directory.                                                          *)

LEMMA NoRequestIsARequest ==
    NoRequest \in RequestType /\ RequestKept(NoRequest) /\ NoRequest.moved = {}
  BY DirectoriesAssumption DEF NoRequest, RequestType, RequestKept, Merging

(* A step that leaves customers and cases alone, and makes r of a request. *)
LEMMA RequestOnly ==
    ASSUME DirectoryKept, NEW p \in Requests, NEW r \in RequestType,
           doing' = [doing EXCEPT ![p] = r],
           UNCHANGED <<customers, behind>>,
           held' \subseteq Groups \X customers,
           member' \in [Groups -> [Accounts -> Levels]],
           RequestKept(r), \A q \in Others(p) : Apart(r, doing[q])
    PROVE  DirectoryKept'
  <1>1. \A q \in Requests : doing'[q] = IF q = p THEN r ELSE doing[q]
    BY DEF DirectoryKept
  <1>2. \A m : RequestKept(m)' <=> RequestKept(m)
    BY DEF RequestKept, Carried
  <1>3. \A q \in Requests : RequestKept(doing[q])'
    BY <1>1, <1>2 DEF DirectoryKept, RequestKept, Carried
  <1>4. \A q \in Requests : \A o \in Others(q) : Apart(doing[q], doing[o])'
    BY <1>1 DEF DirectoryKept, Apart, Others
  <1> QED BY <1>3, <1>4 DEF DirectoryKept, Free

(* A request with no case of its own is apart from every other.            *)
LEMMA ApartWithout ==
    ASSUME NEW r, r.moved = {} PROVE \A n : Apart(r, n)
  BY DEF Apart

LEMMA InitKeepsTheDirectory == ReachInit => DirectoryKept
  <1> SUFFICES ASSUME ReachInit PROVE DirectoryKept
    OBVIOUS
  <1>1. PICK d \in Directories :
          /\ behind = d.behind /\ held = d.held
          /\ member = [g \in Groups |->
                [t \in Accounts |-> IF t \in Known THEN d.member[g][t] ELSE 0]]
    BY DEF ReachInit
  <1>2. /\ customers = Customers
        /\ doing = [p \in Requests |-> NoRequest]
    BY DEF ReachInit
  <1>3. /\ Default \in Customers
        /\ d.behind \in [Cases -> Customers] /\ Free(d.behind)
        /\ d.held \subseteq Groups \X Customers
        /\ d.member \in [Groups -> [Accounts -> Levels]]
    BY DirectoriesAssumption
  <1>4. member \in [Groups -> [Accounts -> Levels]]
    BY <1>1, <1>3 DEF Levels
  <1>5. /\ doing \in [Requests -> RequestType]
        /\ \A p \in Requests :
              RequestKept(doing[p]) /\ \A q \in Others(p) : Apart(doing[p], doing[q])
    BY <1>2, NoRequestIsARequest, ApartWithout DEF Others
  <1> QED BY <1>1, <1>2, <1>3, <1>4, <1>5 DEF DirectoryKept

LEMMA MergeKeeps ==
    ASSUME DirectoryKept, NEW p \in Requests, Merge(p) PROVE DirectoryKept'
  <1>1. PICK by \in Accounts, from \in Customers, into \in Customers :
          /\ from # into
          /\ Doing(p, [NoRequest EXCEPT !.step = "read", !.by = by, !.from = from, !.into = into])
    BY DEF Merge
  <1> DEFINE r == [NoRequest EXCEPT !.step = "read", !.by = by, !.from = from, !.into = into]
  <1>2. r \in RequestType /\ r.moved = {} /\ r.copied = {} /\ r.step = "read" /\ r.from # r.into
    BY <1>1, NoRequestIsARequest DEF RequestType, NoRequest, Merging
  <1>3. RequestKept(r)
    BY <1>2 DEF RequestKept, Merging
  <1> HIDE DEF r
  <1>4. DOMAIN doing = Requests /\ doing' = [doing EXCEPT ![p] = r]
    BY <1>1 DEF r, Doing, DirectoryKept
  <1>5. UNCHANGED <<customers, behind>> /\ held' \subseteq Groups \X customers
        /\ member' \in [Groups -> [Accounts -> Levels]]
    BY DEF Merge, DirectoryKept
  <1> QED BY <1>2, <1>3, <1>4, <1>5, ApartWithout, RequestOnly

(* A request that ends without a write.                                    *)
LEMMA OverKeeps ==
    ASSUME DirectoryKept, NEW p \in Requests, Over(p),
           UNCHANGED <<customers, behind, held, member>>
    PROVE  DirectoryKept'
  <1>1. held' \subseteq Groups \X customers /\ member' \in [Groups -> [Accounts -> Levels]]
    BY DEF DirectoryKept
  <1> QED BY <1>1, NoRequestIsARequest, ApartWithout, RequestOnly DEF Over

(* A merge that goes on with the cases and the survivor it has.            *)
LEMMA MergeGoesOn ==
    ASSUME DirectoryKept, NEW p \in Requests, NEW r \in RequestType, Doing(p, r),
           r.moved = doing[p].moved, r.into = doing[p].into, RequestKept(r),
           UNCHANGED <<customers, behind, held, member>>
    PROVE  DirectoryKept'
  <1>1. \A q \in Others(p) : Apart(r, doing[q])
    BY DEF DirectoryKept, Apart
  <1>2. held' \subseteq Groups \X customers /\ member' \in [Groups -> [Accounts -> Levels]]
    BY DEF DirectoryKept
  <1> QED BY <1>1, <1>2, RequestOnly DEF Doing

(* ...to another of its steps.                                             *)
LEMMA StepsOn ==
    ASSUME DirectoryKept, NEW p \in Requests, NEW s \in Merging \ {"read"}, On(p, s),
           doing[p].step \in Merging \ {"read"} \/ Default \notin {doing[p].from, doing[p].into},
           doing[p].step \in Merging,
           doing[p].copied # {} => s \in {"drop", "settle", "delete"},
           s \in {"drop", "settle", "delete"} => doing[p].step \in {"drop", "settle", "delete"},
           UNCHANGED <<customers, behind, held, member>>
    PROVE  DirectoryKept'
  <1> DEFINE r == [doing[p] EXCEPT !.step = s]
  <1>1. doing[p] \in RequestType /\ RequestKept(doing[p])
    BY DEF DirectoryKept
  <1>2. /\ r \in RequestType /\ r.moved = doing[p].moved /\ r.into = doing[p].into
        /\ r.step = s /\ r.from = doing[p].from /\ r.copied = doing[p].copied
        /\ r.read = doing[p].read /\ r.found = doing[p].found
    BY <1>1 DEF RequestType
  <1>3. RequestKept(r)
    BY <1>1, <1>2 DEF RequestKept, Merging
  <1>4. doing' = [doing EXCEPT ![p] = r]
    BY DEF On, DirectoryKept
  <1> QED BY <1>2, <1>3, <1>4, MergeGoesOn DEF Doing

LEMMA MoveKeeps ==
    ASSUME DirectoryKept, NEW p \in Requests, Move(p) PROVE DirectoryKept'
  <1> DEFINE m == doing[p]  its == BehindCustomer(m.from)
             r == [m EXCEPT !.step = "edges", !.moved = its]
  <1>1. UNCHANGED <<customers, behind, held, member>>
    BY DEF Move
  <1>2. CASE Over(p)
    BY <1>1, <1>2, OverKeeps
  <1>3. CASE /\ its # {} => m.into \in customers
             /\ \A k \in its : ~ Carried(m.into, k)
             /\ Doing(p, r)
    <2>1. m \in RequestType /\ RequestKept(m) /\ m.step = "move"
      BY DEF DirectoryKept, Move
    <2>2. r \in RequestType /\ r.step = "edges" /\ r.moved = its /\ r.from = m.from
          /\ r.into = m.into /\ r.copied = m.copied /\ r.read = m.read
      BY <2>1 DEF RequestType, Merging, BehindCustomer
    <2>3. RequestKept(r)
      BY <2>1, <2>2, <1>3 DEF RequestKept, Merging, BehindCustomer
    <2>4. \A q \in Others(p) : Apart(r, doing[q])
      <3> SUFFICES ASSUME NEW q \in Others(p), NEW k \in its, NEW j \in doing[q].moved
                   PROVE  k # j /\ (m.into = doing[q].into => RefOf[j] = None \/ RefOf[j] # RefOf[k])
        BY <2>2 DEF Apart
      <3>1. its \cap MovedBy(Others(p)) = {} /\ ~ Claimed(Others(p), m.into, k)
        BY DEF Move
      <3> QED BY <3>1 DEF MovedBy, Claimed
    <2>5. held' \subseteq Groups \X customers /\ member' \in [Groups -> [Accounts -> Levels]]
      BY <1>1 DEF DirectoryKept
    <2> HIDE DEF r
    <2> QED BY <1>1, <1>3, <2>2, <2>3, <2>4, <2>5, RequestOnly DEF Doing
  <1> QED BY <1>2, <1>3 DEF Move

LEMMA CopyKeeps ==
    ASSUME DirectoryKept, NEW p \in Requests, Copy(p) PROVE DirectoryKept'
  <1> DEFINE m == doing[p]
             r == [m EXCEPT !.step = "drop", !.copied = m.read \ HoldersOf(m.into),
                            !.found = m.read \cap HoldersOf(m.into)]
  <1>1. UNCHANGED <<customers, behind, held, member>>
    BY DEF Copy
  <1>2. CASE Over(p)
    BY <1>1, <1>2, OverKeeps
  <1>3. CASE (m.read = {} \/ m.into \in customers) /\ Doing(p, r)
    <2>1. m \in RequestType /\ RequestKept(m) /\ m.step = "copy"
      BY DEF DirectoryKept, Copy
    <2>2. r \in RequestType /\ r.step = "drop" /\ r.moved = m.moved /\ r.from = m.from
          /\ r.into = m.into /\ r.copied \subseteq r.read /\ (r.copied # {} => m.read # {})
          /\ r.read = r.copied \cup r.found
      BY <2>1 DEF RequestType, Merging
    <2>3. RequestKept(r)
      BY <2>1, <2>2, <1>3 DEF RequestKept, Merging
    <2> HIDE DEF r
    <2> QED BY <1>1, <1>3, <2>2, <2>3, MergeGoesOn
  <1> QED BY <1>2, <1>3 DEF Copy

LEMMA EdgesOrDropKeeps ==
    ASSUME DirectoryKept, NEW p \in Requests, Edges(p) \/ Drop(p) PROVE DirectoryKept'
  <1> DEFINE m == doing[p]
  <1>1. m \in RequestType /\ RequestKept(m)
    BY DEF DirectoryKept
  <1>2. CASE Edges(p)
    <2> DEFINE r == [m EXCEPT !.step = "copy", !.read = HoldersOf(m.from)]
    <2>1. m.step = "edges" /\ Doing(p, r) /\ UNCHANGED <<customers, behind, held, member>>
      BY <1>2 DEF Edges
    <2>2. r \in RequestType /\ r.step = "copy" /\ r.moved = m.moved /\ r.from = m.from
          /\ r.into = m.into /\ r.copied = m.copied /\ r.copied = {}
      BY <1>1, <2>1 DEF RequestType, Merging, HoldersOf, RequestKept
    <2>3. RequestKept(r)
      BY <1>1, <2>1, <2>2 DEF RequestKept, Merging
    <2> HIDE DEF r
    <2> QED BY <2>1, <2>2, <2>3, MergeGoesOn
  <1>3. CASE Drop(p)
    <2> DEFINE r == [m EXCEPT !.step = "settle", !.dropped = HoldersOf(m.from)]
    <2>1. m.step = "drop" /\ Doing(p, r) /\ UNCHANGED <<customers, behind, held, member>>
      BY <1>3 DEF Drop
    <2>2. r \in RequestType /\ r.step = "settle" /\ r.moved = m.moved /\ r.from = m.from
          /\ r.into = m.into /\ r.copied = m.copied /\ r.read = m.read /\ r.found = m.found
      BY <1>1, <2>1 DEF RequestType, Merging, HoldersOf
    <2>3. RequestKept(r)
      BY <1>1, <2>1, <2>2 DEF RequestKept, Merging
    <2> HIDE DEF r
    <2> QED BY <2>1, <2>2, <2>3, MergeGoesOn
  <1> QED BY <1>2, <1>3

(* The steps of a merge before it commits.                                 *)
LEMMA MergeStepKeeps ==
    ASSUME DirectoryKept, NEW p \in Requests, MergeStep(p), ~ Delete(p)
    PROVE  DirectoryKept'
  <1> DEFINE m == doing[p]
  <1>1. m \in RequestType /\ RequestKept(m)
    BY DEF DirectoryKept
  <1>2. CASE Over(p) /\ UNCHANGED <<customers, behind, held, member>>
    BY <1>2, OverKeeps
  <1>3. CASE /\ On(p, "compare") /\ m.step = "read"
             /\ {m.from, m.into} \subseteq customers \ {Default}
             /\ UNCHANGED <<customers, behind, held, member>>
    BY <1>1, <1>3, StepsOn DEF Merging, RequestKept
  <1>4. CASE /\ On(p, "move") /\ m.step = "compare"
             /\ UNCHANGED <<customers, behind, held, member>>
    BY <1>1, <1>4, StepsOn DEF Merging, RequestKept
  <1>5. CASE Settle(p)
    BY <1>1, <1>5, StepsOn DEF Settle, Merging
  <1>6. CASE Move(p) \/ Edges(p) \/ Copy(p) \/ Drop(p)
    BY <1>6, MoveKeeps, EdgesOrDropKeeps, CopyKeeps
  <1>7. CASE Read(p)
    BY <1>2, <1>3, <1>7 DEF Read
  <1>8. CASE Compare(p)
    BY <1>2, <1>4, <1>8 DEF Compare
  <1>9. CASE RollBack(p)
    BY <1>2, <1>9 DEF RollBack
  <1> QED BY <1>5, <1>6, <1>7, <1>8, <1>9 DEF MergeStep

LEMMA AnnounceKeeps ==
    ASSUME DirectoryKept, NEW p \in Requests, Announce(p) PROVE DirectoryKept'
  BY OverKeeps DEF Announce

(* An act on a group becomes an announcement to come.                      *)
LEMMA HearsKeeps ==
    ASSUME DirectoryKept, NEW p \in Requests,
           \/ \E g \in Groups : Hears(p, [NoRequest EXCEPT !.step = "members", !.group = g])
           \/ \E t \in Accounts : Hears(p, [NoRequest EXCEPT !.step = "one", !.who = t]),
           UNCHANGED <<customers, behind>>,
           held' \subseteq Groups \X customers,
           member' \in [Groups -> [Accounts -> Levels]]
    PROVE  DirectoryKept'
  <1>1. PICK r : /\ doing' = [doing EXCEPT ![p] = r]
                 /\ \/ \E g \in Groups : r = [NoRequest EXCEPT !.step = "members", !.group = g]
                    \/ \E t \in Accounts : r = [NoRequest EXCEPT !.step = "one", !.who = t]
    BY DEF Hears, Doing
  <1>2. /\ r \in RequestType /\ r.step \in {"members", "one"} /\ r.moved = {} /\ r.copied = {}
        /\ r.step = "members" => r.group \in Groups
    <2>1. CASE \E g \in Groups : r = [NoRequest EXCEPT !.step = "members", !.group = g]
      BY <2>1, NoRequestIsARequest DEF RequestType, NoRequest
    <2>2. CASE \E t \in Accounts : r = [NoRequest EXCEPT !.step = "one", !.who = t]
      BY <2>2, NoRequestIsARequest DEF RequestType, NoRequest
    <2> QED BY <1>1, <2>1, <2>2
  <1>3. RequestKept(r)
    BY <1>2 DEF RequestKept, Merging
  <1> QED BY <1>1, <1>2, <1>3, ApartWithout, RequestOnly

LEMMA GroupActKeeps ==
    ASSUME DirectoryKept, NEW p \in Requests, Hold(p) \/ Release(p) \/ Grant(p)
    PROVE  DirectoryKept'
  <1> USE DEF DirectoryKept
  <1>1. CASE Hold(p)
    <2>1. PICK g \in Groups, c \in customers :
            /\ held' = held \cup {<<g, c>>} /\ UNCHANGED <<customers, behind, member>>
            /\ Hears(p, [NoRequest EXCEPT !.step = "members", !.group = g])
      BY <1>1 DEF Hold
    <2>2. held' \subseteq Groups \X customers
      BY <2>1
    <2> QED BY <2>1, <2>2, HearsKeeps
  <1>2. CASE Release(p)
    <2>1. PICK e \in held :
            /\ held' = held \ {e} /\ UNCHANGED <<customers, behind, member>>
            /\ Hears(p, [NoRequest EXCEPT !.step = "members", !.group = e[1]])
      BY <1>2 DEF Release
    <2>2. held' \subseteq Groups \X customers /\ e[1] \in Groups
      BY <2>1
    <2> QED BY <2>1, <2>2, HearsKeeps
  <1>3. CASE Grant(p)
    <2>1. PICK g \in Groups, t \in Known, l \in Granted :
            /\ member' = [member EXCEPT ![g][t] = l] /\ UNCHANGED <<customers, behind, held>>
            /\ Hears(p, [NoRequest EXCEPT !.step = "one", !.who = t])
      BY <1>3 DEF Grant
    <2>2. member' \in [Groups -> [Accounts -> Levels]] /\ t \in Accounts
      BY <2>1, DirectoriesAssumption DEF Known
    <2> QED BY <2>1, <2>2, HearsKeeps
  <1> QED BY <1>1, <1>2, <1>3

(* A customer goes that stands behind no case and that no merge names.     *)
LEMMA RemoveKeeps ==
    ASSUME DirectoryKept, NEW p \in Requests, Remove(p) PROVE DirectoryKept'
  <1>1. PICK c \in customers \ ({Default} \cup Pinned(Requests)) :
          /\ Vacant(c, {})
          /\ customers' = customers \ {c}
          /\ held' = {e \in held : e[2] # c}
          /\ UNCHANGED <<behind, member, doing>>
    BY DEF Remove
  <1>2. behind' \in [Cases -> customers']
    BY <1>1 DEF Vacant, BehindCustomer, DirectoryKept
  <1>3. held' \subseteq Groups \X customers'
    BY <1>1 DEF DirectoryKept
  <1>4. \A q \in Requests : RequestKept(doing[q])'
    <2> TAKE q \in Requests
    <2>1. RequestKept(doing[q])
      BY DEF DirectoryKept
    <2>2. doing[q].moved \cup doing[q].copied # {} => doing[q].into \in customers'
      BY <1>1, <2>1 DEF RequestKept, Pinned
    <2> QED BY <1>1, <2>1, <2>2 DEF RequestKept, Carried
  <1>5. \A q \in Requests : \A o \in Others(q) : Apart(doing[q], doing[o])'
    BY <1>1 DEF DirectoryKept, Apart, Others
  <1> QED BY <1>1, <1>2, <1>3, <1>4, <1>5 DEF DirectoryKept, Free

(* A case moves that no merge is moving, to where none moves its reference.*)
LEMMA AttributeKeeps ==
    ASSUME DirectoryKept, NEW p \in Requests, Attribute(p) PROVE DirectoryKept'
  <1>1. PICK k \in Cases \ MovedBy(Requests), c \in customers \ {Default} :
          /\ ~ Carried(c, k) /\ ~ Claimed(Requests, c, k)
          /\ behind' = [behind EXCEPT ![k] = c]
          /\ UNCHANGED <<customers, held, member>>
          /\ Hears(p, [NoRequest EXCEPT !.step = "case", !.kase = k])
    BY DEF Attribute
  <1> DEFINE r == [NoRequest EXCEPT !.step = "case", !.kase = k]
  <1>2. /\ r \in RequestType /\ r.step = "case" /\ r.kase \in Cases
        /\ r.moved = {} /\ r.copied = {}
    BY NoRequestIsARequest DEF RequestType, NoRequest
  <1> HIDE DEF r
  <1>3. doing' = [doing EXCEPT ![p] = r]
    BY <1>1 DEF Hears, Doing, r
  <1>4. \A q \in Requests : doing'[q] = IF q = p THEN r ELSE doing[q]
    BY <1>3 DEF DirectoryKept
  <1>5. doing' \in [Requests -> RequestType]
    BY <1>2, <1>3 DEF DirectoryKept
  <1>6. /\ \A j \in Cases : behind'[j] = IF j = k THEN c ELSE behind[j]
        /\ behind' \in [Cases -> customers']
    BY <1>1 DEF DirectoryKept
  <1>7. Free(behind)'
    <2> SUFFICES ASSUME NEW i \in Cases, NEW j \in Cases, i # j, behind'[i] = behind'[j]
                 PROVE  RefOf[i] = None \/ RefOf[i] # RefOf[j]
      BY DEF Free
    <2>1. CASE i # k /\ j # k
      BY <1>6, <2>1 DEF DirectoryKept, Free
    <2>2. CASE i = k
      BY <1>1, <1>6, <2>2 DEF Carried
    <2>3. CASE j = k
      BY <1>1, <1>6, <2>3 DEF Carried
    <2> QED BY <2>1, <2>2, <2>3
  <1>8. \A q \in Requests : RequestKept(doing[q])'
    <2> SUFFICES ASSUME NEW q \in Requests, q # p PROVE RequestKept(doing[q])'
      BY <1>2, <1>4 DEF RequestKept, Merging
    <2> DEFINE m == doing[q]
    <2>1. m \in RequestType /\ RequestKept(m) /\ doing'[q] = m /\ k \notin m.moved
      BY <1>1, <1>4 DEF DirectoryKept, MovedBy
    <2>2. \A j \in m.moved : behind'[j] = m.from /\ ~ Carried(m.into, j)'
      <3> TAKE j \in m.moved
      <3>1. j \in Cases /\ behind[j] = m.from /\ ~ Carried(m.into, j)
        BY <2>1 DEF RequestType, RequestKept
      <3>2. ASSUME NEW i \in Cases \ {j}, behind'[i] = m.into,
                   RefOf[i] # None, RefOf[i] = RefOf[j]
            PROVE  FALSE
        <4>1. CASE i = k
          BY <1>1, <1>6, <3>2, <4>1 DEF Claimed
        <4>2. CASE i # k
          BY <1>6, <3>1, <3>2, <4>2 DEF Carried
        <4> QED BY <4>1, <4>2
      <3> QED BY <1>6, <2>1, <3>1, <3>2 DEF Carried
    <2> QED BY <1>1, <2>1, <2>2 DEF RequestKept, Carried
  <1>9. \A q \in Requests : \A o \in Others(q) : Apart(doing[q], doing[o])'
    BY <1>2, <1>4 DEF DirectoryKept, Apart, Others
  <1> QED BY <1>1, <1>5, <1>6, <1>7, <1>8, <1>9 DEF DirectoryKept

(* A merge commits: its cases are behind the survivor, which is there, and *)
(* the customer that goes is the survivor of no merge with rows of it.     *)
LEMMA DeleteKeeps ==
    ASSUME DirectoryKept, NEW p \in Requests, Delete(p) PROVE DirectoryKept'
  <1> DEFINE m == doing[p]
  <1>1. m \in RequestType /\ RequestKept(m) /\ m.step = "delete" /\ Over(p) /\ UNCHANGED member
    BY DEF DirectoryKept, Delete
  <1>2. /\ m.from # m.into /\ m.from # Default
        /\ m.moved \cup m.copied # {} => m.into \in customers
        /\ \A k \in m.moved : behind[k] = m.from /\ ~ Carried(m.into, k)
    BY <1>1 DEF RequestKept, Merging
  <1>3. CASE ~ Vacant(m.from, m.moved)
    BY <1>1, <1>3, OverKeeps DEF Delete
  <1>4. CASE Vacant(m.from, m.moved)
    <2>1. /\ m.from \in customers => m.from \notin Pinned(Others(p))
          /\ customers' = customers \ {m.from}
          /\ behind' = [k \in Cases |-> IF k \in m.moved THEN m.into ELSE behind[k]]
          /\ held' = {e \in held : e[2] # m.from} \cup (m.copied \X {m.into})
      BY <1>4 DEF Delete
    <2>2. \A q \in Requests : doing'[q] = IF q = p THEN NoRequest ELSE doing[q]
      BY <1>1 DEF DirectoryKept, Over
    <2>3. doing' \in [Requests -> RequestType]
      BY <1>1, NoRequestIsARequest DEF DirectoryKept, Over
    <2>4. behind' \in [Cases -> customers']
      BY <1>2, <1>4, <2>1 DEF DirectoryKept, Vacant, BehindCustomer
    <2>5. held' \subseteq Groups \X customers'
      BY <1>1, <1>2, <2>1 DEF DirectoryKept, RequestType
    <2>6. Free(behind)'
      <3> SUFFICES ASSUME NEW i \in Cases, NEW j \in Cases, i # j, behind'[i] = behind'[j]
                   PROVE  RefOf[i] = None \/ RefOf[i] # RefOf[j]
        BY DEF Free
      <3>1. CASE i \in m.moved <=> j \in m.moved
        BY <1>2, <2>1, <3>1 DEF DirectoryKept, Free
      <3>2. CASE i \in m.moved /\ j \notin m.moved
        BY <1>2, <2>1, <3>2 DEF Carried
      <3>3. CASE i \notin m.moved /\ j \in m.moved
        BY <1>2, <2>1, <3>3 DEF Carried
      <3> QED BY <3>1, <3>2, <3>3
    <2>7. \A q \in Requests : RequestKept(doing[q])'
      <3> SUFFICES ASSUME NEW q \in Requests, q # p PROVE RequestKept(doing[q])'
        BY <2>2, NoRequestIsARequest DEF RequestKept, Merging, NoRequest
      <3> DEFINE n == doing[q]
      <3>1. /\ n \in RequestType /\ RequestKept(n) /\ doing'[q] = n
            /\ Apart(n, m) /\ Apart(m, n) /\ q \in Others(p)
        BY <2>2 DEF DirectoryKept, Others
      <3>2. n.moved \cup n.copied # {} => n.into \in customers'
        BY <2>1, <3>1 DEF RequestKept, Pinned
      <3>3. \A j \in n.moved : behind'[j] = n.from /\ ~ Carried(n.into, j)'
        <4> TAKE j \in n.moved
        <4>1. /\ j \in Cases /\ behind[j] = n.from /\ ~ Carried(n.into, j)
              /\ j \notin m.moved
          BY <3>1 DEF RequestType, RequestKept, Apart
        <4>2. ASSUME NEW i \in Cases \ {j}, behind'[i] = n.into,
                     RefOf[i] # None, RefOf[i] = RefOf[j]
              PROVE  FALSE
          <5>1. CASE i \in m.moved
            BY <2>1, <3>1, <4>2, <5>1 DEF Apart
          <5>2. CASE i \notin m.moved
            BY <2>1, <4>1, <4>2, <5>2 DEF Carried
          <5> QED BY <5>1, <5>2
        <4> QED BY <2>1, <3>1, <4>1, <4>2 DEF Carried
      <3> QED BY <3>1, <3>2, <3>3 DEF RequestKept, Carried
    <2>8. \A q \in Requests : \A o \in Others(q) : Apart(doing[q], doing[o])'
      BY <2>2, NoRequestIsARequest DEF DirectoryKept, Apart, Others
    <2>9. Default \in customers' /\ customers' \subseteq Customers
      BY <1>2, <2>1 DEF DirectoryKept
    <2> QED BY <1>1, <2>3, <2>4, <2>5, <2>6, <2>7, <2>8, <2>9 DEF DirectoryKept
  <1> QED BY <1>3, <1>4

(* A change to an account may take memberships away, and nothing else.     *)
LEMMA AccountStepKeeps ==
    ASSUME DirectoryKept, AccountStep PROVE DirectoryKept'
  <1>1. UNCHANGED <<customers, behind, held, doing>>
    BY DEF AccountStep
  <1>2. member' \in [Groups -> [Accounts -> Levels]]
    BY DEF AccountStep, DirectoryKept, Levels
  <1> QED BY <1>1, <1>2 DEF DirectoryKept, Free, RequestKept, Carried, Apart, Others

LEMMA StepKeepsTheDirectory ==
    ASSUME DirectoryKept, [ReachNext]_reachVars PROVE DirectoryKept'
  <1>1. CASE AccountStep
    BY <1>1, AccountStepKeeps
  <1>2. ASSUME NEW p \in Requests, DirectoryStep(p) PROVE DirectoryKept'
    BY <1>2, MergeKeeps, RemoveKeeps, GroupActKeeps, AttributeKeeps, MergeStepKeeps,
       DeleteKeeps, AnnounceKeeps DEF DirectoryStep
  <1>3. CASE UNCHANGED reachVars
    BY <1>3 DEF reachVars, directory, DirectoryKept, Free, RequestKept, Carried, Apart, Others
  <1> QED BY <1>1, <1>2, <1>3 DEF ReachNext

(* No case and no group's hold is left with a customer that is gone, and   *)
(* no customer has one reference twice, however merges, removals, holds    *)
(* and moves of cases meet (customers.service.ts, cases.service.ts).       *)
THEOREM DirectoryIsKept == ReachSpec => []DirectoryKept
  <1>1. ReachInit => DirectoryKept
    BY InitKeepsTheDirectory
  <1>2. DirectoryKept /\ [ReachNext]_reachVars => DirectoryKept'
    BY StepKeepsTheDirectory
  <1> QED BY <1>1, <1>2, PTL DEF ReachSpec

-----------------------------------------------------------------------------
(* Where nothing of the groups moved since the merge read them, a group    *)
(* holds the survivor afterwards if it held either of the two before.      *)
LEMMA HoldsEither ==
    ASSUME DirectoryKept, NEW p \in Requests, Delete(p),
           doing[p].from \in customers \ customers',
           NEW g \in Groups, g \notin MovedMeanwhile(doing[p])
    PROVE  <<g, doing[p].into>> \in held' <=>
              <<g, doing[p].from>> \in held \/ <<g, doing[p].into>> \in held
  <1> DEFINE m == doing[p]
  <1>1. RequestKept(m) /\ m.step = "delete" /\ m.from # m.into /\ m.read = m.copied \cup m.found
    BY DEF DirectoryKept, Delete, RequestKept, Merging
  <1>2. held' = {e \in held : e[2] # m.from} \cup (m.copied \X {m.into})
    BY DEF Delete
  <1>3. /\ g \in m.read <=> g \in HoldersOf(m.from)
        /\ g \in m.found => g \in HoldersOf(m.into)
    BY DEF MovedMeanwhile
  <1>4. <<g, m.into>> \in held' <=> <<g, m.into>> \in held \/ g \in m.copied
    BY <1>1, <1>2
  <1> QED BY <1>1, <1>3, <1>4 DEF HoldersOf

(* No step but a request's own changes it.                                 *)
LEMMA OwnStep ==
    ASSUME DirectoryKept, [ReachNext]_reachVars, NEW p \in Requests, doing'[p] # doing[p]
    PROVE  UNCHANGED vars /\ DirectoryStep(p)
  <1>1. DOMAIN doing = Requests
    BY DEF DirectoryKept
  <1>2. ~ UNCHANGED doing
    OBVIOUS
  <1>3. PICK q \in Requests : UNCHANGED vars /\ DirectoryStep(q)
    BY <1>2 DEF ReachNext, AccountStep, reachVars, directory
  <1>4. CASE q = p
    BY <1>3, <1>4
  <1>5. CASE q # p
    <2>1. DirectoryStep(q) => doing'[p] = doing[p]
      BY <1>1, <1>5 DEF DirectoryStep, Merge, Remove, Hold, Release, Grant, Attribute, Announce,
         MergeStep, Read, Compare, Move, Edges, Copy, Drop, Settle, Delete, RollBack,
         Hears, Doing, Over, On
    <2> QED BY <1>3, <2>1
  <1> QED BY <1>4, <1>5

(* What a request at its last statement does is to commit or to roll back. *)
LEMMA LastStep ==
    ASSUME NEW p \in Requests, DirectoryStep(p), doing[p].step = "delete",
           customers' # customers
    PROVE  Delete(p)
  BY DEF DirectoryStep, Merge, Remove, Hold, Release, Grant, Attribute, Announce, Arrives,
     MergeStep, Read, Compare, Move, Edges, Copy, Drop, Settle, RollBack

(* spec.md, "Reach after a merge", of every directory: a merge gives the   *)
(* survivor the stronger of the two levels, and leaves no case behind the  *)
(* customer it loses (customers.service.ts merge).                         *)
THEOREM MergesMoveReach == ReachSpec => MergeMovesReach
  <1>1. ASSUME DirectoryKept, [ReachNext]_reachVars, NEW p \in Requests
        PROVE  MovesReach(p)
    <2> DEFINE m == doing[p]
    <2> SUFFICES ASSUME m.step = "delete", doing'[p] # m, m.from \in customers \ customers'
                 PROVE  /\ \A k \in Cases : behind'[k] # m.from
                        /\ \A t \in Accounts, l \in {1, 2, 3} :
                              (\A g \in MovedMeanwhile(m) : member[g][t] = 0) =>
                                 \A into \in {m.into} :
                                    Reaches(t, into, l)' <=>
                                       Reaches(t, m.from, l) \/ Reaches(t, into, l)
      BY DEF MovesReach
    <2>1. Delete(p) /\ UNCHANGED vars
      <3>1. UNCHANGED vars /\ DirectoryStep(p)
        BY <1>1, OwnStep
      <3>2. customers' # customers
        OBVIOUS
      <3> QED BY <3>1, <3>2, LastStep
    <2>2. m \in RequestType /\ m.from # m.into /\ Default \notin {m.from, m.into}
      <3>1. m \in RequestType /\ RequestKept(m)
        BY <1>1 DEF DirectoryKept
      <3> QED BY <3>1 DEF RequestKept, Merging
    <2>3. /\ Vacant(m.from, m.moved)
          /\ behind' = [k \in Cases |-> IF k \in m.moved THEN m.into ELSE behind[k]]
          /\ UNCHANGED member
      BY <2>1 DEF Delete
    <2>4. \A k \in Cases : behind'[k] # m.from
      BY <2>2, <2>3 DEF Vacant, BehindCustomer
    <2>5. ASSUME NEW t \in Accounts, NEW l \in {1, 2, 3},
                 \A g \in MovedMeanwhile(m) : member[g][t] = 0,
                 NEW into, into = m.into
          PROVE  Reaches(t, into, l)' <=> Reaches(t, m.from, l) \/ Reaches(t, into, l)
      <3>1. \A g \in Groups : member[g][t] >= l => g \notin MovedMeanwhile(m)
        BY <2>5
      <3>2. \A g \in Groups : member[g][t] >= l =>
               (<<g, into>> \in held' <=> <<g, m.from>> \in held \/ <<g, into>> \in held)
        <4> TAKE g \in Groups
        <4> HAVE member[g][t] >= l
        <4>1. g \notin MovedMeanwhile(m)
          BY <3>1
        <4>2. <<g, m.into>> \in held' <=> <<g, m.from>> \in held \/ <<g, m.into>> \in held
          BY <1>1, <2>1, <4>1, HoldsEither
        <4> QED BY <2>5, <4>2
      <3> QED BY <2>2, <2>3, <2>5, <3>2 DEF Reaches
    <2> QED BY <2>4, <2>5
  <1>2. DirectoryKept /\ [ReachNext]_reachVars => [\A p \in Requests : MovesReach(p)]_reachVars
    BY <1>1
  <1> QED BY <1>2, DirectoryIsKept, PTL DEF ReachSpec, MergeMovesReach

-----------------------------------------------------------------------------
(* A hold cuts nobody off.                                                 *)
LEMMA HoldTells ==
    ASSUME NEW p \in Requests, Hold(p), UNCHANGED account PROVE CutOff = {}
  <1>1. held \subseteq held' /\ behind' = behind /\ member' = member
    BY DEF Hold
  <1> QED BY <1>1 DEF CutOff, Reaches, Floor

(* A release cuts off analysts of the group it names, and says so.         *)
LEMMA ReleaseTells ==
    ASSUME DirectoryKept, NEW p \in Requests, Release(p), UNCHANGED account
    PROVE  CutOff \subseteq Told(p)'
  <1>1. PICK e \in held :
          /\ held' = held \ {e} /\ behind' = behind /\ member' = member
          /\ doing' = [doing EXCEPT ![p] = [NoRequest EXCEPT !.step = "members", !.group = e[1]]]
    BY DEF Release, Hears, Doing
  <1>2. doing'[p].step = "members" /\ doing'[p].group = e[1]
    BY <1>1 DEF DirectoryKept, NoRequest
  <1>3. ASSUME NEW t \in Accounts, NEW k \in Cases, NEW l \in {1, 2},
               Reaches(t, behind[k], l), ~ Reaches(t, behind[k], l)'
        PROVE  member'[e[1]][t] > 0
    <2>1. PICK g \in Groups : <<g, behind[k]>> \in held /\ member[g][t] >= l
      BY <1>1, <1>3 DEF Reaches, Floor
    <2>2. <<g, behind[k]>> \notin held'
      BY <1>1, <1>3, <2>1 DEF Reaches
    <2>3. e = <<g, behind[k]>>
      BY <1>1, <2>1, <2>2
    <2>4. e[1] = g /\ member[g][t] > 0
      BY <2>1, <2>3 DEF DirectoryKept, Levels
    <2> QED BY <1>1, <2>4
  <1> QED BY <1>2, <1>3 DEF CutOff, Told

(* A change of one membership cuts off its analyst at most.                *)
LEMMA GrantTells ==
    ASSUME DirectoryKept, NEW p \in Requests, Grant(p), UNCHANGED account
    PROVE  /\ CutOff \subseteq Told(p)'
           /\ \A q \in Requests : doing'[q] = doing[q] => Told(q) \subseteq Told(q)' \cup Told(p)'
  <1>1. PICK g \in Groups, t \in Accounts, l \in Granted :
          /\ member' = [member EXCEPT ![g][t] = l] /\ held' = held /\ behind' = behind
          /\ doing' = [doing EXCEPT ![p] = [NoRequest EXCEPT !.step = "one", !.who = t]]
    BY DEF Grant, Hears, Doing, Known
  <1>2. Told(p)' = {t} \X Cases
    BY <1>1 DEF DirectoryKept, NoRequest, Told
  <1>3. \A h \in Groups, a \in Accounts \ {t} : member'[h][a] = member[h][a]
    BY <1>1 DEF DirectoryKept
  <1>4. CutOff \subseteq Told(p)'
    <2> SUFFICES ASSUME NEW a \in Accounts \ {t}, NEW k \in Cases, NEW n \in {1, 2},
                        Reaches(a, behind[k], n)
                 PROVE  Reaches(a, behind[k], n)'
      BY <1>2 DEF CutOff
    <2> QED BY <1>1, <1>3 DEF Reaches, Floor
  <1>5. ASSUME NEW q \in Requests, doing'[q] = doing[q], NEW e \in Told(q), e[1] # t
        PROVE  e \in Told(q)'
    <2>1. CASE doing[q].step = "members"
      <3>1. doing[q].group \in Groups
        BY <2>1 DEF DirectoryKept, RequestKept
      <3>2. PICK a \in Accounts, k \in Cases : e = <<a, k>> /\ member[doing[q].group][a] > 0
        BY <1>5, <2>1 DEF Told
      <3>3. member'[doing[q].group][a] > 0
        BY <1>3, <1>5, <3>1, <3>2
      <3> QED BY <1>5, <2>1, <3>2, <3>3 DEF Told
    <2>2. CASE doing[q].step # "members"
      BY <1>5, <2>2 DEF Told
    <2> QED BY <2>1, <2>2
  <1>6. \A q \in Requests : \A e \in Told(q) : e[1] = t => e \in Told(p)'
    BY <1>2 DEF Told, DirectoryKept, RequestKept
  <1> QED BY <1>4, <1>5, <1>6

(* The move of a case cuts nobody off from another.                        *)
LEMMA AttributeTells ==
    ASSUME DirectoryKept, NEW p \in Requests, Attribute(p), UNCHANGED account
    PROVE  CutOff \subseteq Told(p)'
  <1>1. PICK k \in Cases, c \in customers :
          /\ behind' = [behind EXCEPT ![k] = c] /\ held' = held /\ member' = member
          /\ doing' = [doing EXCEPT ![p] = [NoRequest EXCEPT !.step = "case", !.kase = k]]
    BY DEF Attribute, Hears, Doing
  <1>2. Told(p)' = Accounts \X {k}
    BY <1>1 DEF DirectoryKept, NoRequest, Told
  <1>3. \A j \in Cases \ {k} : behind'[j] = behind[j]
    BY <1>1 DEF DirectoryKept
  <1> QED BY <1>1, <1>2, <1>3 DEF CutOff, Reaches, Floor

(* Only a group or an account loses reach by an act, and it is announced.  *)
LEMMA RequestTells ==
    ASSUME DirectoryKept, WhoLosesReachIsTold, NEW p \in Requests,
           DirectoryStep(p), UNCHANGED vars
    PROVE  WhoLosesReachIsTold'
  <1>1. \A q \in Requests : q # p => doing'[q] = doing[q]
    BY DEF DirectoryKept, DirectoryStep, Merge, Remove, Hold, Release, Grant, Attribute, Announce,
       MergeStep, Read, Compare, Move, Edges, Copy, Drop, Settle, Delete, RollBack,
       Hears, Doing, Over, On
  <1>2. UNCHANGED account
    BY DEF vars, accountVars
  <1>3. CASE Merge(p) \/ MergeStep(p) \/ Remove(p)
    <2>1. unheard' = unheard /\ member' = member /\ Told(p) = {}
      BY <1>3 DEF Merge, Remove, MergeStep, Read, Compare, Move, Edges, Copy, Drop, Settle,
         Delete, RollBack, Merging, Arrives, Told
    <2>2. \A q \in Requests : q # p => Told(q)' = Told(q)
      BY <1>1, <2>1 DEF Told
    <2> QED BY <2>1, <2>2 DEF WhoLosesReachIsTold
  <1>4. CASE Announce(p)
    <2>1. unheard' = unheard \ Told(p) /\ member' = member
      BY <1>4 DEF Announce
    <2>2. \A q \in Requests : q # p => Told(q)' = Told(q)
      BY <1>1, <2>1 DEF Told
    <2> QED BY <2>1, <2>2 DEF WhoLosesReachIsTold
  <1>5. CASE Hold(p) \/ Release(p) \/ Grant(p) \/ Attribute(p)
    <2>1. Told(p) = {}
      BY <1>5 DEF Hold, Release, Grant, Attribute, Arrives, Told
    <2>2. ASSUME NEW e \in unheard PROVE \E q \in Requests : e \in Told(q)'
      <3>1. PICK q \in Requests : e \in Told(q)
        BY <2>2 DEF WhoLosesReachIsTold
      <3>2. q # p
        BY <2>1, <3>1
      <3>3. CASE member' = member
        BY <1>1, <3>1, <3>2, <3>3 DEF Told
      <3>4. CASE Grant(p)
        BY <1>1, <1>2, <3>1, <3>2, <3>4, GrantTells
      <3> QED BY <1>5, <3>3, <3>4 DEF Hold, Release, Attribute
    <2>3. CutOff \subseteq Told(p)'
      BY <1>2, <1>5, HoldTells, ReleaseTells, GrantTells, AttributeTells
    <2> QED BY <1>5, <2>2, <2>3 DEF WhoLosesReachIsTold, Hold, Release, Grant, Attribute, Hears
  <1> QED BY <1>3, <1>4, <1>5 DEF DirectoryStep

(* An account that goes is told of nothing more; who stays, stays a member.*)
LEMMA AccountStepTells ==
    ASSUME DirectoryKept, WhoLosesReachIsTold, AccountStep
    PROVE  WhoLosesReachIsTold'
  <1> SUFFICES ASSUME NEW e \in unheard' PROVE \E q \in Requests : e \in Told(q)'
    BY DEF WhoLosesReachIsTold
  <1>1. e \in unheard /\ account'[e[1]].role # "none" /\ doing' = doing
    BY DEF AccountStep
  <1>2. PICK q \in Requests : e \in Told(q)
    BY <1>1 DEF WhoLosesReachIsTold
  <1>3. \A g \in Groups, t \in Accounts :
           member'[g][t] = IF account'[t].role = "none" THEN 0 ELSE member[g][t]
    BY DEF AccountStep
  <1>4. CASE doing[q].step = "members"
    <2>1. doing[q].group \in Groups
      BY <1>2, <1>4 DEF Told, DirectoryKept, RequestKept
    <2> QED BY <1>1, <1>2, <1>3, <1>4, <2>1 DEF Told
  <1>5. CASE doing[q].step # "members"
    BY <1>1, <1>2, <1>5 DEF Told
  <1> QED BY <1>4, <1>5

(* groups.service.ts, "every act that alters reach announces the analyst   *)
(* it altered": of any directory, whoever an act on a group or the move of *)
(* a case cuts off is told, though the members are read after the write.   *)
THEOREM LosersOfReachAreTold == ReachSpec => []WhoLosesReachIsTold
  <1>1. ReachInit => WhoLosesReachIsTold
    BY DEF ReachInit, WhoLosesReachIsTold
  <1>2. DirectoryKept /\ WhoLosesReachIsTold /\ [ReachNext]_reachVars => WhoLosesReachIsTold'
    <2> SUFFICES ASSUME DirectoryKept, WhoLosesReachIsTold, [ReachNext]_reachVars
                 PROVE  WhoLosesReachIsTold'
      OBVIOUS
    <2>1. CASE AccountStep
      BY <2>1, AccountStepTells
    <2>2. ASSUME NEW p \in Requests, DirectoryStep(p), UNCHANGED vars
          PROVE  WhoLosesReachIsTold'
      BY <2>2, RequestTells
    <2>3. CASE UNCHANGED reachVars
      BY <2>3 DEF reachVars, directory, WhoLosesReachIsTold, Told
    <2> QED BY <2>1, <2>2, <2>3 DEF ReachNext
  <1> QED BY <1>1, <1>2, DirectoryIsKept, PTL DEF ReachSpec
=============================================================================
