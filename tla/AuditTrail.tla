----------------------------- MODULE AuditTrail -----------------------------
(***************************************************************************)
(* The install's audit trail: lines numbered as they are inserted and seen *)
(* as they are committed, the rounds in which each server sends them to    *)
(* the destination behind one mark (install-audit/deliver.service.ts), and *)
(* the sweeps that remove the lines past their window                      *)
(* (install-activity/prune.service.ts, install-audit/prune.schedule.ts).   *)
(*                                                                         *)
(* A line keeps only what it is about.  Which lines are past their window  *)
(* is chosen when a sweep deletes, whatever their class and their age.     *)
(***************************************************************************)
EXTENDS Naturals, Sequences, FiniteSets

CONSTANTS
    Accounts,      \* the addresses accounts are made for
    Servers,       \* the server processes
    Batch,         \* the lines a round sends at once
    MaxLines       \* bound: lines ever numbered, of the sweeps and all else

ASSUME BatchAssumption == Batch \in Nat \ {0}
ASSUME MaxLinesAssumption == MaxLines \in Nat

VARIABLES
    shipped,       \* whether the install has a destination
    room,          \* bound: lines the sweeps and the other parts still number
    trail,         \* the lines by their number, with what became of each
    cursor,        \* deliveredSeq, the mark the servers share
    taken,         \* the numbers the destination has taken
    round,         \* the round each server is in
    sweep          \* the sweep each server is in

trailVars == <<shipped, room, trail, cursor, taken, round, sweep>>

NoRound == [step |-> "idle", from |-> 0, batch |-> {}, newest |-> 0]
NoSweep == [step |-> "idle", through |-> 0, old |-> {}, line |-> 0]


TrailInit ==
    /\ trail = <<>>
    /\ cursor = 0
    /\ taken = {}
    /\ round = [s \in Servers |-> NoRound]
    /\ sweep = [s \in Servers |-> NoSweep]

Top(ns) == CHOOSE n \in ns : \A m \in ns : m <= n
InState(state) == {n \in DOMAIN trail : trail[n].state = state}

-----------------------------------------------------------------------------
(* A line: numbered by its insert, stored once its transaction commits.     *)

Numbered(of, says) ==
    Append(trail, [of |-> of, says |-> says, state |-> "open", late |-> FALSE])

(* A line is late when one numbered after it has been picked by then: no   *)
(* round looks behind its mark for it again.                               *)
Behind(n) ==
    \/ n <= cursor
    \/ \E s \in Servers : \E m \in round[s].batch : n < m

Stored(lines, n) ==
    [lines EXCEPT ![n] = [@ EXCEPT !.state = "stored", !.late = Behind(n)]]

(* The transaction of an open line rolls back: its number names no line.    *)
Voided(lines, n) == [lines EXCEPT ![n] = [@ EXCEPT !.state = "void"]]

(* A line of another part of the server, with an act of its own or alone.   *)
OtherLine ==
    /\ room > 0
    /\ room' = room - 1
    /\ trail' = Numbered("", "other")
    /\ UNCHANGED <<shipped, cursor, taken, round, sweep>>

OtherEnds ==
    /\ \E n \in InState("open") :
          /\ trail[n].says = "other"
          /\ trail' \in {Stored(trail, n), Voided(trail, n)}
    /\ UNCHANGED <<shipped, room, cursor, taken, round, sweep>>

-----------------------------------------------------------------------------
(* A round of delivery (InstallActivityDelivery.round).                     *)

Begin(s) ==
    /\ shipped
    /\ round[s].step = "idle"
    /\ round' = [round EXCEPT ![s] =
                    [step |-> "marked", from |-> cursor, batch |-> {}, newest |-> 0]]
    /\ UNCHANGED <<shipped, room, trail, cursor, taken, sweep>>

(* Mutant: the newest lines rather than the oldest. *)
PickedNewest(from) ==
    LET waiting == {n \in InState("stored") : n > from}
    IN {n \in waiting : Cardinality({m \in waiting : m > n}) < Batch}

(* The oldest stored lines behind the mark, up to a batch of them.          *)
Picked(from) ==
    LET waiting == {n \in InState("stored") : n > from}
    IN {n \in waiting : Cardinality({m \in waiting : m < n}) < Batch}

Select(s) ==
    /\ round[s].step = "marked"
    /\ LET rows == Picked(round[s].from)
       IN \/ rows = {} /\ round' = [round EXCEPT ![s] = NoRound]
          \/ \E newest \in rows :
                /\ \A n \in rows : n <= newest
                /\ round' = [round EXCEPT ![s] =
                      [step |-> "picked", from |-> 0, batch |-> rows, newest |-> newest]]
    /\ UNCHANGED <<shipped, room, trail, cursor, taken, sweep>>

(* The destination takes every line of the batch.                           *)
Accept(s) ==
    /\ round[s].step = "picked"
    /\ taken' = taken \cup round[s].batch
    /\ round' = [round EXCEPT ![s].step = "sent"]
    /\ UNCHANGED <<shipped, room, trail, cursor, sweep>>

(* It refuses, takes only some, or its answer does not come in time: the   *)
(* round stops, and a later one sends the batch again.                     *)
Refuse(s) ==
    /\ round[s].step = "picked"
    /\ \E some \in SUBSET round[s].batch : taken' = taken \cup some
    /\ round' = [round EXCEPT ![s] = NoRound]
    /\ UNCHANGED <<shipped, room, trail, cursor, sweep>>

(* The mark moves to the newest line sent, never back.  After a full batch *)
(* the round reads the mark again, as a round beginning does.              *)
Mark(s) ==
    /\ round[s].step = "sent"
    /\ cursor' = IF cursor < round[s].newest THEN round[s].newest ELSE cursor
    /\ round' = [round EXCEPT ![s] = NoRound]
    /\ UNCHANGED <<shipped, room, trail, taken, sweep>>

-----------------------------------------------------------------------------
(* A sweep (InstallActivityPruneSchedule.sweep, then prune).                *)

(* The mark is read before the transaction; without a destination only the *)
(* lines' age bounds the delete.                                           *)
Bound(s) ==
    /\ room > 0
    /\ sweep[s].step = "idle"
    /\ LET through == IF shipped THEN cursor ELSE 0
       IN sweep' = [sweep EXCEPT ![s] =
                       [step |-> "bound", through |-> through, old |-> {}, line |-> 0]]
    /\ UNCHANGED <<shipped, room, trail, cursor, taken, round>>

(* Mutant: time alone decides, whatever the destination has. *)
RemovableByAge(s) == InState("stored")

Removable(s) == {n \in InState("stored") : shipped => n <= sweep[s].through}

Locked == UNION {sweep[s].old : s \in Servers}

(* Lines past their window are deleted, and a line accounting for them is  *)
(* numbered in the same transaction; a row another sweep is deleting is    *)
(* waited for.                                                             *)
Prune(s) ==
    /\ sweep[s].step = "bound"
    /\ room > 0
    /\ room' = room - 1
    /\ \E old \in SUBSET (Removable(s) \ Locked) \ {{}} :
          sweep' = [sweep EXCEPT ![s] = [step |-> "pruning", through |-> @.through,
                                         old |-> old, line |-> Len(trail) + 1]]
    /\ trail' = Numbered("", "pruned")
    /\ UNCHANGED <<shipped, cursor, taken, round>>

(* No line is past its window.                                              *)
PruneNothing(s) ==
    /\ sweep[s].step = "bound"
    /\ sweep' = [sweep EXCEPT ![s] = NoSweep]
    /\ UNCHANGED <<shipped, room, trail, cursor, taken, round>>

Removed(lines, old) ==
    [n \in DOMAIN lines |-> IF n \in old THEN [lines[n] EXCEPT !.state = "gone"] ELSE lines[n]]

PruneCommits(s) ==
    /\ sweep[s].step = "pruning"
    /\ trail' = Stored(Removed(trail, sweep[s].old), sweep[s].line)
    /\ sweep' = [sweep EXCEPT ![s] = NoSweep]
    /\ UNCHANGED <<shipped, room, cursor, taken, round>>

(* Mutant: the delete stands without its account. *)
PruneUnrecordedKept(s) ==
    /\ sweep[s].step = "pruning"
    /\ trail' = Voided(Removed(trail, sweep[s].old), sweep[s].line)
    /\ sweep' = [sweep EXCEPT ![s] = NoSweep]
    /\ UNCHANGED <<shipped, room, cursor, taken, round>>

(* The account of the prune could not be written: nothing is pruned.        *)
PruneUnrecorded(s) ==
    /\ sweep[s].step = "pruning"
    /\ trail' = Voided(trail, sweep[s].line)
    /\ sweep' = [sweep EXCEPT ![s] = NoSweep]
    /\ UNCHANGED <<shipped, room, cursor, taken, round>>

(* Where a server's round and sweep are when its process is gone.           *)
TrailStopped(s) ==
    /\ round' = [round EXCEPT ![s] = NoRound]
    /\ sweep' = [sweep EXCEPT ![s] = NoSweep]

TrailStep(s) ==
    \/ Begin(s) \/ Select(s) \/ Accept(s) \/ Refuse(s) \/ Mark(s)
    \/ Bound(s) \/ Prune(s) \/ PruneNothing(s)
    \/ PruneCommits(s) \/ PruneUnrecorded(s)

(* A server's rounds go on (the interval of ten seconds), each of its      *)
(* transactions ends, and a destination that is asked again and again      *)
(* takes a batch some time.                                                *)
TrailFairness ==
    \A s \in Servers :
       /\ WF_trailVars(Begin(s)) /\ WF_trailVars(Select(s)) /\ WF_trailVars(Mark(s))
       /\ SF_trailVars(Accept(s))

-----------------------------------------------------------------------------
TrailTypeOK ==
    /\ shipped \in BOOLEAN
    /\ room \in Nat
    /\ \A n \in DOMAIN trail :
          /\ trail[n].state \in {"open", "stored", "void", "gone"}
          /\ trail[n].late \in BOOLEAN
    /\ cursor \in 0..Len(trail)
    /\ taken \subseteq DOMAIN trail
    /\ \A s \in Servers :
          /\ round[s].step \in {"idle", "marked", "picked", "sent"}
          /\ round[s].from <= cursor
          /\ round[s].batch \subseteq DOMAIN trail
          /\ round[s].step \in {"picked", "sent"} => round[s].newest \in round[s].batch
          /\ sweep[s].step \in {"idle", "bound", "pruning"}
          /\ sweep[s].old \subseteq InState("stored")
          /\ sweep[s].step = "pruning" => sweep[s].line \in InState("open")

(* What the trail no longer holds the destination holds, however the       *)
(* sweeps of one server fall among the rounds of another, whichever        *)
(* answers are lost: a line leaves the install only once it has been       *)
(* delivered, save one that was committed behind the mark.                 *)
NothingPrunedUnsent ==
    shipped => \A n \in InState("gone") : n \in taken \/ trail[n].late

(* A deletion is accounted for: while lines are gone, a line saying so is  *)
(* stored, or went in a later prune that is accounted for itself.          *)
PrunesAreTold ==
    \A n \in InState("gone") :
       \E m \in InState("stored") : m > n /\ trail[m].says = "pruned"

(* No line leaves the install untaken, or untold.                           *)
PrunesKept == NothingPrunedUnsent /\ PrunesAreTold

(* The mark two servers write never goes back: what was delivered behind   *)
(* it is not offered as undelivered again.                                 *)
MarkOnlyGrows == [][cursor' >= cursor]_cursor

(* Every line that is stored reaches the destination, unless it was        *)
(* committed behind the mark.                                              *)
LinesAreDelivered ==
    \A n \in 1..MaxLines :
       (shipped /\ n \in InState("stored") /\ ~ trail[n].late) ~> (n \in taken)
=============================================================================
