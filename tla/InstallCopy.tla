----------------------------- MODULE InstallCopy -----------------------------
(***************************************************************************)
(* A copy of a running install and the return to it (docker/backup.sh):    *)
(* the database is dumped in one statement, the evidence directory is      *)
(* archived after it case by case, the copy is checked, and a restore      *)
(* replaces the database and then the directory. Analysts go on working    *)
(* while the copy is taken.                                                *)
(***************************************************************************)
EXTENDS ArtefactStore

VARIABLES
    dump,     \* the database as it was dumped, or None
    archive,  \* of each case, the digests the archive holds, or None
    checked,  \* the copy was verified
    left,     \* digests that left a case since the dump
    stage,    \* "running", "stopped", "replaced", "restored" or "failed"
    before    \* what the install held when a restore began, or None

copying == <<dump, archive, checked, left, stage, before>>
work == <<arriving, lane, sending, reading, spilled, asks, fails, withdrawn>>
copyVars == <<vars, copying>>

Database == [open |-> open, row |-> row, report |-> report]

CopyInit ==
    /\ Init
    /\ dump = None /\ archive = [c \in Cases |-> None] /\ checked = FALSE
    /\ left = [c \in Cases |-> {}] /\ stage = "running" /\ before = None

(* The install works beside the copying.                                   *)
Work ==
    /\ stage \in {"running", "restored"} /\ Next
    /\ left' = IF dump = None THEN left ELSE [c \in Cases |-> left[c] \cup (held[c] \ held'[c])]
    /\ UNCHANGED <<dump, archive, checked, stage, before>>

-----------------------------------------------------------------------------
Dump ==
    /\ dump = None /\ stage = "running"
    /\ dump' = Database
    /\ UNCHANGED <<vars, archive, checked, left, stage, before>>

(* Mutant: the archive is taken before the dump.                           *)
MayArchiveFirst == TRUE

MayArchive == dump # None

Archive(c) ==
    /\ MayArchive /\ archive[c] = None /\ stage = "running"
    /\ archive' = [archive EXCEPT ![c] = held[c]]
    /\ UNCHANGED <<vars, dump, checked, left, stage, before>>

Complete == dump # None /\ \A c \in Cases : archive[c] # None

(* NAMED_SQL: the digests the records of a database name.                  *)
NamedInDump(c) ==
    {dump.row[c][r].hash : r \in {p \in Rows : dump.row[c][p] # None /\ dump.row[c][p].stored}}
    \ {None}

(* verify(): each of them is somewhere in the archive.                     *)
Verify ==
    /\ Complete /\ ~checked
    /\ UNION {NamedInDump(c) : c \in Cases} \subseteq UNION {archive[c] : c \in Cases}
    /\ checked' = TRUE
    /\ UNCHANGED <<vars, dump, archive, left, stage, before>>

-----------------------------------------------------------------------------
(* Mutant: the server goes on with the acts it was running.                *)
Unstopped == UNCHANGED <<arriving, lane, sending, reading>>

(* Nothing the server was doing goes on.                                   *)
Stopped ==
    /\ arriving' = {} /\ lane' = [c \in Cases |-> <<>>]
    /\ sending' = [c \in Cases |-> None] /\ reading' = [c \in Cases |-> None]

(* restore(): a checked copy, and the server stops;                        *)
Stop ==
    /\ checked /\ stage = "running"
    /\ stage' = "stopped"
    /\ before' = [database |-> Database, held |-> held]
    /\ Stopped
    /\ UNCHANGED <<open, row, held, report, spilled, asks, fails, withdrawn, dump, archive,
                   checked, left>>

(* the database is replaced in one transaction;                            *)
ReplaceDatabase ==
    /\ stage = "stopped" /\ stage' = "replaced"
    /\ open' = dump.open /\ row' = dump.row /\ report' = dump.report
    /\ UNCHANGED <<held, work, dump, archive, checked, left, before>>

(* the directory is replaced, and the install starts again.                *)
ReplaceEvidence ==
    /\ stage = "replaced" /\ stage' = "restored"
    /\ held' = archive
    /\ UNCHANGED <<open, row, report, work, dump, archive, checked, left, before>>

(* A command of the restore fails: the transaction is rolled back, the     *)
(* directory is untouched, emptied, or has part of the archive.            *)
RestoreFails ==
    /\ stage \in {"stopped", "replaced"} /\ Mishap
    /\ fails' = fails + 1 /\ stage' = "failed"
    /\ \/ UNCHANGED held
       \/ stage = "replaced" /\ held' \in {h \in [Cases -> SUBSET Hashes] :
                                               \A c \in Cases : h[c] \subseteq archive[c]}
    /\ UNCHANGED <<open, row, report, arriving, lane, sending, reading, spilled, asks, withdrawn,
                   dump, archive, checked, left, before>>

CopyNext ==
    \/ Work \/ Dump \/ (\E c \in Cases : Archive(c)) \/ Verify
    \/ Stop \/ ReplaceDatabase \/ ReplaceEvidence \/ RestoreFails

CopySpec == CopyInit /\ [][CopyNext]_copyVars

-----------------------------------------------------------------------------
(* backup.sh:62-63: an archive taken after the dump holds every artefact   *)
(* the dump names.                                                         *)
CopyIsWhole == Complete => \A c \in Cases : NamedInDump(c) \subseteq archive[c]

(* state/spec.md: a copy the install cannot return to whole is refused     *)
(* before anything is changed; so a copy that verify() passed is whole.    *)
CheckedCopyIsWhole == checked => \A c \in Cases : NamedInDump(c) \subseteq archive[c]

(* backup.sh: the archive is taken after the dump, so a copy lacks only    *)
(* what the case let go of while it was being taken, if nobody's reach was *)
(* withdrawn under an act.                                                 *)
CopyLacksOnlyWhatLeft ==
    Complete /\ withdrawn = 0 => \A c \in Cases : NamedInDump(c) \subseteq archive[c] \cup left[c]

(* Taking a copy, of a case that was opened or of one that was read in     *)
(* from an archive, leaves what the records and the sent report name held. *)
HeldMeanwhile == stage = "running" => NamedIsHeld

(* restore(): the server is stopped before the database is replaced, so    *)
(* no act begun before reaches the restored case: what its records say it  *)
(* holds is held, but for what the copy lacked.                            *)
RestoredIsHeld ==
    stage = "restored" /\ withdrawn = 0 =>
        \A c \in Cases : open[c] = "yes" =>
            \A r \in Present(c) :
                row[c][r].stored => row[c][r].hash \in held[c] \cup left[c] \cup {None}

(* A copy lacks only what left meanwhile, of an install that holds what it *)
(* names, and what is restored of it holds what it names.                  *)
CopyKept == CopyLacksOnlyWhatLeft /\ HeldMeanwhile /\ RestoredIsHeld

(* backup.sh:17: a command that cannot finish has changed nothing.         *)
FailedRestoreChangesNothing ==
    stage = "failed" => before = [database |-> Database, held |-> held]
=============================================================================
