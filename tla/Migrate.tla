------------------------------- MODULE Migrate --------------------------------
(***************************************************************************)
(* sqlitedb/sqlitedb.go: Open, called by several processes at once, of     *)
(* builds that know different numbers of migrations.  SQLite is external:  *)
(* a BEGIN IMMEDIATE transaction holds the one write lock from its begin   *)
(* to its end, a rollback undoes all of it, and a process that dies has    *)
(* rolled back; the switch to WAL needs every other connection closed.     *)
(* Left out: AdoptUnversioned, file modes and the other pragmas.           *)
(***************************************************************************)
EXTENDS Integers, Sequences

CONSTANTS
  Procs,
  Known,     \* how many migrations each process's build has
  NoProc,
  MaxFaults  \* bound: deaths, failed steps and refusals waited out

\* What a theorem here assumes of them; each instance is checked to meet it.
MigrateConstants ==
  Known \in [Procs -> Nat] /\ Procs # {} /\ NoProc \notin Procs /\ MaxFaults \in Nat

VARIABLES
  wal,       \* journal_mode is WAL
  version,   \* user_version
  applied,   \* the steps committed, in order
  tables,    \* it holds tables no step made
  lock,      \* who holds the write lock
  opening,        \* each process in Open
  have,      \* the version its transaction read
  ran,       \* its transaction has run the step
  faults

migrateVars == <<wal, version, applied, tables, lock, opening, have, ran, faults>>

Versions == UNION {0..Known[p] : p \in Procs}
Connected == {"migrate", "tx"}

MigrateInit ==
  /\ wal \in BOOLEAN /\ tables \in BOOLEAN
  /\ version \in IF tables THEN {0} ELSE Versions
  /\ applied = [i \in 1..version |-> i]
  /\ lock = NoProc /\ faults = 0
  /\ opening = [p \in Procs |-> "new"]
  /\ have = [p \in Procs |-> 0] /\ ran = [p \in Procs |-> FALSE]

OpenGoes(p, from, to) == opening[p] = from /\ opening' = [opening EXCEPT ![p] = to]

\* enableWAL, once the file is there, whoever made it: set already, or switched
\* when no other is connected; else it tries again, until walWait is over.
EnableWAL(p) ==
  /\ wal \/ \A q \in Procs \ {p} : opening[q] \notin Connected \cup {"open"}
  /\ OpenGoes(p, "new", "migrate") /\ wal' = TRUE
  /\ UNCHANGED <<version, applied, tables, lock, have, ran, faults>>

GivesUp(p) ==
  /\ faults < MaxFaults /\ faults' = faults + 1
  /\ \/ ~wal /\ OpenGoes(p, "new", "failed")
     \/ lock # NoProc /\ OpenGoes(p, "migrate", "failed")
  /\ UNCHANGED <<wal, version, applied, tables, lock, have, ran>>

Deferred(p) == TRUE   \* mutant: BEGIN, which takes no lock until it writes
Unlocked(p) == lock = NoProc

\* BEGIN IMMEDIATE, and the version read inside.
BeginTx(p) ==
  /\ Unlocked(p) /\ OpenGoes(p, "migrate", "tx")
  /\ lock' = p
  /\ have' = [have EXCEPT ![p] = version] /\ ran' = [ran EXCEPT ![p] = FALSE]
  /\ UNCHANGED <<wal, version, applied, tables, faults>>

LockAfter(p) == IF lock = p THEN NoProc ELSE lock

\* NewerError, or ErrUnversioned: tables, and no version to start from.
Refuse(p) ==
  /\ have[p] > Known[p] \/ (have[p] = 0 /\ Known[p] > 0 /\ tables)
  /\ OpenGoes(p, "tx", "failed") /\ ~ran[p]
  /\ lock' = LockAfter(p)
  /\ UNCHANGED <<wal, version, applied, tables, have, ran, faults>>

\* The step of the version read, not yet committed.
RunStep(p) ==
  /\ opening[p] = "tx" /\ ~ran[p] /\ have[p] < Known[p] /\ ~(have[p] = 0 /\ tables)
  /\ ran' = [ran EXCEPT ![p] = TRUE]
  /\ UNCHANGED <<wal, version, applied, tables, lock, opening, have, faults>>

\* The step and the version bump in one commit; then the next transaction.
Commit(p) ==
  /\ ran[p] /\ OpenGoes(p, "tx", "migrate")
  /\ version' = have[p] + 1 /\ applied' = Append(applied, have[p] + 1)
  /\ lock' = LockAfter(p)
  /\ have' = [have EXCEPT ![p] = 0] /\ ran' = [ran EXCEPT ![p] = FALSE]
  /\ UNCHANGED <<wal, tables, faults>>

\* Nothing left to do: the database is opened for use.
Opened(p) ==
  /\ have[p] = Known[p] /\ OpenGoes(p, "tx", "open")
  /\ lock' = LockAfter(p)
  /\ UNCHANGED <<wal, version, applied, tables, have, ran, faults>>

\* The step fails, or the process dies: SQLite rolls back.
Fault(p) ==
  /\ opening[p] \in Connected \cup {"new"} /\ faults < MaxFaults /\ faults' = faults + 1
  /\ opening' = [opening EXCEPT ![p] = "failed"]
  /\ lock' = LockAfter(p)
  /\ ran' = [ran EXCEPT ![p] = FALSE]
  /\ UNCHANGED <<wal, version, applied, tables, have>>

\* Open is called again, by a process that failed or closed its database.
OpenAgain(p) ==
  /\ faults < MaxFaults /\ faults' = faults + 1
  /\ opening[p] \in {"failed", "open"} /\ opening' = [opening EXCEPT ![p] = "new"]
  /\ UNCHANGED <<wal, version, applied, tables, lock, have, ran>>

MigrateNext ==
  \E p \in Procs :
    \/ EnableWAL(p) \/ GivesUp(p) \/ BeginTx(p) \/ Refuse(p)
    \/ RunStep(p) \/ Commit(p) \/ Opened(p) \/ Fault(p) \/ OpenAgain(p)

MigrateSpec == MigrateInit /\ [][MigrateNext]_migrateVars

--------------------------------------------------------------------------------

\* The file and each process's Open of their kind.
MigrateTypeOK ==
  /\ wal \in BOOLEAN /\ tables \in BOOLEAN
  /\ version \in Versions /\ applied \in Seq(Versions)
  /\ lock \in Procs \cup {NoProc}
  /\ opening \in [Procs -> {"new", "migrate", "tx", "open", "failed"}]
  /\ have \in [Procs -> Versions] /\ ran \in [Procs -> BOOLEAN]
  /\ faults \in 0..MaxFaults

\* migrate: "each step runs exactly once". Every step up to the version has run
\* once and in order, whatever processes opened the file at once, died in a
\* step, failed it or knew fewer; and who has it open finds all of its own.
EachStepOnce ==
  /\ applied = [i \in 1..version |-> i]
  /\ \A p \in Procs : opening[p] = "open" => wal /\ Known[p] <= version
===============================================================================
