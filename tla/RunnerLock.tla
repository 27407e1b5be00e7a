----------------------------- MODULE RunnerLock -----------------------------
(***************************************************************************)
(* RunnerLock of runner.py: the lock file which keeps a second autonomy    *)
(* runner from starting, seen by any number of runner processes which are  *)
(* started, refused, finish and are killed at any moment.                  *)
(*                                                                         *)
(* acquire looks for the file, reads the pid in it, asks whether that      *)
(* process lives, removes the file when it does not, creates it with       *)
(* O_EXCL and then writes the pid: six steps, any of which may interleave  *)
(* with those of another process.  Process ids are not reused.             *)
(***************************************************************************)
EXTENDS Integers

CONSTANTS
  Runners,     \* runner processes (one pid each)
  Nobody       \* no pid: a missing file, or a file without a readable pid

ASSUME LockAssumption == Nobody \notin Runners

VARIABLES
  lockFile,    \* the process which created the lock file, Nobody when there is none
  written,     \* processes which have written their pid into the file they created
  at,          \* where each process is
  seen,        \* the pid it read from the lock file
  reaped,      \* dead processes whose pid no longer answers
  overlapped   \* history: two acquisitions have been under way at once

lockVars == <<lockFile, written, at, seen, reaped, overlapped>>

Midway == {"read", "check", "unlink", "create", "write"}
Holding == {"work", "release"}
Ended == {"done", "failed", "killed"}
LockPlaces == {"new", "boot", "sign", "look"} \cup Midway \cup Holding \cup Ended

Acquiring == {r \in Runners : at[r] \in Midway}
Holders == {r \in Runners : at[r] \in Holding}

\* os.kill(pid, 0): a dead process answers until its parent has waited for it.
Running(p) == p \in Runners /\ at[p] # "new" /\ p \notin reaped

Go(r, place) == at' = [at EXCEPT ![r] = place]

LockInit ==
  /\ lockFile = Nobody /\ written = {}
  /\ at = [r \in Runners |-> "new"] /\ seen = [r \in Runners |-> Nobody]
  /\ reaped = {} /\ overlapped = FALSE

----------------------------------------------------------------------------
(* acquire.                                                                 *)

\* The process exists; it has not reached main yet.
Begin(r) ==
  /\ at[r] = "new" /\ Go(r, "boot")
  /\ UNCHANGED <<lockFile, written, seen, reaped, overlapped>>

\* run_foreground has opened, and so emptied, the pid file; then its pid is in it.
Boot(r) ==
  /\ \/ at[r] = "boot" /\ Go(r, "sign")
     \/ at[r] = "sign" /\ Go(r, "look")
  /\ UNCHANGED <<lockFile, written, seen, reaped, overlapped>>

\* A missing file or command line tool: main raises before it acquires.
Abort(r) ==
  /\ at[r] = "look" /\ Go(r, "failed")
  /\ UNCHANGED <<lockFile, written, seen, reaped, overlapped>>

Look(r) ==
  /\ at[r] = "look"
  /\ Go(r, IF lockFile = Nobody THEN "create" ELSE "read")
  /\ overlapped' = (overlapped \/ Acquiring # {})
  /\ UNCHANGED <<lockFile, written, seen, reaped>>

\* A file which is gone by now, or still empty, reads as no pid.
Read(r) ==
  /\ at[r] = "read"
  /\ seen' = [seen EXCEPT ![r] = IF lockFile \in written THEN lockFile ELSE Nobody]
  /\ Go(r, "check")
  /\ UNCHANGED <<lockFile, written, reaped, overlapped>>

\* "Another autonomy runner is already active": the process ends.
Refuse(r) ==
  /\ at[r] = "check" /\ Running(seen[r])
  /\ Go(r, "failed")
  /\ UNCHANGED <<lockFile, written, seen, reaped, overlapped>>

\* Mutant of FindStale: the process in the file is not asked for.
FindStale_Unchecked(r) ==
  /\ at[r] = "check"
  /\ Go(r, "unlink")
  /\ UNCHANGED <<lockFile, written, seen, reaped, overlapped>>

FindStale(r) ==
  /\ at[r] = "check" /\ ~Running(seen[r])
  /\ Go(r, "unlink")
  /\ UNCHANGED <<lockFile, written, seen, reaped, overlapped>>

Unlink(r) ==
  /\ at[r] = "unlink"
  /\ lockFile' = Nobody
  /\ Go(r, "create")
  /\ UNCHANGED <<written, seen, reaped, overlapped>>

\* O_CREAT | O_EXCL: FileExistsError ends the process.
Create(r) ==
  /\ at[r] = "create"
  /\ IF lockFile = Nobody
     THEN lockFile' = r /\ Go(r, "write")
     ELSE Go(r, "failed") /\ UNCHANGED lockFile
  /\ UNCHANGED <<written, seen, reaped, overlapped>>

\* The pid goes into the file this process created, even if that file has
\* been unlinked in the meantime.
Write(r) ==
  /\ at[r] = "write"
  /\ written' = written \cup {r}
  /\ Go(r, "work")
  /\ UNCHANGED <<lockFile, seen, reaped, overlapped>>

----------------------------------------------------------------------------
(* The end of a runner.                                                     *)

\* main returned or raised; release, which atexit runs, is still to come.
Return(r) ==
  /\ at[r] = "work" /\ Go(r, "release")
  /\ UNCHANGED <<lockFile, written, seen, reaped, overlapped>>

\* release removes the file, whoever created it; the process exits.
Release(r, code) ==
  /\ at[r] = "release"
  /\ lockFile' = Nobody
  /\ Go(r, code)
  /\ UNCHANGED <<written, seen, reaped, overlapped>>

\* SIGKILL, or SIGTERM, for which no handler is installed: atexit does not run.
Kill(r) ==
  /\ at[r] \notin {"new"} \cup Ended
  /\ Go(r, "killed")
  /\ UNCHANGED <<lockFile, written, seen, reaped, overlapped>>

\* The parent waits for it (or init, once the parent is gone).
Reap(r) ==
  /\ at[r] \in Ended /\ r \notin reaped
  /\ reaped' = reaped \cup {r}
  /\ UNCHANGED <<lockFile, written, at, seen, overlapped>>

Acquire(r) ==
  Look(r) \/ Read(r) \/ Refuse(r) \/ FindStale(r) \/ Unlink(r) \/ Create(r) \/ Write(r)

LockNext ==
  \E r \in Runners :
    \/ Begin(r) \/ Boot(r) \/ Abort(r) \/ Acquire(r)
    \/ Return(r) \/ (\E code \in {"done", "failed"} : Release(r, code))
    \/ Kill(r) \/ Reap(r)

LockSpec == LockInit /\ [][LockNext]_lockVars

----------------------------------------------------------------------------
(* Every variable of the lock has its type.                                 *)
LockTypeOK ==
  /\ lockFile \in Runners \cup {Nobody} /\ written \subseteq Runners
  /\ at \in [Runners -> LockPlaces] /\ seen \in [Runners -> Runners \cup {Nobody}]
  /\ reaped \subseteq Runners /\ overlapped \in BOOLEAN

\* What acquire really guarantees: as long as no two acquisitions have been
\* under way at the same time, two runners never work at the same time,
\* whoever was killed, and wherever, before.
OneRunnerIfSerial == ~overlapped => \A q, r \in Holders : q = r

\* A lock file belongs to a runner which works, or is about to, or was killed:
\* runners which end by themselves leave none behind, however they interleave.
LockLeftOnlyByKill ==
  lockFile # Nobody => at[lockFile] \in {"write"} \cup Holding \cup {"killed"}

\* runner.py, class RunnerLock: "Simple file lock to prevent concurrent
\* autonomy runners."
NoConcurrentRunners == \A q, r \in Holders : q = r

=============================================================================
