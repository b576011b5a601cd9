------------------------------ MODULE JobManager ------------------------------
(***************************************************************************)
(* The single-flight job manager, the runners it is given, the file that   *)
(* keeps the last job over a restart (api/jobstate.go) and the one thing   *)
(* it is kept for: an organize run that ends between moving a file and     *)
(* writing its row.  One library track stands for all; a run handles Items *)
(* of them.  Jobs are numbered in the order they start.                    *)
(***************************************************************************)
EXTENDS Integers, FiniteSets

CONSTANTS
  JobKinds,    \* the jobs that are started
  MaxItems,    \* bound: items of a run
  MaxJobs,     \* bound: jobs started
  MaxRestarts  \* bound: ends of the process

ASSUME JobAssumption == MaxItems \in Nat \ {0} /\ MaxJobs \in Nat

VARIABLES
  job,         \* Manager.current: number, kind and state
  cancelOf,    \* Manager.cancel: the job whose context it ends; 0 is nil
  ctxEnded,    \* that context has ended
  shuttingDown,
  phase,       \* where Start and the job's goroutine are
  work,        \* the runner: items left, items failed, the error it returns
  endings,     \* jobs whose closing event is still to go out
  savedJob,    \* job.json
  bootJob,     \* what the process found in it
  repaired,    \* divergenceRepairDone
  disk,        \* where the track's file is: "old", "new" (as organized)
  rows,        \* the paths of the rows that stand for it
  lost,        \* the divergence is more than job.json can tell
  restarts

jobVars == <<job, cancelOf, ctxEnded, shuttingDown, phase, work, endings,
             savedJob, bootJob, repaired, disk, rows, lost, restarts>>

NoJob == [num |-> 0, kind |-> "none", state |-> "none"]
NoSave == [kind |-> "none", state |-> "none"]
NoWork == [left |-> 0, failed |-> FALSE, err |-> "nil", gap |-> FALSE]

JobInit ==
  /\ job = NoJob /\ cancelOf = 0 /\ ctxEnded = FALSE /\ shuttingDown = FALSE
  /\ phase = "idle" /\ work = NoWork
  /\ endings = {}
  /\ savedJob = NoSave /\ bootJob = NoSave /\ repaired = FALSE
  /\ disk = "old" /\ rows = {"old"} /\ lost = FALSE /\ restarts = 0

----------------------------------------------------------------------------
\* The runners, by what tells them apart.  many: it walks a list, and looks at
\* the context before each item; skips: a cooling provider skips an item; bad:
\* what a failed item does to the result; last: it looks at the context after
\* the list too.
Runner(many, skips, bad, last) == [many |-> many, skips |-> skips, bad |-> bad, last |-> last]

Scan            == Runner(FALSE, FALSE, "ignored", FALSE)
Enrich          == Runner(TRUE, FALSE, "ignored", TRUE)
Duplicates      == Runner(TRUE, FALSE, "ignored", FALSE)
Organize        == Runner(TRUE, FALSE, "ignored", TRUE)
OrganizeDry     == Organize
OrganizeArtist  == Runner(TRUE, FALSE, "ignored", FALSE)
WarmLibrary     == Runner(TRUE, FALSE, "ignored", FALSE)
RecheckUnmatched == Runner(FALSE, FALSE, "fails", FALSE)
SyncPlaylist    == Runner(FALSE, FALSE, "fails", FALSE)
RefreshTracked  == Runner(TRUE, TRUE, "fails", FALSE)
RefreshTrackedArtist == Runner(FALSE, TRUE, "fails", FALSE)
SearchMissingArtist  == Runner(FALSE, TRUE, "fails", FALSE)
SearchMissingAll     == Runner(TRUE, TRUE, "fails", FALSE)

RunnerOf(k) ==
  CASE k = "scan" -> Scan [] k = "enrich" -> Enrich [] k = "duplicates" -> Duplicates
    [] k = "organize" -> Organize [] k = "organize dry" -> OrganizeDry
    [] k = "merge" -> OrganizeArtist [] k = "warm-library" -> WarmLibrary
    [] k = "recheck-unmatched" -> RecheckUnmatched [] k = "sync" -> SyncPlaylist
    [] k = "tracked-refresh" -> RefreshTracked [] k = "refresh one" -> RefreshTrackedArtist
    [] k = "search one" -> SearchMissingArtist [] k = "tracked-search" -> SearchMissingAll

\* The job type job.json keeps.
TypeOf(k) == IF k \in {"organize", "organize dry", "merge"} THEN "organize" ELSE k
\* The organize after an artist merge is started without the wrapper that saves.
runPersistedJob(k) == k # "merge"
Moves(k) == k \in {"organize", "merge"}

OrganizeDivergencePossible ==
  ~repaired /\ bootJob = [kind |-> "organize", state |-> "interrupted"]
MustRepair(k) == k \in {"scan", "organize"} /\ OrganizeDivergencePossible

----------------------------------------------------------------------------
Restless == <<restarts, bootJob>>
Files == <<disk, rows, lost, repaired>>

\* Start: the slot, the context and the count are taken under the mutex.
Start(k) ==
  /\ phase = "idle" /\ job.num < MaxJobs
  /\ ~shuttingDown /\ job.state # "running"
  /\ job' = [num |-> job.num + 1, kind |-> k, state |-> "running"]
  /\ cancelOf' = job.num + 1 /\ ctxEnded' = FALSE
  /\ phase' = "announce" /\ work' = NoWork
  /\ UNCHANGED <<shuttingDown, savedJob>> /\ UNCHANGED <<endings, Files, Restless>>

\* The event goes out before the goroutine exists.
Launch ==
  /\ phase = "announce"
  /\ phase' = IF runPersistedJob(job.kind) THEN "save" ELSE "begin"
  /\ UNCHANGED <<job, cancelOf, ctxEnded, shuttingDown, work, endings, savedJob>>
  /\ UNCHANGED <<Files, Restless>>

SaveRunning ==
  /\ phase = "save"
  /\ savedJob' = [kind |-> TypeOf(job.kind), state |-> "running"]
  /\ phase' = "begin"
  /\ UNCHANGED <<job, cancelOf, ctxEnded, shuttingDown, work>> /\ UNCHANGED <<endings, Files, Restless>>

\* Mutant: the scan does not wait for the repair.
BeginUnrepaired ==
  /\ phase = "begin"
  /\ \/ \E n \in IF RunnerOf(job.kind).many THEN 0..MaxItems ELSE {1} :
          work' = [NoWork EXCEPT !.left = n] /\ phase' = "work"
     \/ work' = [NoWork EXCEPT !.err = "failed"] /\ phase' = "return"
  /\ UNCHANGED <<job, cancelOf, ctxEnded, shuttingDown, savedJob>> /\ UNCHANGED <<endings, Files, Restless>>

\* The runner lists its items; a list that fails, fails the job.
Begin ==
  /\ phase = "begin"
  /\ \/ \E n \in IF RunnerOf(job.kind).many THEN 0..MaxItems ELSE {1} :
          /\ work' = [NoWork EXCEPT !.left = n]
          /\ phase' = IF MustRepair(job.kind) THEN "repair" ELSE "work"
     \/ work' = [NoWork EXCEPT !.err = "failed"] /\ phase' = "return"
  /\ UNCHANGED <<job, cancelOf, ctxEnded, shuttingDown, savedJob>> /\ UNCHANGED <<endings, Files, Restless>>

\* reconcileDivergedPaths: a row whose file is gone adopts the file found where
\* organizing would have put it.  A repair that fails is logged, and the run
\* goes on; one whose context ended returns.
Repair ==
  /\ phase = "repair"
  /\ \/ /\ rows' = IF disk = "new" /\ rows = {"old"} THEN {"new"} ELSE rows
        /\ repaired' = TRUE
        /\ phase' = "work" /\ UNCHANGED <<work, lost>>
     \/ /\ ~ctxEnded
        /\ lost' = TRUE /\ phase' = "work" /\ UNCHANGED <<work, rows, repaired>>
     \/ /\ ctxEnded
        /\ work' = [work EXCEPT !.err = "canceled"] /\ phase' = "return"
        /\ UNCHANGED <<rows, repaired, lost>>
  /\ UNCHANGED <<job, cancelOf, ctxEnded, shuttingDown, savedJob, disk>> /\ UNCHANGED <<endings, Restless>>

\* Before an item: an ended context ends the run.
StopAtItem ==
  /\ phase = "work" /\ ctxEnded /\ ~work.gap
  /\ work.left > 0 \/ RunnerOf(job.kind).last
  /\ work' = [work EXCEPT !.err = "canceled"]
  /\ phase' = "return"
  /\ UNCHANGED <<job, cancelOf, ctxEnded, shuttingDown, savedJob>> /\ UNCHANGED <<endings, Files, Restless>>

Ready == phase = "work" /\ work.left > 0 /\ ~work.gap /\ ~(ctxEnded /\ RunnerOf(job.kind).many)

\* An item that is done, skipped, fails, or fails because the job's context
\* ended meanwhile; an item's own timeout is a failure like any other.
Item ==
  /\ Ready /\ ~Moves(job.kind) /\ job.kind # "scan"
  /\ \/ work' = [work EXCEPT !.left = @ - 1] /\ UNCHANGED phase
     \/ work' = [work EXCEPT !.left = @ - 1, !.failed = TRUE] /\ UNCHANGED phase
     \/ /\ ctxEnded /\ RunnerOf(job.kind).bad = "fails"
        /\ work' = [work EXCEPT !.err = "canceled"] /\ phase' = "return"
  /\ UNCHANGED <<job, cancelOf, ctxEnded, shuttingDown, savedJob>> /\ UNCHANGED <<endings, Files, Restless>>

\* The walk finds the file and gives it a row unless its path has one.
ScanItem ==
  /\ Ready /\ job.kind = "scan"
  /\ rows' = rows \cup {disk}
  /\ work' = [work EXCEPT !.left = 0]
  /\ UNCHANGED <<job, cancelOf, ctxEnded, shuttingDown, savedJob, phase, disk, lost, repaired>>
  /\ UNCHANGED <<endings, Restless>>

\* Organizer.Organize: in place, or skipped because something is at the target;
\* otherwise the file is moved first ...
MoveFile ==
  /\ Ready /\ Moves(job.kind)
  /\ \/ /\ rows = {"old"} /\ disk = "old"
        /\ disk' = "new" /\ work' = [work EXCEPT !.gap = TRUE]
     \/ /\ rows # {"old"} \/ disk = "new"
        /\ work' = [work EXCEPT !.left = @ - 1] /\ UNCHANGED disk
  /\ UNCHANGED <<job, cancelOf, ctxEnded, shuttingDown, savedJob, phase, rows, lost, repaired>>
  /\ UNCHANGED <<endings, Restless>>

\* ... and then the row is written, or the file goes back.
UpsertMoved ==
  /\ phase = "work" /\ work.gap
  /\ \/ rows' = {"new"} /\ UNCHANGED disk
     \/ disk' = "old" /\ UNCHANGED rows
  /\ work' = [work EXCEPT !.left = @ - 1, !.gap = FALSE]
  /\ UNCHANGED <<job, cancelOf, ctxEnded, shuttingDown, savedJob, phase, lost, repaired>>
  /\ UNCHANGED <<endings, Restless>>

\* The list is done.
Done ==
  /\ phase = "work" /\ work.left = 0 /\ ~(ctxEnded /\ RunnerOf(job.kind).last)
  /\ work' = [work EXCEPT !.err = IF work.failed /\ RunnerOf(job.kind).bad = "fails" THEN "failed" ELSE "nil"]
  /\ phase' = "return"
  /\ UNCHANGED <<job, cancelOf, ctxEnded, shuttingDown, savedJob>> /\ UNCHANGED <<endings, Files, Restless>>

----------------------------------------------------------------------------
StateFor(err) == CASE err = "nil" -> "completed" [] err = "canceled" -> "cancelled" [] err = "failed" -> "failed"

\* The wrapper writes how it ended, before the manager knows.
saveJobState ==
  /\ phase = "return" /\ runPersistedJob(job.kind)
  /\ savedJob' = [kind |-> TypeOf(job.kind), state |-> StateFor(work.err)]
  /\ phase' = "finish"
  /\ UNCHANGED <<job, cancelOf, ctxEnded, shuttingDown, work>> /\ UNCHANGED <<endings, Files, Restless>>

\* finish, under the mutex: from here another job may start.
finish ==
  /\ phase = "finish" \/ (phase = "return" /\ ~runPersistedJob(job.kind))
  /\ job' = [job EXCEPT !.state = StateFor(work.err)]
  /\ cancelOf' = 0 /\ phase' = "idle"
  /\ endings' = endings \cup {job.num}
  /\ UNCHANGED <<ctxEnded, shuttingDown, work, savedJob>> /\ UNCHANGED <<Files, Restless>>

\* Mutant: the cancel handle is cleared after the event, outside the first lock.
broadcastEndClears(n) ==
  /\ n \in endings
  /\ endings' = endings \ {n}
  /\ cancelOf' = 0
  /\ UNCHANGED <<job, ctxEnded, shuttingDown, phase, work, savedJob>>
  /\ UNCHANGED <<Files, Restless>>

\* Its closing event goes out after the mutex is let go.
broadcastEnd(n) ==
  /\ n \in endings
  /\ endings' = endings \ {n}
  /\ UNCHANGED <<job, cancelOf, ctxEnded, shuttingDown, phase, work, savedJob>>
  /\ UNCHANGED <<Files, Restless>>

Cancel ==
  /\ cancelOf # 0 /\ ~ctxEnded
  /\ ctxEnded' = TRUE
  /\ UNCHANGED <<job, cancelOf, shuttingDown, phase, work, savedJob>> /\ UNCHANGED <<endings, Files, Restless>>

\* Shutdown waits ten seconds; the process may end before the job has.
Shutdown ==
  /\ ~shuttingDown
  /\ shuttingDown' = TRUE
  /\ ctxEnded' = (ctxEnded \/ cancelOf # 0)
  /\ UNCHANGED <<job, cancelOf, phase, work, savedJob>> /\ UNCHANGED <<endings, Files, Restless>>

\* The process ends, cleanly or not, and the next one reads what was saved.
restoreInterruptedJob ==
  LET found == IF savedJob.state = "running" THEN [savedJob EXCEPT !.state = "interrupted"] ELSE savedJob
  IN /\ restarts < MaxRestarts
     /\ restarts' = restarts + 1
     /\ savedJob' = found /\ bootJob' = found /\ repaired' = FALSE
     /\ lost' = (lost \/ (rows # {disk} /\ found # [kind |-> "organize", state |-> "interrupted"]))
     /\ job' = [NoJob EXCEPT !.num = job.num] /\ cancelOf' = 0 /\ ctxEnded' = FALSE
     /\ shuttingDown' = FALSE /\ phase' = "idle" /\ work' = NoWork
     /\ endings' = {}
     /\ UNCHANGED <<disk, rows>>

JobNext ==
  \/ \E k \in JobKinds : Start(k)
  \/ Launch \/ SaveRunning \/ Begin \/ Repair \/ StopAtItem \/ Item \/ ScanItem
  \/ MoveFile \/ UpsertMoved \/ Done \/ saveJobState \/ finish
  \/ \E n \in endings : broadcastEnd(n)
  \/ Cancel \/ Shutdown \/ restoreInterruptedJob

JobTypeOK ==
  /\ job.num \in 0..MaxJobs /\ cancelOf \in 0..MaxJobs
  /\ phase \in {"idle", "announce", "save", "begin", "repair", "work", "return", "finish"}
  /\ work.left \in 0..MaxItems
  /\ rows \in (SUBSET {"old", "new"}) \ {{}}
  /\ \A s \in {savedJob, bootJob} : s.state \in {"none", "running", "completed", "cancelled", "failed", "interrupted"}

----------------------------------------------------------------------------
\* The cancel handle is the running job's own: Cancel and Shutdown reach it, and
\* nothing a finished job still does takes it from the next one.
CancelReaches == job.state = "running" => cancelOf = job.num

\* Once no job runs, job.json tells the same end of the last saved job as the
\* manager, so that a restart reports a job interrupted only if it was.
OutcomeSaved ==
  (phase = "idle" /\ job.num > 0 /\ job.kind \notin {"none", "merge"}) =>
    savedJob = [kind |-> TypeOf(job.kind), state |-> job.state]

\* An organize run that was cut off between the move and the row is repaired
\* before a scan can give the moved file a second row, whatever happens in
\* between, as long as job.json still tells of it.
DivergenceRepaired == Cardinality(rows) > 1 => lost
=============================================================================
