---------------------------- MODULE DownloadStore ----------------------------
(***************************************************************************)
(* The state the download services share: the rows of the `downloads`      *)
(* table, the transfers the provider plugins run, and the completed-events *)
(* that the event bus still has to hand to the importer.                   *)
(*                                                                         *)
(* The database is opened with SetMaxOpenConns(1), so every SQL statement  *)
(* is one atomic step, and NOTHING larger is: a Get followed by an Update  *)
(* is two steps with a private copy of the row carried between them.       *)
(*                                                                         *)
(* A row keeps the columns that decide control flow.  Progress, names,     *)
(* paths, error texts and timestamps are left out; RetryAfter is kept as   *)
(* the bit "its time has not come yet".                                    *)
(***************************************************************************)
EXTENDS Naturals, FiniteSets

CONSTANTS
  Ids,           \* download ids; each may be inserted once
  Albums,        \* the ids whose record is an album (AlbumType # "")
  Untitled,      \* the ids whose record lacks an artist or a title
  Providers,     \* names a semaphore is kept under: track plugins and the client
  Client,        \* the download client that albums are dispatched to
  PendingSource, \* the SourceName of a record without a resolved source
  MaxRetries,    \* cap on automatic retries
  MaxStarts      \* bound: transfers one record may have started

ASSUME StoreAssumption ==
  /\ Ids # {} /\ IsFiniteSet(Ids)
  /\ Albums \subseteq Ids
  /\ Untitled \subseteq Ids
  /\ Client \in Providers
  /\ PendingSource \notin Providers
  /\ MaxRetries \in Nat \ {0}
  /\ MaxStarts \in Nat \ {0}

VARIABLES
  rec,     \* the downloads table, by id
  job,     \* provider side: job[id][n] is the n-th transfer started for id
  bus      \* bus[id]: published TopicDownloadCompleted events not yet handled

storeVars == <<rec, job, bus>>

----------------------------------------------------------------------------
(* Rows and their states.                                                  *)

Terminal == {"imported", "failed", "ignored"}
Retryable == {"failed", "failedPending"}
States == {"absent", "queued", "downloading", "importPending", "importing",
           "failedPending"} \cup Terminal

Row == [state : States,
        via   : Providers \cup {PendingSource},   \* SourceName
        file  : BOOLEAN,                          \* Filename # ""
        tries : 0..MaxRetries,                    \* RetryCount
        wait  : BOOLEAN,                          \* RetryAfter lies ahead
        pid   : 0..MaxStarts]                     \* ProviderID, 0 when ""

NoRow == [state |-> "absent", via |-> PendingSource, file |-> FALSE,
          tries |-> 0, wait |-> FALSE, pid |-> 0]

IsPendingSource(row) == row.via = PendingSource \/ ~row.file

\* The name an attempt is dispatched, tracked and throttled under.
Gate(id, row) == IF id \in Albums THEN Client ELSE row.via

WithSource(row, p) == [row EXCEPT !.via = p, !.file = TRUE]

----------------------------------------------------------------------------
(* The SQL statements.                                                     *)

\* Insert always stores state "queued" and retry_count 0.
Insert(id, row) ==
  rec' = [rec EXCEPT ![id] = [row EXCEPT !.state = "queued", !.tries = 0]]

\* Update rewrites every column of the row from the caller's copy.
Update(id, row) == rec' = [rec EXCEPT ![id] = row]

\* UpdateProgress sets the state whatever it was, and leaves the source alone.
UpdateProgress(id, s) == rec' = [rec EXCEPT ![id].state = s]

\* TransitionState is a compare-and-swap; callers test Matches for "ok".
Matches(id, old) == rec[id].state = old
TransitionState(id, old, new) ==
  /\ Matches(id, old)
  /\ rec' = [rec EXCEPT ![id].state = new]

----------------------------------------------------------------------------
(* Transfers on the provider's side.  "gone" means the provider no longer  *)
(* lists it (restart, cleanup): ActiveDownloads omits it, GetStatus errors.*)

JobStates == {"none", "running", "done", "failed", "cancelled", "gone"}
Job == [st : JobStates, via : Providers]
Handles == 0..MaxStarts
NoJob == [st |-> "none", via |-> Client]

Listed(id, n) == job[id][n].st \notin {"none", "gone"}
NextHandle(id) == {n \in 1..MaxStarts : /\ job[id][n].st = "none"
                                        /\ \A m \in 1..(n - 1) : job[id][m].st # "none"}
Started(id) == Cardinality({n \in 1..MaxStarts : job[id][n].st # "none"})

SetJob(id, n, j) == job' = [job EXCEPT ![id][n] = j]
Mark(id, n, s) == SetJob(id, n, [job[id][n] EXCEPT !.st = s])

\* Cancel(providerID, remove = false): a provider ignores an id it does not
\* list, and the empty id.  A track plugin goes on listing the transfer, as
\* cancelled even when it had finished; the client deletes its torrent.
ProviderCancel(id, n, p) ==
  IF n # 0 /\ Listed(id, n) /\ job[id][n].via = p
  THEN Mark(id, n, IF p = Client THEN "gone" ELSE "cancelled") ELSE UNCHANGED job

\* What the transfer itself does: it ends well or badly, or is lost.
JobEnds(id, n) ==
  /\ job[id][n].st = "running"
  /\ \E s \in {"done", "failed"} : Mark(id, n, s)
  /\ UNCHANGED <<rec, bus>>

JobLost(id, n) ==
  /\ Listed(id, n)
  /\ Mark(id, n, "gone")
  /\ UNCHANGED <<rec, bus>>

\* A transfer cancelled on the provider's side (its own UI, a remote user).  A
\* torrent removed from the client is no longer listed: that is JobLost.
JobCancelled(id, n) ==
  /\ job[id][n].st = "running" /\ job[id][n].via # Client
  /\ Mark(id, n, "cancelled")
  /\ UNCHANGED <<rec, bus>>

----------------------------------------------------------------------------
StoreInit ==
  /\ rec = [id \in Ids |-> NoRow]
  /\ job = [id \in Ids |-> [n \in 1..MaxStarts |-> NoJob]]
  /\ bus = [id \in Ids |-> 0]

StoreTypeOK ==
  /\ rec \in [Ids -> Row]
  /\ job \in [Ids -> [1..MaxStarts -> Job]]
  /\ bus \in [Ids -> Nat]
=============================================================================
