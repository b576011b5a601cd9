--------------------------- MODULE DownloadService ---------------------------
(***************************************************************************)
(* download.Service: the calls the HTTP API and the background jobs make.  *)
(* Queue and QueuePending insert a row; Cancel and Retry change one that   *)
(* the monitor and the importer are working on at the same time.           *)
(***************************************************************************)
EXTENDS DownloadStore

CONSTANTS
  Callers,        \* goroutines that may be inside Retry / resolveAndSubmit
  MaxCancels,     \* bound: Cancel calls
  MaxUserRetries  \* bound: Retry calls

ASSUME ServiceAssumption == MaxCancels \in Nat /\ MaxUserRetries \in Nat

VARIABLES
  can,      \* can[id]: a Cancel of id in progress, with its copy of the row
  ret,      \* ret[c]: a Retry and its resolveAndSubmit goroutine
  cancels,  \* Cancel calls so far
  retries   \* Retry calls so far

serviceVars == <<can, ret, cancels, retries>>

CanFrame == [pc : {"idle", "write", "provider"}, row : Row]
NoCan == [pc |-> "idle", row |-> NoRow]

RetFrame == [pc : {"idle", "write", "search", "submit"}, id : Ids,
             row : Row, orig : Row]
NoRet == [pc |-> "idle", id |-> CHOOSE id \in Ids : TRUE,
          row |-> NoRow, orig |-> NoRow]

\* Service.mu: held by Cancel from its Get to its Update.
MuFree == \A id \in Ids : can[id].pc # "write"

----------------------------------------------------------------------------
(* Queue, QueuePending, QueueAlbum: dedup and insert under mu.  The ids of *)
(* this model are distinct recordings, so the dedup never matches here.    *)

Queue(id) ==
  /\ MuFree
  /\ rec[id].state = "absent"
  /\ \E p \in Providers \ {Client} : Insert(id, WithSource(NoRow, p))
  /\ UNCHANGED <<job, bus, serviceVars>>

QueuePending(id) ==
  /\ MuFree
  /\ id \notin Albums
  /\ rec[id].state = "absent"
  /\ Insert(id, NoRow)
  /\ UNCHANGED <<job, bus, serviceVars>>

----------------------------------------------------------------------------
(* Cancel: Get and Update(ignored) under mu, then the provider, unlocked.  *)

CancelGet(id) ==
  /\ MuFree
  /\ can[id].pc = "idle"
  /\ cancels < MaxCancels
  /\ rec[id].state \notin Terminal \cup {"absent"}
  /\ can' = [can EXCEPT ![id] = [pc |-> "write", row |-> rec[id]]]
  /\ cancels' = cancels + 1
  /\ UNCHANGED <<storeVars, ret, retries>>

CancelWrite(id) ==
  /\ can[id].pc = "write"
  /\ Update(id, [can[id].row EXCEPT !.state = "ignored"])
  /\ can' = [can EXCEPT ![id] = [@ EXCEPT !.pc = "provider"]]
  /\ UNCHANGED <<job, bus, ret, cancels, retries>>

\* cancelDownloadClient and cancelTrackProvider, with the ProviderID and the
\* SourceName of the copy that Cancel read.
CancelProvider(id) ==
  /\ can[id].pc = "provider"
  /\ ProviderCancel(id, can[id].row.pid, Gate(id, can[id].row))
  /\ can' = [can EXCEPT ![id] = NoCan]
  /\ UNCHANGED <<rec, bus, ret, cancels, retries>>

----------------------------------------------------------------------------
(* Retry: not serialised by mu.  With artist and title it clears the file  *)
(* name, writes the row as queued, and goes on in a goroutine that looks   *)
(* for a source.                                                           *)

RetryGet(c, id) ==
  /\ ret[c].pc = "idle"
  /\ retries < MaxUserRetries
  /\ rec[id].state \in Retryable
  /\ LET fresh == [rec[id] EXCEPT !.state = "queued", !.tries = 0, !.wait = FALSE]
     IN ret' = [ret EXCEPT ![c] =
                  [pc |-> "write", id |-> id, orig |-> rec[id],
                   row |-> IF id \in Untitled THEN fresh
                           ELSE [fresh EXCEPT !.file = FALSE]]]
  /\ retries' = retries + 1
  /\ UNCHANGED <<storeVars, can, cancels>>

RetryWrite(c) ==
  /\ ret[c].pc = "write"
  /\ Update(ret[c].id, ret[c].row)
  /\ ret' = [ret EXCEPT ![c] = IF ret[c].id \in Untitled THEN NoRet
                                ELSE [@ EXCEPT !.pc = "search"]]
  /\ UNCHANGED <<job, bus, can, cancels, retries>>

\* resolveAndSubmit: the search finds a source, or the original source is
\* restored and the row is to be written back as failed.
GivenUp(f) == [f.row EXCEPT !.state = "failed", !.via = f.orig.via, !.file = f.orig.file]

RetrySearch(c) ==
  /\ ret[c].pc = "search"
  /\ \/ \E p \in Providers \ {Client} :
          ret' = [ret EXCEPT ![c] = [ret[c] EXCEPT !.pc = "submit",
                                                   !.row = WithSource(ret[c].row, p)]]
     \/ ret' = [ret EXCEPT ![c] = [ret[c] EXCEPT !.pc = "submit",
                                                 !.row = GivenUp(ret[c])]]
  /\ UNCHANGED <<storeVars, can, cancels, retries>>

RetrySubmit(c) ==
  /\ ret[c].pc = "submit"
  /\ Update(ret[c].id, ret[c].row)
  /\ ret' = [ret EXCEPT ![c] = NoRet]
  /\ UNCHANGED <<job, bus, can, cancels, retries>>

----------------------------------------------------------------------------
ServiceInit ==
  /\ can = [id \in Ids |-> NoCan]
  /\ ret = [c \in Callers |-> NoRet]
  /\ cancels = 0
  /\ retries = 0

ServiceNext ==
  \/ \E id \in Ids : \/ Queue(id)
                     \/ QueuePending(id)
                     \/ CancelGet(id)
                     \/ CancelWrite(id)
                     \/ CancelProvider(id)
                     \/ \E c \in Callers : RetryGet(c, id)
  \/ \E c \in Callers : RetryWrite(c) \/ RetrySearch(c) \/ RetrySubmit(c)

ServiceTypeOK ==
  /\ can \in [Ids -> CanFrame]
  /\ ret \in [Callers -> RetFrame]
  /\ cancels \in 0..MaxCancels
  /\ retries \in 0..MaxUserRetries
=============================================================================
