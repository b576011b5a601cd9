--------------------------- MODULE DownloadMonitor ---------------------------
(***************************************************************************)
(* download.MonitoringService: the poll loop that dispatches queued rows,  *)
(* follows their transfers, detects cancellations, re-queues failures and  *)
(* resolves records without a source.                                      *)
(*                                                                         *)
(* A tick runs its phases in order: sync, start, poll, check, retry.  Each *)
(* phase lists its work first (a frame per id, "listed") and then works    *)
(* through it one id at a time, except that the polls of one tick run in   *)
(* parallel.  safeTick waits 30 seconds for a tick and then lets the next  *)
(* one start beside it: Ticks is the set of ticks that may be in flight at *)
(* once, a singleton when provider calls return within the 30 seconds.     *)
(***************************************************************************)
EXTENDS DownloadStore

CONSTANTS
  Cap,          \* Cap[p]: MaxConcurrent of p, 0 for unlimited
  Ticks,        \* ticks that may be in flight at once
  RetryEvery,   \* monitorRetryTickCount
  ResolveEvery, \* monitorPendingResolveTicks
  SearchPanics  \* may a plugin panic while scanRetry searches?

ASSUME MonitorAssumption ==
  /\ Cap \in [Providers -> Nat]
  /\ Ticks # {}
  /\ RetryEvery \in Nat \ {0}
  /\ ResolveEvery \in Nat \ {0}
  /\ SearchPanics \in BOOLEAN

VARIABLES
  up,        \* Start has returned: the loop and the API are running
  boot,      \* ids recoverOrphans has still to look at
  active,    \* MonitoringService.active: what is tracked, by id
  slots,     \* slots[p]: tokens in the semaphore channel of p
  tick,      \* tick[t]: the phase of t and the providers it has yet to sync
  task,      \* task[t][id]: what t is doing for id
  sinceRetry, sinceResolve,  \* tick counters
  resolver,  \* the resolvePendingSources goroutine: "off", "list", "run"
  res        \* res[id]: the resolver's copy of a pending row

monitorVars == <<up, boot, active, slots, tick, task, sinceRetry,
                 sinceResolve, resolver, res>>
tickVars == <<up, boot, sinceRetry, sinceResolve, resolver, res>>

----------------------------------------------------------------------------
(* Frames.  `then` is what remains to be done for the id when the current  *)
(* step is over: "free" the slot (startSingleDownload's deferred release,  *)
(* syncFromProviders), "drop" the tracking and free the slot, or nothing.  *)

Pcs == {"idle", "listed", "acquire", "cas", "launch", "reread", "persist",
        "poll", "status", "progress", "complete", "filePath", "announce",
        "abort", "write", "failGet", "failCas", "failReget", "failWrite", "exit"}

Frame == [pc : Pcs, then : {"none", "free", "drop"}, via : Providers \cup {PendingSource},
          h : Handles, st : JobStates, row : Row]

Idle == [pc |-> "idle", then |-> "none", via |-> Client, h |-> 0,
         st |-> "none", row |-> NoRow]

Track == [h : Handles, via : Providers, late : BOOLEAN]
Untracked == [h |-> 0, via |-> Client, late |-> FALSE]
Tracked(id) == active[id].h # 0

At(t, id, pc) == task[t][id].pc = pc
Set(t, id, f) == task' = [task EXCEPT ![t][id] = f]
Go(t, id, pc) == Set(t, id, [task[t][id] EXCEPT !.pc = pc])
Exit(t, id, then) == Set(t, id, [task[t][id] EXCEPT !.pc = "exit", !.then = then])
Fail(t, id, then) == Set(t, id, [task[t][id] EXCEPT !.pc = "failGet", !.then = then])

In(t, phase) == tick[t].phase = phase
Quiet(t) == \A id \in Ids : At(t, id, "idle")
Working(t) == \E id \in Ids : task[t][id].pc \notin {"idle", "listed"}
Take(t, id) == At(t, id, "listed") /\ ~Working(t)

\* getSemaphore and the channel operations.  A provider without a limit has
\* no channel, so releasing is a no-op, as it is on an empty channel.
Release(p) == slots' = IF p \in Providers /\ slots[p] > 0
                       THEN [slots EXCEPT ![p] = @ - 1] ELSE slots
RemoveTracking(id) == active' = [active EXCEPT ![id] = Untracked]

----------------------------------------------------------------------------
(* safeTick and the phases of tick().                                      *)

\* A phase begins with a frame for each id it has work for.
Enter(t, phase, frames) ==
  /\ tick' = [tick EXCEPT ![t].phase = phase]
  /\ task' = [task EXCEPT ![t] = frames]

\* A copy of what is tracked, one frame at pc for each.
Snapshot(pc) == [id \in Ids |->
  IF Tracked(id) THEN [Idle EXCEPT !.pc = pc, !.h = active[id].h, !.via = active[id].via]
  ELSE Idle]

TickBegin(t) ==
  /\ up
  /\ In(t, "off")
  /\ tick' = [tick EXCEPT ![t] = [phase |-> "sync", todo |-> Providers \ {Client},
                                  seen |-> {}, via |-> Client]]
  /\ UNCHANGED <<storeVars, active, slots, task, tickVars>>

\* syncFromProviders: ActiveDownloads of the next plugin.  Download clients
\* are in another registry and are not synced.
SyncList(t, p) ==
  /\ In(t, "sync") /\ Quiet(t)
  /\ p \in tick[t].todo
  /\ tick' = [tick EXCEPT ![t] =
                [phase |-> "syncDrop", todo |-> @.todo \ {p}, via |-> p,
                 seen |-> {x \in Ids \X (1..MaxStarts) :
                             Listed(x[1], x[2]) /\ job[x[1]][x[2]].via = p}]]
  /\ UNCHANGED <<storeVars, active, slots, task, tickVars>>

\* Under activeMu: what is tracked for p and was not listed loses its tracking.
SyncDrop(t) ==
  /\ In(t, "syncDrop") /\ Quiet(t)
  /\ LET p == tick[t].via
         lost == {id \in Ids : /\ Tracked(id) /\ active[id].via = p
                               /\ <<id, active[id].h>> \notin tick[t].seen}
     IN /\ active' = [id \in Ids |-> IF id \in lost THEN Untracked ELSE active[id]]
        /\ task' = [task EXCEPT ![t] = [id \in Ids |->
                      IF id \in lost THEN [Idle EXCEPT !.pc = "listed", !.then = "free",
                                                       !.via = p, !.h = active[id].h]
                      ELSE Idle]]
  /\ tick' = [tick EXCEPT ![t].phase = "sync", ![t].seen = {}, ![t].via = Client]
  /\ UNCHANGED <<storeVars, slots, tickVars>>

\* The lost downloads are failed, then their slot is released.
SyncFail(t, id) ==
  /\ In(t, "sync")
  /\ Take(t, id)
  /\ Go(t, id, "failGet")
  /\ UNCHANGED <<storeVars, active, slots, tick, tickVars>>

----------------------------------------------------------------------------
(* startQueuedDownloads, startSingleDownload, startAlbumDownload.          *)

StartList(t) ==
  /\ In(t, "sync") /\ Quiet(t) /\ tick[t].todo = {}
  /\ Enter(t, "start", [id \in Ids |->
        IF rec[id].state = "queued" /\ ~IsPendingSource(rec[id]) /\ ~rec[id].wait
        THEN [Idle EXCEPT !.pc = "listed"] ELSE Idle])
  /\ UNCHANGED <<storeVars, active, slots, tickVars>>

\* Skip what is tracked; re-read, and skip what is no longer queued.
StartPick(t, id) ==
  /\ In(t, "start")
  /\ Take(t, id)
  /\ IF Tracked(id) \/ rec[id].state # "queued"
     THEN Set(t, id, Idle)
     ELSE Set(t, id, [Idle EXCEPT !.pc = "acquire", !.row = rec[id],
                                  !.via = Gate(id, rec[id])])
  /\ UNCHANGED <<storeVars, active, slots, tick, tickVars>>

\* Mutant: one transfer more than MaxConcurrent.
StartAcquireOverCap(t, id) ==
  /\ At(t, id, "acquire")
  /\ LET p == task[t][id].via
     IN \/ /\ p \in Providers /\ slots[p] <= Cap[p]
           /\ slots' = [slots EXCEPT ![p] = @ + 1]
           /\ Set(t, id, [task[t][id] EXCEPT !.pc = "cas", !.then = "free"])
        \/ /\ p \in Providers /\ slots[p] > Cap[p]
           /\ Set(t, id, Idle) /\ UNCHANGED slots
  /\ UNCHANGED <<storeVars, active, tick, tickVars>>

\* Look up the plugin and take a slot, without blocking.
StartAcquire(t, id) ==
  /\ At(t, id, "acquire")
  /\ LET p == task[t][id].via
     IN \/ /\ p \notin Providers               \* plugin not found
           /\ Fail(t, id, "none")
           /\ UNCHANGED slots
        \/ /\ p \in Providers /\ Cap[p] = 0    \* unlimited: no semaphore
           /\ Go(t, id, "cas")
           /\ UNCHANGED slots
        \/ /\ p \in Providers /\ Cap[p] > 0 /\ slots[p] < Cap[p]
           /\ slots' = [slots EXCEPT ![p] = @ + 1]
           /\ Set(t, id, [task[t][id] EXCEPT !.pc = "cas", !.then = "free"])
        \/ /\ p \in Providers /\ Cap[p] > 0 /\ slots[p] >= Cap[p]
           /\ Set(t, id, Idle)                 \* pool full, next tick
           /\ UNCHANGED slots
  /\ UNCHANGED <<storeVars, active, tick, tickVars>>

StartCas(t, id) ==
  /\ At(t, id, "cas")
  /\ \/ /\ TransitionState(id, "queued", "downloading")
        /\ Go(t, id, "launch")
     \/ /\ ~Matches(id, "queued")
        /\ Go(t, id, "exit")
        /\ UNCHANGED rec
  /\ UNCHANGED <<job, bus, active, slots, tick, tickVars>>

\* StartDownload / AddDownload, then the entry in the active map.  The slot
\* passes from the deferred release to the tracked download.
StartLaunch(t, id) ==
  /\ At(t, id, "launch")
  /\ \E n \in NextHandle(id) :
       LET p == task[t][id].via
       IN /\ SetJob(id, n, [st |-> "running", via |-> p])
          /\ active' = [active EXCEPT ![id] = [h |-> n, via |-> p, late |-> FALSE]]
          /\ Set(t, id, [task[t][id] EXCEPT !.pc = "reread", !.then = "none", !.h = n])
  /\ UNCHANGED <<rec, bus, slots, tick, tickVars>>

\* Mutant: the error path of the launch forgets the slot.
StartFailsLeaks(t, id) ==
  /\ At(t, id, "launch")
  /\ Fail(t, id, "none")
  /\ UNCHANGED <<storeVars, active, slots, tick, tickVars>>

StartFails(t, id) ==
  /\ At(t, id, "launch")
  /\ Fail(t, id, task[t][id].then)
  /\ UNCHANGED <<storeVars, active, slots, tick, tickVars>>

StartReread(t, id) ==
  /\ At(t, id, "reread")
  /\ IF rec[id].state = "downloading"
     THEN Set(t, id, [task[t][id] EXCEPT !.pc = "persist", !.row = rec[id]])
     ELSE Set(t, id, Idle)
  /\ UNCHANGED <<storeVars, active, slots, tick, tickVars>>

\* The row read a step ago is written back with the ProviderID in it.
StartPersist(t, id) ==
  /\ At(t, id, "persist")
  /\ Update(id, [task[t][id].row EXCEPT !.pid = task[t][id].h])
  /\ Set(t, id, Idle)
  /\ UNCHANGED <<job, bus, active, slots, tick, tickVars>>

----------------------------------------------------------------------------
(* pollActiveDownloads, pollSingle, pollAlbumDownload, handleProviderState *)

PollList(t) ==
  /\ In(t, "start") /\ Quiet(t)
  /\ Enter(t, "poll", Snapshot("poll"))
  /\ UNCHANGED <<storeVars, active, slots, tickVars>>

\* Mutant: a download past its deadline is dropped without being failed.
PollBeginForgets(t, id) ==
  /\ At(t, id, "poll")
  /\ \/ ~Tracked(id) /\ Set(t, id, Idle)
     \/ Tracked(id) /\ active[id].late /\ Exit(t, id, "drop")
     \/ Tracked(id) /\ ~active[id].late /\ Go(t, id, "status")
  /\ UNCHANGED <<storeVars, active, slots, tick, tickVars>>

\* Mutant: no deadline.
PollBeginUntimed(t, id) ==
  /\ At(t, id, "poll")
  /\ IF Tracked(id) THEN Go(t, id, "status") ELSE Set(t, id, Idle)
  /\ UNCHANGED <<storeVars, active, slots, tick, tickVars>>

\* Still tracked?  Past the deadline?  The deadline is the one in the poll's
\* own copy: when the entry has been replaced since, it may or may not be past.
PollBegin(t, id) ==
  /\ At(t, id, "poll")
  /\ \/ ~Tracked(id) /\ Set(t, id, Idle)
     \/ /\ Tracked(id)
        /\ active[id].late \/ active[id].h # task[t][id].h
        /\ Fail(t, id, "drop")
     \/ /\ Tracked(id)
        /\ ~active[id].late \/ active[id].h # task[t][id].h
        /\ Go(t, id, "status")
  /\ UNCHANGED <<storeVars, active, slots, tick, tickVars>>

\* GetStatus: the transfer's state, or an error, which leaves the rest of the
\* poll to the next tick.
PollStatus(t, id) ==
  /\ At(t, id, "status")
  /\ \/ /\ Listed(id, task[t][id].h)
        /\ Set(t, id, [task[t][id] EXCEPT !.pc = "progress",
                                          !.st = job[id][task[t][id].h].st])
     \/ Set(t, id, Idle)
  /\ UNCHANGED <<storeVars, active, slots, tick, tickVars>>

\* UpdateProgress(downloading), whatever the row says by now; then
\* handleProviderState looks at the status.
PollProgress(t, id) ==
  /\ At(t, id, "progress")
  /\ UpdateProgress(id, "downloading")
  /\ LET st == task[t][id].st
     IN \/ st = "done" /\ Go(t, id, "complete")
        \/ st = "failed" /\ Fail(t, id, "drop")
        \/ st = "cancelled" /\ Exit(t, id, "drop")
        \/ st = "running" /\ Set(t, id, Idle)
  /\ UNCHANGED <<job, bus, active, slots, tick, tickVars>>

\* Mutant: without a file path the completion is not announced.
PollCompleteSilent(t, id) ==
  /\ At(t, id, "complete")
  /\ \/ /\ TransitionState(id, "downloading", "importPending")
        /\ Go(t, id, "filePath") \/ Exit(t, id, "drop")
     \/ /\ ~Matches(id, "downloading")
        /\ Exit(t, id, "drop")
        /\ UNCHANGED rec
  /\ UNCHANGED <<job, bus, active, slots, tick, tickVars>>

PollComplete(t, id) ==
  /\ At(t, id, "complete")
  /\ \/ /\ TransitionState(id, "downloading", "importPending")
        /\ \E pc \in {"filePath", "announce"} : Go(t, id, pc)
     \/ /\ ~Matches(id, "downloading")
        /\ Exit(t, id, "drop")
        /\ UNCHANGED rec
  /\ UNCHANGED <<job, bus, active, slots, tick, tickVars>>

\* With a file path known, a second unconditional write.
PollFilePath(t, id) ==
  /\ At(t, id, "filePath")
  /\ UpdateProgress(id, "importPending")
  /\ Go(t, id, "announce")
  /\ UNCHANGED <<job, bus, active, slots, tick, tickVars>>

PollAnnounce(t, id) ==
  /\ At(t, id, "announce")
  /\ bus' = [bus EXCEPT ![id] = @ + 1]
  /\ Exit(t, id, "drop")
  /\ UNCHANGED <<rec, job, active, slots, tick, tickVars>>

----------------------------------------------------------------------------
(* checkCancellations.                                                     *)

CheckList(t) ==
  /\ In(t, "poll") /\ Quiet(t)
  /\ Enter(t, "check", Snapshot("listed"))
  /\ UNCHANGED <<storeVars, active, slots, tickVars>>

\* A row that is no longer downloading loses its tracking.  The provider is
\* told, unless the row is ignored: then Cancel is taken to have told it.
CheckGet(t, id) ==
  /\ In(t, "check")
  /\ Take(t, id)
  /\ IF ~Tracked(id) \/ rec[id].state = "downloading" THEN Set(t, id, Idle)
     ELSE IF rec[id].state = "ignored" THEN Exit(t, id, "drop")
     ELSE Go(t, id, "abort")
  /\ UNCHANGED <<storeVars, active, slots, tick, tickVars>>

CheckAbort(t, id) ==
  /\ At(t, id, "abort")
  /\ ProviderCancel(id, task[t][id].h, task[t][id].via)
  /\ Exit(t, id, "drop")
  /\ UNCHANGED <<rec, bus, active, slots, tick, tickVars>>

----------------------------------------------------------------------------
(* failRecord, and the removeTracking / releaseSemaphore that follow it.   *)

FailGet(t, id) ==
  /\ At(t, id, "failGet")
  /\ IF rec[id].state \in Terminal THEN Go(t, id, "exit")
     ELSE Set(t, id, [task[t][id] EXCEPT !.pc = "failCas", !.row = rec[id]])
  /\ UNCHANGED <<storeVars, active, slots, tick, tickVars>>

\* The state that was just read is the one replaced, not the caller's oldState.
FailCas(t, id) ==
  /\ At(t, id, "failCas")
  /\ \/ /\ TransitionState(id, task[t][id].row.state, "failed")
        /\ Go(t, id, "failReget")
     \/ /\ ~Matches(id, task[t][id].row.state)
        /\ Go(t, id, "exit")
        /\ UNCHANGED rec
  /\ UNCHANGED <<job, bus, active, slots, tick, tickVars>>

FailReget(t, id) ==
  /\ At(t, id, "failReget")
  /\ Set(t, id, [task[t][id] EXCEPT !.pc = "failWrite",
                                    !.row = [rec[id] EXCEPT !.state = "failed"]])
  /\ UNCHANGED <<storeVars, active, slots, tick, tickVars>>

FailWrite(t, id) ==
  /\ At(t, id, "failWrite")
  /\ Update(id, task[t][id].row)
  /\ Go(t, id, "exit")
  /\ UNCHANGED <<job, bus, active, slots, tick, tickVars>>

\* Mutant: a dropped download keeps its slot.
LeaveLeaks(t, id) ==
  /\ At(t, id, "exit")
  /\ LET f == task[t][id]
     IN /\ IF f.then = "drop" THEN RemoveTracking(id) ELSE UNCHANGED active
        /\ IF f.then = "free" THEN Release(f.via) ELSE UNCHANGED slots
  /\ Set(t, id, Idle)
  /\ UNCHANGED <<storeVars, tick, tickVars>>

\* Mutant: a dropped download stays in the active map, and is polled again.
LeaveKeepsTracking(t, id) ==
  /\ At(t, id, "exit")
  /\ IF task[t][id].then = "none" THEN UNCHANGED slots ELSE Release(task[t][id].via)
  /\ Set(t, id, Idle)
  /\ UNCHANGED <<storeVars, active, tick, tickVars>>

Leave(t, id) ==
  /\ At(t, id, "exit")
  /\ LET f == task[t][id]
     IN /\ IF f.then = "drop" THEN RemoveTracking(id) ELSE UNCHANGED active
        /\ IF f.then = "none" THEN UNCHANGED slots ELSE Release(f.via)
  /\ Set(t, id, Idle)
  /\ UNCHANGED <<storeVars, tick, tickVars>>

----------------------------------------------------------------------------
(* scanRetry.                                                              *)

\* Mutant: the retry cap is not looked at.
RetryListUncapped(t) ==
  /\ In(t, "check") /\ Quiet(t)
  /\ sinceRetry' = 0
  /\ Enter(t, "retry", [id \in Ids |->
        IF rec[id].state \in Retryable /\ ~rec[id].wait
        THEN [Idle EXCEPT !.pc = "listed", !.row = rec[id]] ELSE Idle])
  /\ UNCHANGED <<storeVars, active, slots, up, boot, sinceResolve, resolver, res>>

RetryList(t) ==
  /\ In(t, "check") /\ Quiet(t)
  /\ LET due == sinceRetry + 1 >= RetryEvery
     IN /\ sinceRetry' = IF due THEN 0 ELSE sinceRetry + 1
        /\ Enter(t, "retry", [id \in Ids |->
              IF due /\ rec[id].state \in Retryable /\ rec[id].tries < MaxRetries /\ ~rec[id].wait
              THEN [Idle EXCEPT !.pc = "listed", !.row = rec[id]] ELSE Idle])
  /\ UNCHANGED <<storeVars, active, slots, up, boot, sinceResolve, resolver, res>>

\* Mutant: an automatic retry is not counted.
ScanSearchUncounted(t, id) ==
  /\ In(t, "retry")
  /\ Take(t, id)
  /\ \E p \in Providers \ {Client} :
       Set(t, id, [task[t][id] EXCEPT
                     !.pc = "write",
                     !.row = [WithSource(task[t][id].row, p) EXCEPT !.state = "queued"]])
  /\ UNCHANGED <<storeVars, active, slots, tick, tickVars>>

\* What resolveRetrySource makes of a row.  A search that panics counts as one
\* that found something: the row keeps the source it had.
Resolved(row) == {WithSource(row, p) : p \in Providers \ {Client}}
                   \cup (IF SearchPanics THEN {row} ELSE {})

\* The search may take long.  Without a result the record is left as it is;
\* with one, the listed copy is prepared for writing.
ScanSearch(t, id) ==
  /\ In(t, "retry")
  /\ Take(t, id)
  /\ \/ Set(t, id, Idle)
     \/ /\ id \notin Untitled
        /\ \E found \in Resolved(task[t][id].row) :
             Set(t, id, [task[t][id] EXCEPT
                           !.pc = "write",
                           !.row = [found EXCEPT !.state = "queued",
                                                 !.tries = found.tries + 1,
                                                 !.wait = TRUE]])
  /\ UNCHANGED <<storeVars, active, slots, tick, tickVars>>

ScanWrite(t, id) ==
  /\ At(t, id, "write")
  /\ Update(id, task[t][id].row)
  /\ Set(t, id, Idle)
  /\ UNCHANGED <<job, bus, active, slots, tick, tickVars>>

\* End of the tick: every ResolveEvery ticks a resolver is started, unless
\* pendingResolveRunning says that one still runs.
TickEnd(t) ==
  /\ In(t, "retry") /\ Quiet(t)
  /\ tick' = [tick EXCEPT ![t].phase = "off"]
  /\ LET due == sinceResolve + 1 >= ResolveEvery
     IN /\ sinceResolve' = IF due THEN 0 ELSE sinceResolve + 1
        /\ resolver' = IF due /\ resolver = "off" THEN "list" ELSE resolver
  /\ UNCHANGED <<storeVars, active, slots, task, up, boot, sinceRetry, res>>

----------------------------------------------------------------------------
(* resolvePendingSources, a goroutine of its own.                          *)

ResFrame == [pc : {"idle", "listed", "write"}, row : Row]
NoRes == [pc |-> "idle", row |-> NoRow]

\* Mutant: the resolver takes queued records that have a source too.
ResolveListAll ==
  /\ resolver = "list"
  /\ res' = [id \in Ids |-> IF rec[id].state = "queued"
                            THEN [pc |-> "listed", row |-> rec[id]] ELSE NoRes]
  /\ resolver' = "run"
  /\ UNCHANGED <<storeVars, active, slots, tick, task, up, boot, sinceRetry, sinceResolve>>

ResolveList ==
  /\ resolver = "list"
  /\ res' = [id \in Ids |->
               IF rec[id].state = "queued" /\ IsPendingSource(rec[id]) /\ id \notin Untitled
               THEN [pc |-> "listed", row |-> rec[id]] ELSE NoRes]
  /\ resolver' = "run"
  /\ UNCHANGED <<storeVars, active, slots, tick, task, up, boot, sinceRetry, sinceResolve>>

\* The search finds a source, or the copy is marked failedPending.
ResolveSearch(id) ==
  /\ resolver = "run"
  /\ res[id].pc = "listed"
  /\ \A i \in Ids : res[i].pc # "write"
  /\ \/ \E p \in Providers \ {Client} :
          res' = [res EXCEPT ![id] = [pc |-> "write", row |-> WithSource(@.row, p)]]
     \/ res' = [res EXCEPT ![id] =
                  [pc |-> "write", row |-> [@.row EXCEPT !.state = "failedPending",
                                                         !.tries = 1, !.wait = TRUE]]]
  /\ UNCHANGED <<storeVars, active, slots, tick, task, up, boot, sinceRetry,
                 sinceResolve, resolver>>

ResolveWrite(id) ==
  /\ res[id].pc = "write"
  /\ Update(id, res[id].row)
  /\ res' = [res EXCEPT ![id] = NoRes]
  /\ UNCHANGED <<job, bus, active, slots, tick, task, up, boot, sinceRetry,
                 sinceResolve, resolver>>

ResolveEnd ==
  /\ resolver = "run"
  /\ \A id \in Ids : res[id].pc = "idle"
  /\ resolver' = "off"
  /\ UNCHANGED <<storeVars, active, slots, tick, task, up, boot, sinceRetry,
                 sinceResolve, res>>

----------------------------------------------------------------------------
(* Start: recoverOrphans over the rows of the previous run, then the loop. *)

\* Each row left by the previous run is looked at once.
Revisit(id) ==
  /\ ~up
  /\ id \in boot
  /\ boot' = boot \ {id}
  /\ UNCHANGED <<job, active, slots, tick, task, up, sinceRetry, sinceResolve,
                 resolver, res>>

\* Mutant: recovery fails what is queued too.
RecoverFailsQueued(id) ==
  /\ Revisit(id)
  /\ IF rec[id].state \in {"queued", "downloading", "importing"}
     THEN UpdateProgress(id, "failed") ELSE UNCHANGED rec
  /\ bus' = IF rec[id].state = "importPending" THEN [bus EXCEPT ![id] = @ + 1] ELSE bus

\* Mutant: recovery leaves interrupted downloads alone.
RecoverSkipsDownloading(id) ==
  /\ Revisit(id)
  /\ IF rec[id].state = "importing" THEN UpdateProgress(id, "failed") ELSE UNCHANGED rec
  /\ bus' = IF rec[id].state = "importPending" THEN [bus EXCEPT ![id] = @ + 1] ELSE bus

\* Mutant: recovery does not announce finished downloads again.
RecoverQuiet(id) ==
  /\ Revisit(id)
  /\ IF rec[id].state \in {"downloading", "importing"}
     THEN UpdateProgress(id, "failed") ELSE UNCHANGED rec
  /\ UNCHANGED bus

Recover(id) ==
  /\ Revisit(id)
  /\ IF rec[id].state \in {"downloading", "importing"}
     THEN UpdateProgress(id, "failed") ELSE UNCHANGED rec
  /\ bus' = IF rec[id].state = "importPending" THEN [bus EXCEPT ![id] = @ + 1] ELSE bus

Start ==
  /\ ~up
  /\ boot = {}
  /\ up' = TRUE
  /\ resolver' = "list"
  /\ UNCHANGED <<storeVars, active, slots, tick, task, boot, sinceRetry, sinceResolve, res>>

----------------------------------------------------------------------------
(* The passing of time.                                                    *)

BackoffElapses(id) ==
  /\ rec[id].wait
  /\ rec' = [rec EXCEPT ![id].wait = FALSE]
  /\ UNCHANGED <<job, bus, monitorVars>>

DeadlinePasses(id) ==
  /\ Tracked(id) /\ ~active[id].late
  /\ active' = [active EXCEPT ![id].late = TRUE]
  /\ UNCHANGED <<storeVars, slots, tick, task, tickVars>>

----------------------------------------------------------------------------
\* The in-memory state of a process that has just been started.
NoTick == [t \in Ticks |-> [phase |-> "off", todo |-> {}, seen |-> {}, via |-> Client]]
NoTask == [t \in Ticks |-> [id \in Ids |-> Idle]]
NothingTracked == [id \in Ids |-> Untracked]
SlotsFree == [p \in Providers |-> 0]
NothingResolving == [id \in Ids |-> NoRes]

MonitorInit ==
  /\ up = FALSE /\ boot = {}
  /\ active = NothingTracked /\ slots = SlotsFree
  /\ tick = NoTick /\ task = NoTask
  /\ sinceRetry = 0 /\ sinceResolve = 0
  /\ resolver = "off" /\ res = NothingResolving

\* A restart: memory is lost, every row of the table awaits recoverOrphans.
MonitorReset ==
  /\ up' = FALSE /\ boot' = {id \in Ids : rec[id].state # "absent"}
  /\ active' = NothingTracked /\ slots' = SlotsFree
  /\ tick' = NoTick /\ task' = NoTask
  /\ sinceRetry' = 0 /\ sinceResolve' = 0
  /\ resolver' = "off" /\ res' = NothingResolving

\* The steps of a tick for one id, and of a tick as a whole.
TaskStep(t, id) ==
  \/ SyncFail(t, id) \/ StartPick(t, id) \/ StartAcquire(t, id) \/ StartCas(t, id)
  \/ StartLaunch(t, id) \/ StartFails(t, id) \/ StartReread(t, id) \/ StartPersist(t, id)
  \/ PollBegin(t, id) \/ PollStatus(t, id) \/ PollProgress(t, id) \/ PollComplete(t, id)
  \/ PollFilePath(t, id) \/ PollAnnounce(t, id) \/ CheckGet(t, id) \/ CheckAbort(t, id)
  \/ FailGet(t, id) \/ FailCas(t, id) \/ FailReget(t, id) \/ FailWrite(t, id)
  \/ Leave(t, id) \/ ScanSearch(t, id) \/ ScanWrite(t, id)

TickStep(t) ==
  \/ TickBegin(t) \/ (\E p \in Providers : SyncList(t, p)) \/ SyncDrop(t)
  \/ StartList(t) \/ PollList(t) \/ CheckList(t) \/ RetryList(t) \/ TickEnd(t)

ResolverStep ==
  \/ ResolveList \/ ResolveEnd
  \/ \E id \in Ids : ResolveSearch(id) \/ ResolveWrite(id)

BootStep == Start \/ \E id \in Ids : Recover(id)

TimeStep == \E id \in Ids : BackoffElapses(id) \/ DeadlinePasses(id)

MonitorNext ==
  \/ \E t \in Ticks : TickStep(t) \/ \E id \in Ids : TaskStep(t, id)
  \/ ResolverStep \/ BootStep \/ TimeStep

Tick == [phase : {"off", "sync", "syncDrop", "start", "poll", "check", "retry"},
         todo : SUBSET Providers, seen : SUBSET (Ids \X (1..MaxStarts)), via : Providers]

MonitorTypeOK ==
  /\ up \in BOOLEAN /\ boot \subseteq Ids
  /\ active \in [Ids -> Track] /\ slots \in [Providers -> Nat]
  /\ tick \in [Ticks -> Tick] /\ task \in [Ticks -> [Ids -> Frame]]
  /\ sinceRetry \in 0..RetryEvery /\ sinceResolve \in 0..ResolveEvery
  /\ resolver \in {"off", "list", "run"} /\ res \in [Ids -> ResFrame]
=============================================================================
