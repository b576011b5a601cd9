--------------------------- MODULE DownloadPipeline ---------------------------
(***************************************************************************)
(* The download pipeline: service, monitor, importer and providers at work *)
(* on one downloads table, and restarts of the process.                    *)
(***************************************************************************)
EXTENDS DownloadService, DownloadMonitor, DownloadImporter

CONSTANTS
  MaxCrashes,      \* bound: restarts of the process
  InProcess,       \* providers whose transfers die with the process
  ProviderCancels  \* may a provider cancel a transfer on its own?

ASSUME PipelineAssumption ==
  /\ MaxCrashes \in Nat
  /\ InProcess \subseteq Providers
  /\ ProviderCancels \in BOOLEAN

VARIABLE crashes   \* restarts so far

vars == <<storeVars, serviceVars, monitorVars, imp, crashes>>

Init ==
  /\ StoreInit /\ ServiceInit /\ MonitorInit /\ ImporterInit
  /\ crashes = 0

\* The HTTP server is started after the monitor, so the API calls find it up.
ServiceStep == up /\ ServiceNext /\ UNCHANGED <<monitorVars, imp, crashes>>

MonitorStep == MonitorNext /\ UNCHANGED <<serviceVars, imp, crashes>>

ImporterStep ==
  /\ \E id \in Ids, w \in Workers : ImpStep(id, w)
  /\ UNCHANGED <<serviceVars, monitorVars, crashes>>

ProviderStep ==
  /\ \E id \in Ids, n \in 1..MaxStarts :
       \/ JobEnds(id, n)
       \/ JobLost(id, n)
       \/ ProviderCancels /\ JobCancelled(id, n)
  /\ UNCHANGED <<serviceVars, monitorVars, imp, crashes>>

\* The process dies between any two statements and is started again.  The
\* table survives; goroutines, tracking and undelivered events do not.
Crash ==
  /\ crashes < MaxCrashes
  /\ crashes' = crashes + 1
  /\ MonitorReset
  /\ imp' = NothingImporting
  /\ can' = [id \in Ids |-> NoCan]
  /\ ret' = [c \in Callers |-> NoRet]
  /\ bus' = [id \in Ids |-> 0]
  /\ job' = [id \in Ids |-> [n \in 1..MaxStarts |->
               IF Listed(id, n) /\ job[id][n].via \in InProcess
               THEN [job[id][n] EXCEPT !.st = "gone"] ELSE job[id][n]]]
  /\ UNCHANGED <<rec, cancels, retries>>

Next == ServiceStep \/ MonitorStep \/ ImporterStep \/ ProviderStep \/ Crash

Spec == Init /\ [][Next]_vars

(***************************************************************************)
(* Fairness: the loop ticks every second, the calls it makes return, and   *)
(* goroutines that have been started run; time passes.  Nothing is assumed *)
(* of users, of crashes, or of what a transfer does.                       *)
(***************************************************************************)
Fairness ==
  /\ \A t \in Ticks : WF_vars(TickStep(t) /\ UNCHANGED <<serviceVars, imp, crashes>>)
  /\ \A t \in Ticks, id \in Ids :
       WF_vars(TaskStep(t, id) /\ UNCHANGED <<serviceVars, imp, crashes>>)
  /\ WF_vars((ResolverStep \/ BootStep) /\ UNCHANGED <<serviceVars, imp, crashes>>)
  /\ \A id \in Ids :
       /\ WF_vars(BackoffElapses(id) /\ UNCHANGED <<serviceVars, imp, crashes>>)
       /\ WF_vars(DeadlinePasses(id) /\ UNCHANGED <<serviceVars, imp, crashes>>)
       /\ WF_vars(CancelWrite(id) /\ UNCHANGED <<monitorVars, imp, crashes>>)
       /\ \A w \in Workers :
            WF_vars(ImpStep(id, w) /\ UNCHANGED <<serviceVars, monitorVars, crashes>>)
  /\ \A c \in Callers :
       WF_vars((RetryWrite(c) \/ RetrySearch(c) \/ RetrySubmit(c))
                 /\ UNCHANGED <<monitorVars, imp, crashes>>)

FairSpec == Spec /\ Fairness

----------------------------------------------------------------------------
(* Invariants.                                                             *)

\* Every variable stays within its type.
TypeOK ==
  /\ StoreTypeOK /\ ServiceTypeOK /\ MonitorTypeOK /\ ImporterTypeOK
  /\ crashes \in 0..MaxCrashes

\* The ids a slot of p is held for: by a tracked transfer, or by a dispatch or
\* a clean-up that has yet to release it.
HoldsSlot(id, p) ==
  \/ Tracked(id) /\ active[id].via = p
  \/ \E t \in Ticks : task[t][id].then = "free" /\ task[t][id].via = p
Holders(p) == {id \in Ids : HoldsSlot(id, p)}

\* Slot accounting: the semaphore of a limited provider holds exactly one token
\* per download that occupies it, whatever the ticks, failures, cancellations
\* and restarts.  A leaked token would block the provider for good, a token
\* released twice would let it exceed MaxConcurrent.
SlotsMatch == \A p \in Providers :
  slots[p] = IF Cap[p] = 0 THEN 0 ELSE Cardinality(Holders(p))

\* No limited provider is given more downloads to follow than MaxConcurrent.
TrackedLimit == \A p \in Providers : Cap[p] > 0 =>
  Cardinality({id \in Ids : Tracked(id) /\ active[id].via = p}) <= Cap[p]

\* Somebody will act on a downloaded file: a record waits in importPending only
\* while the poll that found it, an undelivered event, an importer about to
\* take it or the recovery of this start is there for it.
ImportPendingHandled == \A id \in Ids :
  rec[id].state = "importPending" =>
    \/ id \in boot
    \/ bus[id] > 0
    \/ \E w \in Workers : ImpAt(id, w, "cas")
    \/ \E t \in Ticks : At(t, id, "filePath") \/ At(t, id, "announce")

InChain(id) == {w \in Workers : imp[id][w].pc \in Chain}

\* A record is importing only while an import chain runs for it or recovery has
\* still to look at it: no record stays behind in importing.
ImportingHandled == \A id \in Ids :
  rec[id].state = "importing" => id \in boot \/ InChain(id) # {}

\* Two import chains never run for one record at the same time, however often
\* its completion is announced.
ImportExclusive == \A id \in Ids : Cardinality(InChain(id)) <= 1

\* Somebody will find out about it: recovery, the tracking, or a tick that is
\* about to track it or to fail it.
Watched(id) ==
  \/ id \in boot
  \/ Tracked(id)
  \/ \E t \in Ticks : \/ task[t][id].pc \in {"launch", "failGet", "failCas"}
                      \/ At(t, id, "listed") /\ task[t][id].then = "free"

\* A record is downloading only while its transfer is tracked, is about to be
\* or is being given up, or recovery has still to look at it: no record stays
\* behind in downloading.
DownloadingWatched == \A id \in Ids :
  rec[id].state = "downloading" => Watched(id)

\* Without manual retries a record has one transfer started for its first
\* dispatch and one for each retry on its count, and the count is capped.
RetryBudget == \A id \in Ids : Started(id) <= rec[id].tries + 1

\* Once Cancel has returned and the monitor has dropped the download, nothing
\* of it is left running at the provider.
CancelStopsTransfer == \A id \in Ids :
  (/\ rec[id].state = "ignored" /\ can[id].pc = "idle" /\ ~Tracked(id)
   /\ \A t \in Ticks : At(t, id, "idle"))
  => \A n \in 1..MaxStarts : job[id][n].st # "running"

----------------------------------------------------------------------------
(* Action and temporal properties.                                         *)

\* A cancelled record stays cancelled.
IgnoredIsFinal == [][\A id \in Ids :
  rec[id].state = "ignored" => rec'[id].state = "ignored"]_vars

\* While a transfer of a record is tracked nothing replaces the source the
\* record names: what is imported is what was dispatched.
SourceStable == [][\A id \in Ids :
  Tracked(id) /\ Tracked(id)' /\ rec[id].state = "downloading"
    => rec'[id].via = rec[id].via]_vars

\* A record never stays in a working state: it comes to rest for good in
\* imported, failed or (until the user acts) failedPending or ignored.
Resting == Terminal \cup {"failedPending", "absent"}
Settles == \A id \in Ids : <>[](rec[id].state \in Resting)

\* A record does not stay in downloading for ever.
LeavesDownloading == \A id \in Ids :
  rec[id].state = "downloading" ~> rec[id].state # "downloading"

\* A download does not stay tracked for ever, whatever the races do to its row
\* and whatever its transfer does: the slot it occupies comes back.
TrackingEnds == \A id \in Ids : Tracked(id) ~> ~Tracked(id)

(* Refinement.                                                             *)

\* Without Cancel and manual Retry every step of the services moves a record
\* along one edge of the life cycle, or leaves its state and its count alone.
Lifecycle == INSTANCE DownloadLifecycle WITH
  state <- [id \in Ids |-> rec[id].state],
  tries <- [id \in Ids |-> rec[id].tries]
ImplementsLifecycle == Lifecycle!Spec
=============================================================================
