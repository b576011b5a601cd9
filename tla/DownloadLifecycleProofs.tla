----------------------- MODULE DownloadLifecycleProofs -----------------------
(***************************************************************************)
(* Proof that the services implement DownloadLifecycle, keep to the retry  *)
(* budget, watch what is downloading and keep its source, as long as ticks *)
(* do not overlap (OneTick) and no user intervenes (MaxUserRetries = 0,    *)
(* MaxCancels = 0).  It holds for any set of downloads, providers and      *)
(* importer goroutines, for any cap on retries and any restarts.           *)
(*                                                                         *)
(* The inductive invariant is LifeInv.  That each write is along an edge   *)
(* of the life cycle needs that the copy which is written is as good as    *)
(* the row; it is, because whoever works on a record has it to itself      *)
(* (ExclusiveInv).                                                         *)
(***************************************************************************)
EXTENDS DownloadSlotProofs

----------------------------------------------------------------------------
(* Counting the transfers of a record.                                     *)

LEMMA StartedNat ==
  ASSUME NEW id \in Ids
  PROVE  /\ IsFiniteSet({n \in 1..MaxStarts : job[id][n].st # "none"})
         /\ Started(id) \in Nat
  <1>1. IsFiniteSet(1..MaxStarts)
    BY StoreAssumption, FS_Interval
  <1>2. IsFiniteSet({n \in 1..MaxStarts : job[id][n].st # "none"})
    BY <1>1, FS_Subset
  <1> QED
    BY <1>2, FS_CardinalityType DEF Started

LEMMA StartedKept ==
  ASSUME NEW id \in Ids,
         \A n \in 1..MaxStarts : job'[id][n].st = "none" <=> job[id][n].st = "none"
  PROVE  Started(id)' = Started(id)
  <1>1. {n \in 1..MaxStarts : job'[id][n].st # "none"} = {n \in 1..MaxStarts : job[id][n].st # "none"}
    OBVIOUS
  <1> QED
    BY <1>1 DEF Started

LEMMA StartedMore ==
  ASSUME TypeInv, NEW id \in Ids, NEW n \in NextHandle(id), NEW p,
         SetJob(id, n, [st |-> "running", via |-> p])
  PROVE  Started(id)' = Started(id) + 1
  <1> DEFINE S == {m \in 1..MaxStarts : job[id][m].st # "none"}
  <1>1. n \in 1..MaxStarts /\ n \notin S
    BY DEF NextHandle
  <1>2. job \in [Ids -> [1..MaxStarts -> Job]]
    BY DEF TypeInv, TypeOK, StoreTypeOK
  <1>3. \A m \in 1..MaxStarts : job'[id][m] = IF m = n THEN [st |-> "running", via |-> p] ELSE job[id][m]
    BY <1>1, <1>2 DEF SetJob
  <1>4. {m \in 1..MaxStarts : job'[id][m].st # "none"} = S \cup {n}
    BY <1>1, <1>3
  <1>5. IsFiniteSet(S)
    BY StartedNat
  <1>6. Cardinality(S \cup {n}) = Cardinality(S) + 1
    BY <1>1, <1>5, FS_AddElement
  <1> QED
    BY <1>4, <1>6 DEF Started

----------------------------------------------------------------------------
(* What one step makes of a row.                                           *)

Stays(r, q) == q.state = r.state /\ q.tries = r.tries

\* The edges of DownloadLifecycle, from a row to what a step leaves in its place.
Edge(r, q) ==
  \/ Stays(r, q)
  \/ /\ q.tries = r.tries
     /\ \/ r.state = "absent" /\ q.state = "queued"
        \/ r.state = "queued" /\ q.state = "downloading"
        \/ r.state = "downloading" /\ q.state \in {"importPending", "failed"}
        \/ r.state = "importPending" /\ q.state = "importing"
        \/ r.state = "importing" /\ q.state \in {"imported", "failed"}
  \/ r.state = "queued" /\ q.state = "failedPending" /\ q.tries = 1
  \/ /\ r.state \in Retryable /\ r.tries < MaxRetries
     /\ q.state = "queued" /\ q.tries = r.tries + 1

LivesOn(id) == Life(id)' /\ Edge(rec[id], rec'[id])

\* A row that is as it was but for its timer or its provider id.
LEMMA RowStays ==
  ASSUME NEW id \in Ids, RowLife(id), can'[id].pc = "idle", Started(id)' = Started(id),
         rec'[id].state = rec[id].state, Copies(rec'[id], rec[id])
  PROVE  RowLife(id)' /\ Edge(rec[id], rec'[id])
  BY DEF RowLife, Edge, Stays, Copies, IsPendingSource

\* A row that moves on to a state behind the dispatch.
LEMMA RowMoves ==
  ASSUME NEW id \in Ids, RowLife(id), can'[id].pc = "idle", Started(id)' = Started(id),
         rec'[id].state \notin {"ignored", "absent", "queued"}, Copies(rec'[id], rec[id])
  PROVE  RowLife(id)'
  BY DEF RowLife, Copies, IsPendingSource

\* TransitionState and UpdateProgress write nothing but the state.
LEMMA StateWritten ==
  ASSUME TypeInv, NEW id \in Ids, NEW s, rec' = [rec EXCEPT ![id].state = s]
  PROVE  rec'[id].state = s /\ Copies(rec'[id], rec[id])
  <1>1. PICK r \in Row : r = rec[id]
    BY Typed
  <1>2. rec'[id] = [r EXCEPT !.state = s]
    BY <1>1, Typed
  <1>3. PICK q : q = [r EXCEPT !.state = s]
    OBVIOUS
  <1>4. q.state = s /\ q.via = r.via /\ q.file = r.file /\ q.tries = r.tries
    BY <1>1, <1>3 DEF Row
  <1> QED
    BY <1>1, <1>2, <1>3, <1>4 DEF Copies

\* A record that the step is not about.
LEMMA UntouchedLives ==
  ASSUME NEW id \in Ids, Life(id),
         rec'[id].state = rec[id].state, Copies(rec'[id], rec[id]),
         can'[id].pc = "idle", Started(id)' = Started(id),
         res'[id] = res[id], imp'[id] = imp[id],
         \A t \in Ticks : /\ task'[t][id] = task[t][id]
                          /\ In(t, "retry")' => In(t, "retry") \/ At(t, id, "idle")
  PROVE  LivesOn(id)
  <1>1. RowLife(id)' /\ Edge(rec[id], rec'[id])
    BY RowStays DEF Life
  <1>2. ResolverLife(id)' /\ \A w \in Workers : ImportLife(id, w)'
    BY DEF Life, ResolverLife, ImportLife, Copies, ImpAt
  <1>3. ASSUME NEW t \in Ticks PROVE TaskLife(t, id)'
    <2>1. TaskLife(t, id)
      BY DEF Life
    <2> QED
      BY <1>3, <2>1 DEF TaskLife, Copies, At, IsPendingSource
  <1> QED
    BY <1>1, <1>2, <1>3 DEF LivesOn, Life

\* A record that a tick has to itself.
LEMMA WorkLives ==
  ASSUME OneTick, NEW id \in Ids, NEW t \in Ticks, Alone(id),
         ~At(t, id, "idle"), ~(At(t, id, "exit") /\ task[t][id].then = "drop"),
         UNCHANGED <<imp, res>>,
         RowLife(id)', TaskLife(t, id)', Edge(rec[id], rec'[id])
  PROVE  LivesOn(id)
  <1>1. ~Busy(id) /\ res[id].pc = "idle"
    BY AtWork
  <1>2. ResolverLife(id)'
    BY <1>1 DEF ResolverLife
  <1>3. \A w \in Workers : ImportLife(id, w)'
    BY <1>1 DEF ImportLife, Busy, ImpAt, Chain
  <1>4. \A s \in Ticks : s = t
    BY DEF OneTick
  <1> QED
    BY <1>2, <1>3, <1>4 DEF LivesOn, Life

----------------------------------------------------------------------------
(* A step of a tick for one id.                                            *)

\* Without Cancel the place at which a tick stands tells the state of the row.
LEMMA Position ==
  ASSUME TypeInv, NEW id \in Ids, NEW t \in Ticks, Alone(id), Life(id)
  PROVE  LET f == task[t][id]
             k == tick[t].phase
             s == rec[id].state
         IN /\ (f.pc = "listed" /\ k = "start") \/ f.pc \in {"acquire", "cas"} => s = "queued"
            /\ (f.pc = "listed" /\ k = "retry") \/ f.pc = "write" => s \in Retryable
            /\ f.pc = "listed" /\ k \notin {"start", "retry"} => s = "downloading"
            /\ f.pc \in Launched \cup {"failGet", "failCas"} => s = "downloading"
            /\ f.pc \in {"filePath", "announce"} => s = "importPending"
            /\ f.pc \in {"failReget", "failWrite"} => s = "failed"
  <1> DEFINE f == task[t][id]
  <1>1. f \in Frame /\ Tracked(id) \in BOOLEAN
    BY Typed
  <1>2. rec[id].state \in StatesOf(f, tick[t].phase, Tracked(id))
    BY DEF Alone, TaskAlone
  <1>3. rec[id].state # "ignored"
    BY DEF Life, RowLife
  <1>4. /\ f.pc = "failGet" => rec[id].state = "downloading"
        /\ f.pc = "failCas" => f.row.state = "downloading"
    BY DEF Life, TaskLife
  <1>5. f.pc = "failCas" => rec[id].state = "downloading"
    BY <1>1, <1>2, <1>3, <1>4, StatesByPosition
  <1> QED
    BY <1>1, <1>2, <1>3, <1>4, <1>5, StatesByPosition DEF Retryable

\* The facts that the steps of a tick for one id share.
Before(t, id) ==
  /\ OneTick /\ TypeInv /\ TypeInv' /\ HandoverInv
  /\ Alone(id) /\ Life(id)
  /\ can'[id].pc = "idle"
  /\ UNCHANGED imp

\* Where the step leaves the row and the transfers alone, what it goes on to
\* do must be right.
LEMMA ReadingLives ==
  ASSUME NEW id \in Ids, NEW t \in Ticks, Before(t, id),
         ~At(t, id, "idle"), ~(At(t, id, "exit") /\ task[t][id].then = "drop"),
         UNCHANGED <<rec, res>>, Started(id)' = Started(id), TaskLife(t, id)'
  PROVE  LivesOn(id)
  <1>1. RowLife(id)' /\ Edge(rec[id], rec'[id])
    BY RowStays DEF Before, Life, Copies
  <1> QED
    BY <1>1, WorkLives DEF Before

\* Dispatch.
LEMMA StartLives ==
  ASSUME NEW id \in Ids, NEW t \in Ticks, Before(t, id),
         \/ SyncFail(t, id) \/ StartPick(t, id) \/ StartAcquire(t, id) \/ StartCas(t, id)
         \/ StartLaunch(t, id) \/ StartFails(t, id) \/ StartReread(t, id) \/ StartPersist(t, id)
  PROVE  LivesOn(id)
  <1> DEFINE f == task[t][id]
  <1> DEFINE g == task'[t][id]
  <1> DEFINE r == rec[id]
  <1> DEFINE q == rec'[id]
  <1>1. /\ OneTick /\ TypeInv /\ TypeInv' /\ HandoverInv /\ Alone(id) /\ Life(id)
        /\ can'[id].pc = "idle" /\ imp' = imp /\ RowLife(id) /\ TaskLife(t, id)
    BY DEF Before, Life
  <1>2. f \in Frame /\ r \in Row
    BY <1>1, Typed
  <1>3. /\ (f.pc = "listed" /\ In(t, "start")) \/ f.pc \in {"acquire", "cas"} => r.state = "queued"
        /\ f.pc = "listed" /\ In(t, "sync") => r.state = "downloading"
        /\ f.pc \in Launched => r.state = "downloading"
    BY <1>1, Position DEF In
  <1>4. f.pc \notin {"idle", "exit"} => ~(r.state = "queued" /\ IsPendingSource(r))
    BY <1>1, AtWork DEF At
  <1>5. res' = res
    BY DEF SyncFail, StartPick, StartAcquire, StartCas, StartLaunch, StartFails, StartReread,
           StartPersist, tickVars
  <1>6. job' = job => Started(id)' = Started(id)
    BY DEF Started
  <1>p. \A pc \in {"idle", "acquire", "cas", "launch", "reread", "persist", "exit", "failGet"} : pc \in Pcs
    BY DEF Pcs
  <1>w. ASSUME f.pc \notin {"idle", "exit"}, RowLife(id)', TaskLife(t, id)', Edge(r, q)
        PROVE  LivesOn(id)
    BY <1>1, <1>5, <1>w, WorkLives DEF At
  <1>r. ASSUME f.pc \notin {"idle", "exit"}, rec' = rec, job' = job, TaskLife(t, id)'
        PROVE  LivesOn(id)
    BY <1>5, <1>6, <1>r, ReadingLives DEF At
  <1>7. CASE SyncFail(t, id)
    <2>1. f.pc = "listed" /\ In(t, "sync") /\ rec' = rec /\ job' = job /\ Go(t, id, "failGet")
      BY <1>7 DEF SyncFail, Take, At, storeVars
    <2>2. g.pc = "failGet"
      BY <1>1, <1>p, <2>1, Goes
    <2>3. TaskLife(t, id)'
      BY <1>3, <2>1, <2>2 DEF TaskLife
    <2> QED
      BY <1>r, <2>1, <2>3
  <1>8. CASE StartPick(t, id)
    <2>1. f.pc = "listed" /\ In(t, "start") /\ rec' = rec /\ job' = job
      BY <1>8 DEF StartPick, Take, At, storeVars
    <2>2. g.pc = "idle" \/ (g.pc = "acquire" /\ g.via = Gate(id, r))
      <3>1. \/ Set(t, id, Idle)
            \/ Set(t, id, [Idle EXCEPT !.pc = "acquire", !.row = rec[id], !.via = Gate(id, rec[id])])
        BY <1>8 DEF StartPick
      <3>2. CASE Set(t, id, [Idle EXCEPT !.pc = "acquire", !.row = rec[id], !.via = Gate(id, rec[id])])
        <4>1. g = [Idle EXCEPT !.pc = "acquire", !.row = rec[id], !.via = Gate(id, rec[id])]
          BY <1>1, <3>2, SetTask
        <4> QED
          BY <4>1 DEF Idle
      <3> QED
        BY <1>1, <1>p, <3>1, <3>2, Goes
    <2>3. Gate(id, r) \in Providers
      BY <1>2, <1>3, <1>4, <2>1, StoreAssumption DEF Gate, IsPendingSource, Row
    <2>4. TaskLife(t, id)'
      BY <2>2, <2>3 DEF TaskLife
    <2> QED
      BY <1>r, <2>1, <2>4
  <1>9. CASE StartAcquire(t, id)
    <2>1. f.pc = "acquire" /\ rec' = rec /\ job' = job
      BY <1>9 DEF StartAcquire, At, storeVars
    <2>2. f.via \in Providers
      BY <1>1, <2>1 DEF TaskLife
    <2>3. g.pc \in {"idle", "cas"}
      <3>1. \/ Go(t, id, "cas") \/ Set(t, id, Idle)
            \/ Set(t, id, [task[t][id] EXCEPT !.pc = "cas", !.then = "free"])
        BY <1>9, <2>2 DEF StartAcquire
      <3>2. CASE Set(t, id, [task[t][id] EXCEPT !.pc = "cas", !.then = "free"])
        <4>1. PICK h : h = [task[t][id] EXCEPT !.pc = "cas", !.then = "free"]
          OBVIOUS
        <4>2. h.pc = "cas" /\ Set(t, id, h)
          BY <1>2, <3>2, <4>1 DEF Frame
        <4> QED
          BY <1>1, <4>2, SetTask
      <3> QED
        BY <1>1, <1>p, <3>1, <3>2, Goes
    <2>4. TaskLife(t, id)'
      BY <2>3 DEF TaskLife
    <2> QED
      BY <1>r, <2>1, <2>4
  <1>10. CASE StartCas(t, id)
    <2>1. f.pc = "cas" /\ job' = job
      BY <1>10 DEF StartCas, At
    <2>2. r.state = "queued"
      BY <1>3, <2>1
    <2>3. rec' = [rec EXCEPT ![id].state = "downloading"] /\ Go(t, id, "launch")
      BY <1>10, <2>2 DEF StartCas, TransitionState, Matches
    <2>4. q.state = "downloading" /\ Copies(q, r) /\ g.pc = "launch"
      <3>1. g.pc = "launch"
        BY <1>1, <1>p, <2>3, Goes
      <3>2. q.state = "downloading" /\ Copies(q, r)
        BY <1>1, <2>3, StateWritten
      <3> QED
        BY <3>1, <3>2
    <2>5. RowLife(id)'
      BY <1>1, <1>6, <2>1, <2>4, RowMoves
    <2>6. TaskLife(t, id)'
      BY <1>1, <1>4, <1>6, <2>1, <2>2, <2>4 DEF TaskLife, RowLife, Copies, IsPendingSource
    <2>7. Edge(r, q)
      BY <2>2, <2>4 DEF Edge, Copies
    <2> QED
      BY <1>w, <2>1, <2>5, <2>6, <2>7
  <1>11. CASE StartLaunch(t, id)
    <2>1. f.pc = "launch" /\ rec' = rec
      BY <1>11 DEF StartLaunch, At
    <2>2. PICK n \in NextHandle(id) :
            /\ SetJob(id, n, [st |-> "running", via |-> task[t][id].via])
            /\ Set(t, id, [task[t][id] EXCEPT !.pc = "reread", !.then = "none", !.h = n])
      BY <1>11 DEF StartLaunch
    <2>3. g.pc = "reread"
      <3>1. PICK h : h = [task[t][id] EXCEPT !.pc = "reread", !.then = "none", !.h = n]
        OBVIOUS
      <3>2. h.pc = "reread" /\ Set(t, id, h)
        BY <1>2, <2>2, <3>1 DEF Frame
      <3> QED
        BY <1>1, <3>2, SetTask
    <2>4. Started(id)' = Started(id) + 1
      BY <1>1, <2>2, StartedMore
    <2>5. Started(id) <= r.tries /\ ~IsPendingSource(r) /\ r.state = "downloading"
      BY <1>1, <1>3, <2>1 DEF TaskLife, Launched
    <2>6. r.tries \in Nat /\ Started(id) \in Nat
      <3>1. r.tries \in Nat
        BY <1>2, StoreAssumption DEF Row
      <3> QED
        BY <3>1, StartedNat
    <2>7. RowLife(id)'
      BY <1>1, <2>1, <2>4, <2>5, <2>6 DEF RowLife, IsPendingSource
    <2>8. TaskLife(t, id)'
      BY <2>3 DEF TaskLife
    <2>9. Edge(r, q)
      BY <2>1 DEF Edge, Stays
    <2> QED
      BY <1>w, <2>1, <2>7, <2>8, <2>9
  <1>12. CASE StartFails(t, id)
    <2>1. f.pc = "launch" /\ rec' = rec /\ job' = job /\ Fail(t, id, f.then)
      BY <1>12 DEF StartFails, At, storeVars
    <2>2. g.pc = "failGet"
      <3>1. f.then \in {"none", "free", "drop"}
        BY <1>2 DEF Frame
      <3> QED
        BY <1>1, <1>p, <2>1, <3>1, Goes
    <2>3. TaskLife(t, id)'
      BY <1>3, <2>1, <2>2 DEF TaskLife, Launched
    <2> QED
      BY <1>r, <2>1, <2>3
  <1>13. CASE StartReread(t, id)
    <2>1. f.pc = "reread" /\ rec' = rec /\ job' = job
      BY <1>13 DEF StartReread, At, storeVars
    <2>2. g.pc = "idle" \/ (g.pc = "persist" /\ g.row = r)
      <3>1. CASE Set(t, id, [task[t][id] EXCEPT !.pc = "persist", !.row = rec[id]])
        <4>1. PICK h : h = [task[t][id] EXCEPT !.pc = "persist", !.row = rec[id]]
          OBVIOUS
        <4>2. h.pc = "persist" /\ h.row = r /\ Set(t, id, h)
          BY <1>2, <3>1, <4>1 DEF Frame
        <4> QED
          BY <1>1, <4>2, SetTask
      <3> QED
        BY <1>1, <1>13, <1>p, <3>1, Goes DEF StartReread
    <2>3. TaskLife(t, id)'
      BY <2>1, <2>2 DEF TaskLife, Copies
    <2> QED
      BY <1>r, <2>1, <2>3
  <1>14. CASE StartPersist(t, id)
    <2>1. f.pc = "persist" /\ job' = job /\ g.pc = "idle" /\ q = [f.row EXCEPT !.pid = f.h]
      BY <1>1, <1>14, <1>p, Goes, Typed DEF StartPersist, At, Update
    <2>2. f.row.state = "downloading" /\ Copies(f.row, r) /\ f.row \in Row
      BY <1>1, <1>2, <2>1 DEF HandoverInv, TaskCopies, TaskLife, At, Frame
    <2>3. q.state = "downloading" /\ Copies(q, r)
      BY <2>1, <2>2 DEF Copies, Row
    <2>4. RowLife(id)' /\ Edge(r, q)
      BY <1>1, <1>3, <1>6, <2>1, <2>3, RowStays DEF Launched
    <2>5. TaskLife(t, id)'
      BY <2>1 DEF TaskLife
    <2> QED
      BY <1>w, <2>1, <2>4, <2>5
  <1> QED
    BY <1>7, <1>8, <1>9, <1>10, <1>11, <1>12, <1>13, <1>14

\* Following a transfer.
LEMMA PollLives ==
  ASSUME NEW id \in Ids, NEW t \in Ticks, Before(t, id),
         \/ PollBegin(t, id) \/ PollStatus(t, id) \/ PollProgress(t, id)
         \/ PollComplete(t, id) \/ PollFilePath(t, id) \/ PollAnnounce(t, id)
  PROVE  LivesOn(id)
  <1> DEFINE f == task[t][id]
  <1> DEFINE g == task'[t][id]
  <1> DEFINE r == rec[id]
  <1> DEFINE q == rec'[id]
  <1>1. /\ OneTick /\ TypeInv /\ TypeInv' /\ HandoverInv /\ Alone(id) /\ Life(id)
        /\ can'[id].pc = "idle" /\ imp' = imp /\ RowLife(id) /\ TaskLife(t, id)
    BY DEF Before, Life
  <1>2. f \in Frame /\ r \in Row
    BY <1>1, Typed
  <1>3. /\ f.pc \in {"poll", "status", "progress", "complete"} => r.state = "downloading"
        /\ f.pc \in {"filePath", "announce"} => r.state = "importPending"
    BY <1>1, Position DEF Launched
  <1>5. res' = res /\ job' = job
    BY DEF PollBegin, PollStatus, PollProgress, PollComplete, PollFilePath, PollAnnounce,
           storeVars, tickVars
  <1>6. Started(id)' = Started(id)
    BY <1>5 DEF Started
  <1>p. \A pc \in {"idle", "status", "complete", "filePath", "announce", "exit", "failGet"} : pc \in Pcs
    BY DEF Pcs
  <1>w. ASSUME f.pc \notin {"idle", "exit"}, RowLife(id)', TaskLife(t, id)', Edge(r, q)
        PROVE  LivesOn(id)
    BY <1>1, <1>5, <1>w, WorkLives DEF At
  <1>r. ASSUME f.pc \notin {"idle", "exit"}, rec' = rec, Started(id)' = Started(id), TaskLife(t, id)'
        PROVE  LivesOn(id)
    BY <1>5, <1>r, ReadingLives DEF At
  <1>7. CASE PollBegin(t, id)
    <2>1. f.pc = "poll" /\ rec' = rec
      BY <1>7 DEF PollBegin, At, storeVars
    <2>2. g.pc \in {"idle", "status", "failGet"}
      BY <1>1, <1>7, <1>p, Goes DEF PollBegin
    <2>3. TaskLife(t, id)'
      BY <1>3, <2>1, <2>2 DEF TaskLife
    <2> QED
      BY <1>6, <1>r, <2>1, <2>3
  <1>8. CASE PollStatus(t, id)
    <2>1. f.pc = "status" /\ rec' = rec
      BY <1>8 DEF PollStatus, At, storeVars
    <2>2. g.pc \in {"idle", "progress"}
      <3>1. PICK h : h = [task[t][id] EXCEPT !.pc = "progress", !.st = job[id][task[t][id].h].st]
        OBVIOUS
      <3>2. h.pc = "progress"
        BY <1>2, <3>1 DEF Frame
      <3>3. Set(t, id, h) \/ Set(t, id, Idle)
        BY <1>8, <3>1 DEF PollStatus
      <3> QED
        BY <1>1, <1>p, <3>2, <3>3, SetTask, Goes
    <2>3. TaskLife(t, id)'
      BY <2>2 DEF TaskLife
    <2> QED
      BY <1>6, <1>r, <2>1, <2>3
  <1>9. CASE PollProgress(t, id)
    <2>1. f.pc = "progress" /\ rec' = [rec EXCEPT ![id].state = "downloading"]
      BY <1>9 DEF PollProgress, At, UpdateProgress
    <2>2. q.state = "downloading" /\ Copies(q, r)
      BY <1>1, <2>1, StateWritten
    <2>3. g.pc \in {"idle", "complete", "failGet", "exit"}
      BY <1>1, <1>9, <1>p, Goes DEF PollProgress
    <2>4. RowLife(id)' /\ Edge(r, q)
      BY <1>1, <1>3, <1>6, <2>1, <2>2, RowStays
    <2>5. TaskLife(t, id)'
      BY <2>2, <2>3 DEF TaskLife
    <2> QED
      BY <1>w, <2>1, <2>4, <2>5
  <1>10. CASE PollComplete(t, id)
    <2>1. f.pc = "complete" /\ r.state = "downloading"
      BY <1>3, <1>10 DEF PollComplete, At
    <2>2. PICK pc \in {"filePath", "announce"} :
            Go(t, id, pc) /\ rec' = [rec EXCEPT ![id].state = "importPending"]
      BY <1>10, <2>1 DEF PollComplete, TransitionState, Matches
    <2>3. q.state = "importPending" /\ Copies(q, r)
      BY <1>1, <2>2, StateWritten
    <2>4. g.pc \in {"filePath", "announce"}
      BY <1>1, <1>p, <2>2, Goes
    <2>5. RowLife(id)'
      BY <1>1, <1>6, <2>3, RowMoves
    <2>6. Edge(r, q)
      BY <2>1, <2>3 DEF Edge, Copies
    <2>7. TaskLife(t, id)'
      BY <2>4 DEF TaskLife
    <2> QED
      BY <1>w, <2>1, <2>5, <2>6, <2>7
  <1>11. CASE PollFilePath(t, id)
    <2>1. f.pc = "filePath" /\ rec' = [rec EXCEPT ![id].state = "importPending"] /\ Go(t, id, "announce")
      BY <1>11 DEF PollFilePath, At, UpdateProgress
    <2>2. q.state = "importPending" /\ Copies(q, r)
      BY <1>1, <2>1, StateWritten
    <2>3. g.pc = "announce"
      BY <1>1, <1>p, <2>1, Goes
    <2>4. RowLife(id)' /\ Edge(r, q)
      BY <1>1, <1>3, <1>6, <2>1, <2>2, RowStays
    <2>5. TaskLife(t, id)'
      BY <2>3 DEF TaskLife
    <2> QED
      BY <1>w, <2>1, <2>4, <2>5
  <1>12. CASE PollAnnounce(t, id)
    <2>1. f.pc = "announce" /\ rec' = rec /\ g.pc = "exit"
      BY <1>1, <1>12, <1>p, Goes DEF PollAnnounce, At
    <2>2. TaskLife(t, id)'
      BY <2>1 DEF TaskLife
    <2> QED
      BY <1>6, <1>r, <2>1, <2>2
  <1> QED
    BY <1>7, <1>8, <1>9, <1>10, <1>11, <1>12

\* checkCancellations finds nothing to do; failRecord fails what is downloading.
LEMMA FailLives ==
  ASSUME NEW id \in Ids, NEW t \in Ticks, Before(t, id),
         \/ CheckGet(t, id) \/ CheckAbort(t, id) \/ FailGet(t, id)
         \/ FailCas(t, id) \/ FailReget(t, id) \/ FailWrite(t, id)
  PROVE  LivesOn(id)
  <1> DEFINE f == task[t][id]
  <1> DEFINE g == task'[t][id]
  <1> DEFINE r == rec[id]
  <1> DEFINE q == rec'[id]
  <1>1. /\ OneTick /\ TypeInv /\ TypeInv' /\ HandoverInv /\ Alone(id) /\ Life(id)
        /\ can'[id].pc = "idle" /\ imp' = imp /\ RowLife(id) /\ TaskLife(t, id)
    BY DEF Before, Life
  <1>2. f \in Frame /\ r \in Row
    BY <1>1, Typed
  <1>3. /\ f.pc = "listed" /\ In(t, "check") => r.state = "downloading"
        /\ f.pc \in {"failGet", "failCas"} => r.state = "downloading"
        /\ f.pc \in {"failReget", "failWrite"} => r.state = "failed"
    BY <1>1, Position DEF In
  <1>4. ~CheckAbort(t, id)
    BY <1>1 DEF CheckAbort, At, TaskLife
  <1>5. res' = res /\ job' = job
    BY <1>4 DEF CheckGet, FailGet, FailCas, FailReget, FailWrite, storeVars, tickVars
  <1>6. Started(id)' = Started(id)
    BY <1>5 DEF Started
  <1>p. \A pc \in {"idle", "exit", "failCas", "failReget", "failWrite"} : pc \in Pcs
    BY DEF Pcs
  <1>w. ASSUME f.pc \notin {"idle", "exit"}, RowLife(id)', TaskLife(t, id)', Edge(r, q)
        PROVE  LivesOn(id)
    BY <1>1, <1>5, <1>w, WorkLives DEF At
  <1>r. ASSUME f.pc \notin {"idle", "exit"}, rec' = rec, Started(id)' = Started(id), TaskLife(t, id)'
        PROVE  LivesOn(id)
    BY <1>5, <1>r, ReadingLives DEF At
  <1>7. CASE CheckGet(t, id)
    <2>1. f.pc = "listed" /\ In(t, "check") /\ rec' = rec
      BY <1>7 DEF CheckGet, Take, At, storeVars
    <2>2. g.pc = "idle"
      BY <1>1, <1>3, <1>7, <1>p, <2>1, Goes DEF CheckGet
    <2>3. TaskLife(t, id)'
      BY <2>2 DEF TaskLife
    <2> QED
      BY <1>6, <1>r, <2>1, <2>3
  <1>8. CASE FailGet(t, id)
    <2>1. f.pc = "failGet" /\ rec' = rec /\ r.state = "downloading"
      BY <1>3, <1>8 DEF FailGet, At, storeVars
    <2>2. PICK h : h = [task[t][id] EXCEPT !.pc = "failCas", !.row = rec[id]]
      OBVIOUS
    <2>3. h.pc = "failCas" /\ h.row = r
      BY <1>2, <2>2 DEF Frame
    <2>4. Set(t, id, h)
      BY <1>8, <2>1, <2>2 DEF FailGet, Terminal
    <2>5. TaskLife(t, id)'
      BY <1>1, <2>1, <2>3, <2>4, SetTask DEF TaskLife
    <2> QED
      BY <1>6, <1>r, <2>1, <2>5
  <1>9. CASE FailCas(t, id)
    <2>1. f.pc = "failCas" /\ r.state = "downloading" /\ f.row.state = "downloading"
      BY <1>1, <1>3, <1>9 DEF FailCas, At, TaskLife
    <2>2. rec' = [rec EXCEPT ![id].state = "failed"] /\ Go(t, id, "failReget")
      BY <1>9, <2>1 DEF FailCas, TransitionState, Matches
    <2>3. q.state = "failed" /\ Copies(q, r)
      BY <1>1, <2>2, StateWritten
    <2>4. g.pc = "failReget"
      BY <1>1, <1>p, <2>2, Goes
    <2>5. RowLife(id)'
      BY <1>1, <1>6, <2>3, RowMoves
    <2>6. Edge(r, q)
      BY <2>1, <2>3 DEF Edge, Copies
    <2>7. TaskLife(t, id)'
      BY <2>4 DEF TaskLife
    <2> QED
      BY <1>w, <2>1, <2>5, <2>6, <2>7
  <1>10. CASE FailReget(t, id)
    <2>1. f.pc = "failReget" /\ rec' = rec
      BY <1>10 DEF FailReget, At, storeVars
    <2>2. PICK x : x = [rec[id] EXCEPT !.state = "failed"]
      OBVIOUS
    <2>3. Copies(x, r)
      BY <1>2, <2>2 DEF Copies, Row
    <2>4. PICK h : h = [task[t][id] EXCEPT !.pc = "failWrite", !.row = x]
      OBVIOUS
    <2>5. h.pc = "failWrite" /\ h.row = x
      BY <1>2, <2>4 DEF Frame
    <2>6. Set(t, id, h)
      BY <1>10, <2>2, <2>4 DEF FailReget
    <2>7. TaskLife(t, id)'
      BY <1>1, <2>1, <2>3, <2>5, <2>6, SetTask DEF TaskLife
    <2> QED
      BY <1>6, <1>r, <2>1, <2>7
  <1>11. CASE FailWrite(t, id)
    <2>1. f.pc = "failWrite" /\ q = f.row
      BY <1>1, <1>11, Typed DEF FailWrite, At, Update
    <2>2. q.state = "failed" /\ Copies(q, r)
      BY <1>1, <2>1 DEF HandoverInv, TaskCopies, TaskLife, At
    <2>3. g.pc = "exit"
      BY <1>1, <1>11, <1>p, Goes DEF FailWrite
    <2>4. RowLife(id)' /\ Edge(r, q)
      BY <1>1, <1>3, <1>6, <2>1, <2>2, RowStays
    <2>5. TaskLife(t, id)'
      BY <2>3 DEF TaskLife
    <2> QED
      BY <1>w, <2>1, <2>4, <2>5
  <1> QED
    BY <1>4, <1>7, <1>8, <1>9, <1>10, <1>11

\* scanRetry counts the attempt it is about to allow.
LEMMA ScanLives ==
  ASSUME NEW id \in Ids, NEW t \in Ticks, Before(t, id), ScanSearch(t, id) \/ ScanWrite(t, id)
  PROVE  LivesOn(id)
  <1> DEFINE f == task[t][id]
  <1> DEFINE g == task'[t][id]
  <1> DEFINE r == rec[id]
  <1> DEFINE q == rec'[id]
  <1>1. /\ OneTick /\ TypeInv /\ TypeInv' /\ HandoverInv /\ Alone(id) /\ Life(id)
        /\ can'[id].pc = "idle" /\ imp' = imp /\ RowLife(id) /\ TaskLife(t, id)
    BY DEF Before, Life
  <1>2. f \in Frame /\ r \in Row
    BY <1>1, Typed
  <1>3. (f.pc = "listed" /\ In(t, "retry")) \/ f.pc = "write" => r.state \in Retryable
    BY <1>1, Position DEF In
  <1>5. res' = res /\ job' = job
    BY DEF ScanSearch, ScanWrite, storeVars, tickVars
  <1>6. Started(id)' = Started(id) /\ Started(id) \in Nat
    BY <1>5, StartedNat DEF Started
  <1>p. "idle" \in Pcs
    BY DEF Pcs
  <1>w. ASSUME f.pc \notin {"idle", "exit"}, RowLife(id)', TaskLife(t, id)', Edge(r, q)
        PROVE  LivesOn(id)
    BY <1>1, <1>5, <1>w, WorkLives DEF At
  <1>r. ASSUME f.pc \notin {"idle", "exit"}, rec' = rec, Started(id)' = Started(id), TaskLife(t, id)'
        PROVE  LivesOn(id)
    BY <1>5, <1>r, ReadingLives DEF At
  <1>7. CASE ScanSearch(t, id)
    <2>1. f.pc = "listed" /\ In(t, "retry") /\ rec' = rec
      BY <1>7 DEF ScanSearch, Take, At, storeVars
    <2>2. Copies(f.row, r) /\ f.row \in Row
      BY <1>1, <1>2, <2>1 DEF TaskLife, Frame
    <2>3. CASE Set(t, id, Idle)
      <3>1. g.pc = "idle"
        BY <1>1, <1>p, <2>3, Goes
      <3>2. TaskLife(t, id)'
        BY <3>1 DEF TaskLife
      <3> QED
        BY <1>6, <1>r, <2>1, <3>2
    <2>4. CASE ~Set(t, id, Idle)
      <3>1. PICK found \in Resolved(f.row) :
              Set(t, id, [task[t][id] EXCEPT
                            !.pc = "write",
                            !.row = [found EXCEPT !.state = "queued",
                                                  !.tries = found.tries + 1,
                                                  !.wait = TRUE]])
        BY <1>7, <2>4 DEF ScanSearch
      <3>2. found \in Row /\ found.tries = r.tries /\ (IsPendingSource(found) => IsPendingSource(r))
        <4>1. CASE found = f.row
          BY <2>2, <4>1 DEF Copies, IsPendingSource
        <4>2. CASE found # f.row
          <5>1. PICK p \in Providers \ {Client} : found = WithSource(f.row, p)
            BY <3>1, <4>2 DEF Resolved
          <5>2. found \in Row
            BY <2>2, <5>1, WithSourceTyped
          <5>3. found.via = p /\ found.file /\ found.tries = f.row.tries
            BY <2>2, <5>1 DEF WithSource, Row
          <5> QED
            BY <2>2, <5>2, <5>3, StoreAssumption DEF Copies, IsPendingSource
        <4> QED
          BY <4>1, <4>2
      <3>3. PICK x : x = [found EXCEPT !.state = "queued", !.tries = found.tries + 1, !.wait = TRUE]
        OBVIOUS
      <3>4. x.tries = found.tries + 1 /\ x.via = found.via /\ x.file = found.file
        BY <3>2, <3>3 DEF Row
      <3>5. x.tries = r.tries + 1 /\ (IsPendingSource(x) => IsPendingSource(r))
        BY <3>2, <3>4 DEF IsPendingSource
      <3>6. PICK h : h = [task[t][id] EXCEPT !.pc = "write", !.row = x]
        OBVIOUS
      <3>7. h.pc = "write" /\ h.row = x
        BY <1>2, <3>6 DEF Frame
      <3>8. Set(t, id, h)
        BY <3>1, <3>3, <3>6
      <3>9. TaskLife(t, id)'
        BY <1>1, <2>1, <3>5, <3>7, <3>8, SetTask DEF TaskLife
      <3> QED
        BY <1>6, <1>r, <2>1, <3>9
    <2> QED
      BY <2>3, <2>4
  <1>8. CASE ScanWrite(t, id)
    <2>1. f.pc = "write" /\ q = f.row
      BY <1>1, <1>8, Typed DEF ScanWrite, At, Update
    <2>2. q.state = "queued" /\ q.tries = r.tries + 1 /\ (IsPendingSource(q) => IsPendingSource(r))
      BY <1>1, <2>1 DEF HandoverInv, TaskCopies, TaskLife, At
    <2>3. r.tries \in Nat /\ r.tries < MaxRetries
      <3>1. q \in Row
        BY <1>2, <2>1 DEF Frame
      <3>2. r.tries \in 0..MaxRetries /\ q.tries \in 0..MaxRetries
        BY <1>2, <3>1 DEF Row
      <3> QED
        BY <2>2, <3>2, StoreAssumption
    <2>4. r.state \in Retryable
      BY <1>3, <2>1
    <2>5. g.pc = "idle"
      BY <1>1, <1>8, <1>p, Goes DEF ScanWrite
    <2>6. RowLife(id)'
      BY <1>1, <1>6, <2>2, <2>3 DEF RowLife
    <2>7. Edge(r, q)
      BY <2>2, <2>3, <2>4 DEF Edge
    <2>8. TaskLife(t, id)'
      BY <2>5 DEF TaskLife
    <2> QED
      BY <1>w, <2>1, <2>6, <2>7, <2>8
  <1> QED
    BY <1>7, <1>8

\* The end of a tick's work on a record.
LEMMA LeaveLives ==
  ASSUME NEW id \in Ids, NEW t \in Ticks, Before(t, id), Leave(t, id)
  PROVE  LivesOn(id)
  <1>1. UNCHANGED <<rec, job, res>> /\ task'[t][id].pc = "idle"
    BY Goes DEF Before, Leave, storeVars, tickVars, Pcs
  <1>2. \A s \in Ticks : s = t
    BY DEF Before, OneTick
  <1>3. RowLife(id)' /\ Edge(rec[id], rec'[id])
    BY <1>1, RowStays DEF Before, Life, Copies, Started
  <1>4. ResolverLife(id)' /\ \A w \in Workers : ImportLife(id, w)'
    BY <1>1 DEF Before, Life, ResolverLife, ImportLife, ImpAt
  <1>5. TaskLife(t, id)'
    BY <1>1 DEF TaskLife
  <1> QED
    BY <1>2, <1>3, <1>4, <1>5 DEF LivesOn, Life

----------------------------------------------------------------------------
(* A step of the whole: each record moves along an edge or stays, at most  *)
(* one of them moves, and the invariant is kept.                           *)

Advances ==
  /\ \A i \in Ids : LivesOn(i)
  /\ \E id \in Ids : \A i \in Ids : i # id => Stays(rec[i], rec'[i])

\* Rows that keep their state and their count.
LEMMA AdvanceStill ==
  ASSUME \A i \in Ids : LivesOn(i) /\ Stays(rec[i], rec'[i])
  PROVE  Advances
  BY StoreAssumption DEF Advances

\* What holds before any step.
Ready ==
  /\ OneTick /\ TypeInv /\ TypeInv' /\ HandoverInv /\ ExclusiveInv /\ LifeInv

LEMMA ReadyFor ==
  ASSUME Ready, NEW id \in Ids
  PROVE  Alone(id) /\ Life(id) /\ RowLife(id) /\ ResolverLife(id)
  BY ExclusiveParts DEF Ready, LifeInv, Life

\* A step of a tick for one id starts or cancels no other record's transfer.
LEMMA OtherTransfers ==
  ASSUME TypeInv, NEW id \in Ids, NEW t \in Ticks, TaskStep(t, id), TaskLife(t, id),
         NEW i \in Ids, i # id
  PROVE  job'[i] = job[i]
  <1>1. job \in [Ids -> [1..MaxStarts -> Job]]
    BY DEF TypeInv, TypeOK, StoreTypeOK
  <1>2. ~CheckAbort(t, id)
    BY DEF CheckAbort, At, TaskLife
  <1>3. CASE StartLaunch(t, id)
    <2>1. PICK n, j : SetJob(id, n, j)
      BY <1>3 DEF StartLaunch
    <2> QED
      BY <1>1, <2>1 DEF SetJob
  <1>4. CASE ~StartLaunch(t, id)
    <2>1. job' = job
      BY <1>2, <1>4 DEF TaskStep, SyncFail, StartPick, StartAcquire, StartCas, StartFails,
           StartReread, StartPersist, PollBegin, PollStatus, PollProgress, PollComplete,
           PollFilePath, PollAnnounce, CheckGet, FailGet, FailCas, FailReget, FailWrite,
           Leave, ScanSearch, ScanWrite, storeVars
    <2> QED
      BY <2>1
  <1> QED
    BY <1>3, <1>4

LEMMA TaskStepAdvances ==
  ASSUME Ready, NEW t \in Ticks, NEW id \in Ids, TaskStep(t, id), UNCHANGED <<imp, can>>
  PROVE  Advances
  <1>1. ASSUME NEW i \in Ids
        PROVE  Alone(i) /\ Life(i) /\ can'[i].pc = "idle"
    BY ReadyFor DEF RowLife
  <1>2. LivesOn(id)
    <2>1. Before(t, id)
      BY <1>1 DEF Before, Ready
    <2> QED
      BY <2>1, StartLives, PollLives, FailLives, ScanLives, LeaveLives DEF TaskStep
  <1>3. ASSUME NEW i \in Ids, i # id
        PROVE  LivesOn(i) /\ Stays(rec[i], rec'[i])
    <2>1. /\ rec'[i] = rec[i] /\ \A s \in Ticks : task'[s][i] = task[s][i]
          /\ tick' = tick /\ res' = res
      BY <1>3, OthersKept DEF Ready, tickVars
    <2>2. job'[i] = job[i]
      BY <1>1, <1>3, OtherTransfers DEF Ready, Life
    <2>3. Started(i)' = Started(i)
      BY <2>2 DEF Started
    <2>4. \A s \in Ticks : In(s, "retry")' => In(s, "retry")
      BY <2>1 DEF In
    <2>5. Copies(rec'[i], rec[i]) /\ Stays(rec[i], rec'[i])
      BY <2>1 DEF Copies, Stays
    <2> QED
      BY <1>1, <2>1, <2>3, <2>4, <2>5, UntouchedLives
  <1> QED
    BY <1>2, <1>3 DEF Advances

\* A tick that enters a phase, or leaves one.
LEMMA PhaseLives ==
  ASSUME OneTick, NEW id \in Ids, NEW t \in Ticks, Life(id),
         UNCHANGED <<rec, job, res, imp, can>>,
         task'[t][id].pc \in {"idle", "listed", "poll"},
         task'[t][id].pc = "listed" /\ In(t, "retry")' => task'[t][id].row = rec[id]
  PROVE  LivesOn(id) /\ Stays(rec[id], rec'[id])
  <1>1. Started(id)' = Started(id)
    BY DEF Started
  <1>2. RowLife(id)' /\ Edge(rec[id], rec'[id]) /\ Stays(rec[id], rec'[id])
    <2>1. can'[id].pc = "idle"
      BY DEF Life, RowLife
    <2> QED
      BY <1>1, <2>1, RowStays DEF Life, Copies, Stays
  <1>3. ResolverLife(id)' /\ \A w \in Workers : ImportLife(id, w)'
    BY DEF Life, ResolverLife, ImportLife, ImpAt
  <1>4. TaskLife(t, id)'
    BY DEF TaskLife, Copies
  <1>5. \A s \in Ticks : s = t
    BY DEF OneTick
  <1> QED
    BY <1>2, <1>3, <1>4, <1>5 DEF LivesOn, Life

LEMMA TickStepAdvances ==
  ASSUME Ready, NEW t \in Ticks, TickStep(t), UNCHANGED <<imp, can>>
  PROVE  Advances
  <1>1. UNCHANGED <<rec, job, res>>
    BY DEF TickStep, TickBegin, SyncList, SyncDrop, StartList, PollList, CheckList, RetryList,
           TickEnd, storeVars, tickVars
  <1>2. tick \in [Ticks -> Tick] /\ task \in [Ticks -> [Ids -> Frame]]
    BY DEF Ready, TypeInv, TypeOK, MonitorTypeOK
  <1>3. OneTick /\ \A s \in Ticks : s = t
    BY DEF Ready, OneTick
  <1>4. ASSUME NEW id \in Ids
        PROVE  LivesOn(id) /\ Stays(rec[id], rec'[id])
    <2>1. Life(id)
      BY ReadyFor
    <2>2. CASE TickBegin(t)
      <3>1. task' = task /\ tick'[t].phase = "sync"
        BY <1>2, <2>2 DEF TickBegin
      <3>2. \A s \in Ticks : ~In(s, "retry")'
        BY <1>3, <3>1 DEF In
      <3>3. can'[id].pc = "idle" /\ Started(id)' = Started(id)
        BY <1>1, <2>1 DEF Life, RowLife, Started
      <3>4. Copies(rec'[id], rec[id]) /\ Stays(rec[id], rec'[id])
        BY <1>1 DEF Copies, Stays
      <3> QED
        BY <1>1, <2>1, <3>1, <3>2, <3>3, <3>4, UntouchedLives
    <2>3. ASSUME task'[t][id].pc \in {"idle", "listed", "poll"},
                 task'[t][id].pc = "listed" /\ In(t, "retry")' => task'[t][id].row = rec[id]
          PROVE  LivesOn(id) /\ Stays(rec[id], rec'[id])
      BY <1>1, <1>3, <2>1, <2>3, PhaseLives
    <2>4. CASE (\E p \in Providers : SyncList(t, p)) \/ TickEnd(t)
      <3>1. task'[t][id].pc = "idle"
        BY <2>4 DEF SyncList, TickEnd, Quiet, At
      <3> QED
        BY <2>3, <3>1
    <2>5. CASE SyncDrop(t)
      <3>1. tick'[t].phase = "sync"
        BY <1>2, <2>5 DEF SyncDrop, Tick
      <3>2. \/ task'[t][id] = Idle
            \/ task'[t][id] = [Idle EXCEPT !.pc = "listed", !.then = "free",
                                           !.via = tick[t].via, !.h = active[id].h]
        BY <1>2, <2>5 DEF SyncDrop
      <3>3. PICK g : g = [Idle EXCEPT !.pc = "listed", !.then = "free",
                                      !.via = tick[t].via, !.h = active[id].h]
        OBVIOUS
      <3>4. g.pc = "listed" /\ Idle.pc = "idle"
        BY <3>3 DEF Idle
      <3>5. task'[t][id].pc \in {"idle", "listed"}
        BY <3>2, <3>3, <3>4
      <3> QED
        BY <2>3, <3>1, <3>5 DEF In
    <2>6. CASE PollList(t) \/ CheckList(t)
      <3>1. PICK pc \in {"poll", "listed"}, phase \in {"poll", "check"} : Enter(t, phase, Snapshot(pc))
        BY <2>6 DEF PollList, CheckList
      <3>2. tick'[t].phase = phase
        BY <1>2, <3>1 DEF Enter, Tick
      <3>3. task'[t][id] = Snapshot(pc)[id]
        BY <1>2, <3>1 DEF Enter
      <3>4. task'[t][id].pc \in {"idle", "listed", "poll"}
        BY <3>3 DEF Snapshot, Idle
      <3> QED
        BY <2>3, <3>2, <3>4 DEF In
    <2>7. CASE StartList(t)
      <3>1. tick'[t].phase = "start"
        BY <1>2, <2>7 DEF StartList, Enter, Tick
      <3>2. task'[t][id] = Idle \/ task'[t][id] = [Idle EXCEPT !.pc = "listed"]
        BY <1>2, <2>7 DEF StartList, Enter
      <3>3. task'[t][id].pc \in {"idle", "listed"}
        BY <3>2 DEF Idle
      <3> QED
        BY <2>3, <3>1, <3>3 DEF In
    <2>8. CASE RetryList(t)
      <3>1. task'[t][id] = Idle \/ task'[t][id] = [Idle EXCEPT !.pc = "listed", !.row = rec[id]]
        BY <1>2, <2>8 DEF RetryList, Enter
      <3>2. PICK g : g = [Idle EXCEPT !.pc = "listed", !.row = rec[id]]
        OBVIOUS
      <3>3. g.pc = "listed" /\ g.row = rec[id] /\ Idle.pc = "idle"
        BY <3>2 DEF Idle
      <3>4. \/ task'[t][id].pc = "idle"
            \/ task'[t][id].pc = "listed" /\ task'[t][id].row = rec[id]
        BY <3>1, <3>2, <3>3
      <3> QED
        BY <2>3, <3>4
    <2> QED
      BY <2>2, <2>4, <2>5, <2>6, <2>7, <2>8 DEF TickStep
  <1> QED
    BY <1>4, AdvanceStill

----------------------------------------------------------------------------
(* The resolver, recovery and the passing of time.                         *)

\* A record that nothing but the resolver, recovery or a user works on.
LEMMA QuietLives ==
  ASSUME NEW id \in Ids, \A t \in Ticks : At(t, id, "idle"), ~Busy(id),
         UNCHANGED <<imp, task>>, RowLife(id)', ResolverLife(id)', Edge(rec[id], rec'[id])
  PROVE  LivesOn(id)
  <1>1. \A t \in Ticks : TaskLife(t, id)'
    BY DEF TaskLife, At
  <1>2. \A w \in Workers : ImportLife(id, w)'
    BY DEF ImportLife, Busy, ImpAt, Chain
  <1> QED
    BY <1>1, <1>2 DEF LivesOn, Life

LEMMA UnmovedLives ==
  ASSUME NEW id \in Ids, Life(id), UNCHANGED <<task, tick, imp, can>>,
         rec'[id] = rec[id], job'[id] = job[id], res'[id] = res[id]
  PROVE  LivesOn(id) /\ Stays(rec[id], rec'[id])
  <1>1. can'[id].pc = "idle" /\ Started(id)' = Started(id)
    BY DEF Life, RowLife, Started
  <1>2. Copies(rec'[id], rec[id]) /\ Stays(rec[id], rec'[id])
    BY DEF Copies, Stays
  <1>3. \A t \in Ticks : In(t, "retry")' => In(t, "retry")
    BY DEF In
  <1> QED
    BY <1>1, <1>2, <1>3, UntouchedLives

\* What the resolver has read, only it works on.
LEMMA ResolverHolds ==
  ASSUME Ready, NEW id \in Ids, res[id].pc # "idle"
  PROVE  /\ \A t \in Ticks : At(t, id, "idle")
         /\ ~Busy(id) /\ rec[id].state = "queued" /\ IsPendingSource(rec[id])
  <1>1. Alone(id) /\ RowLife(id)
    BY ReadyFor
  <1>2. ASSUME NEW t \in Ticks PROVE At(t, id, "idle")
    BY <1>1 DEF Alone, TaskAlone
  <1> QED
    BY <1>1, <1>2 DEF Alone, ResolverAlone, RowLife

LEMMA ResolverStepAdvances ==
  ASSUME Ready, ResolverStep, UNCHANGED <<imp, can>>
  PROVE  Advances
  <1>1. UNCHANGED <<job, task, tick>>
    BY DEF ResolverStep, ResolveList, ResolveEnd, ResolveSearch, ResolveWrite, storeVars
  <1>2. rec \in [Ids -> Row] /\ res \in [Ids -> ResFrame]
    BY Typed DEF Ready
  <1>3. ASSUME NEW id \in Ids
        PROVE  Life(id) /\ RowLife(id) /\ ResolverLife(id) /\ rec[id] \in Row /\ res[id] \in ResFrame
    BY <1>2, ReadyFor
  <1>4. ASSUME NEW id \in Ids, rec'[id] = rec[id], res'[id] = res[id]
        PROVE  LivesOn(id) /\ Stays(rec[id], rec'[id])
    BY <1>1, <1>3, <1>4, UnmovedLives
  <1>5. ASSUME NEW id \in Ids, rec'[id] = rec[id], ResolverLife(id)'
        PROVE  LivesOn(id) /\ Stays(rec[id], rec'[id])
    <2>1. RowLife(id)' /\ Edge(rec[id], rec'[id]) /\ Stays(rec[id], rec'[id])
      BY <1>1, <1>3, <1>5, RowStays DEF RowLife, Copies, Stays, Started
    <2>2. \A w \in Workers : ImportLife(id, w)'
      BY <1>3, <1>5 DEF Life, ImportLife, ImpAt
    <2>3. ASSUME NEW t \in Ticks PROVE TaskLife(t, id)'
      <3>1. TaskLife(t, id)
        BY <1>3 DEF Life
      <3>2. Started(id)' = Started(id)
        BY <1>1 DEF Started
      <3> QED
        BY <1>1, <1>5, <3>1, <3>2 DEF TaskLife, In
    <2> QED
      BY <1>5, <2>1, <2>2, <2>3 DEF LivesOn, Life
  <1>6. CASE ResolveList
    <2>1. ASSUME NEW id \in Ids
          PROVE  rec'[id] = rec[id] /\ ResolverLife(id)'
      <3>1. rec' = rec
        BY <1>6 DEF ResolveList, storeVars
      <3>2. \/ res'[id] = NoRes
            \/ rec[id].state = "queued" /\ res'[id] = [pc |-> "listed", row |-> rec[id]]
        BY <1>6 DEF ResolveList
      <3>3. \/ res'[id].pc = "idle"
            \/ rec[id].state = "queued" /\ res'[id].pc = "listed" /\ res'[id].row = rec[id]
        BY <3>2 DEF NoRes
      <3> QED
        BY <3>1, <3>3 DEF ResolverLife, Copies
    <2> QED
      BY <1>5, <2>1, AdvanceStill
  <1>7. CASE ResolveEnd
    <2>1. rec' = rec /\ res' = res
      BY <1>7 DEF ResolveEnd, storeVars
    <2> QED
      BY <1>4, <2>1, AdvanceStill
  <1>8. ASSUME NEW id \in Ids, ResolveSearch(id)
        PROVE  Advances
    <2>1. rec' = rec /\ res[id].pc = "listed"
      BY <1>8 DEF ResolveSearch, storeVars
    <2>2. PICK x : x = res[id].row
      OBVIOUS
    <2>3. x \in Row /\ Copies(x, rec[id]) /\ x.state = "queued"
      BY <1>3, <2>1, <2>2 DEF ResolverLife, ResFrame
    <2>4. PICK y : /\ res' = [res EXCEPT ![id] = [pc |-> "write", row |-> y]]
                   /\ \/ \E p \in Providers \ {Client} : y = WithSource(x, p)
                      \/ y = [x EXCEPT !.state = "failedPending", !.tries = 1, !.wait = TRUE]
      <3>1. CASE \E p \in Providers \ {Client} :
                   res' = [res EXCEPT ![id] = [pc |-> "write", row |-> WithSource(@.row, p)]]
        <4>1. PICK p \in Providers \ {Client} :
                res' = [res EXCEPT ![id] = [pc |-> "write", row |-> WithSource(res[id].row, p)]]
          BY <1>2, <3>1
        <4>2. PICK y : y = WithSource(x, p)
          OBVIOUS
        <4> QED
          BY <2>2, <4>1, <4>2
      <3>2. CASE ~\E p \in Providers \ {Client} :
                   res' = [res EXCEPT ![id] = [pc |-> "write", row |-> WithSource(@.row, p)]]
        <4>1. res' = [res EXCEPT ![id] =
                        [pc |-> "write", row |-> [res[id].row EXCEPT !.state = "failedPending",
                                                                     !.tries = 1, !.wait = TRUE]]]
          BY <1>2, <1>8, <3>2 DEF ResolveSearch
        <4>2. PICK y : y = [x EXCEPT !.state = "failedPending", !.tries = 1, !.wait = TRUE]
          OBVIOUS
        <4> QED
          BY <2>2, <4>1, <4>2
      <3> QED
        BY <3>1, <3>2
    <2>5. \/ y.state = "queued" /\ y.tries = rec[id].tries /\ ~IsPendingSource(y)
          \/ y.state = "failedPending" /\ y.tries = 1
      <3>1. CASE \E p \in Providers \ {Client} : y = WithSource(x, p)
        <4>1. PICK p \in Providers \ {Client} : y = WithSource(x, p)
          BY <3>1
        <4>2. y.state = x.state /\ y.tries = x.tries /\ y.via = p /\ y.file
          BY <2>3, <4>1 DEF WithSource, Row
        <4> QED
          BY <2>3, <4>2, StoreAssumption DEF IsPendingSource, Copies
      <3>2. CASE y = [x EXCEPT !.state = "failedPending", !.tries = 1, !.wait = TRUE]
        BY <2>3, <3>2 DEF Row
      <3> QED
        BY <2>4, <3>1, <3>2
    <2>6. res'[id] = [pc |-> "write", row |-> y] /\ \A i \in Ids : i # id => res'[i] = res[i]
      BY <1>2, <2>4
    <2>7. ResolverLife(id)'
      BY <2>1, <2>5, <2>6 DEF ResolverLife
    <2>8. \A i \in Ids : rec'[i] = rec[i]
      BY <2>1
    <2> QED
      BY <1>4, <1>5, <2>6, <2>7, <2>8, AdvanceStill
  <1>9. ASSUME NEW id \in Ids, ResolveWrite(id)
        PROVE  Advances
    <2>1. /\ res[id].pc = "write" /\ rec'[id] = res[id].row /\ res'[id] = NoRes
          /\ \A i \in Ids : i # id => rec'[i] = rec[i] /\ res'[i] = res[i]
      BY <1>2, <1>9 DEF ResolveWrite, Update
    <2>2. /\ \A t \in Ticks : At(t, id, "idle")
          /\ ~Busy(id) /\ rec[id].state = "queued" /\ IsPendingSource(rec[id])
      BY <2>1, ResolverHolds
    <2>3. \/ /\ rec'[id].state = "queued" /\ rec'[id].tries = rec[id].tries
             /\ ~IsPendingSource(rec'[id])
          \/ rec'[id].state = "failedPending" /\ rec'[id].tries = 1
      BY <1>3, <2>1 DEF ResolverLife
    <2>4. Started(id)' = 0 /\ Started(id) = 0 /\ can'[id].pc = "idle" /\ rec[id].tries \in Nat
      <3>1. Started(id) = 0 /\ can'[id].pc = "idle"
        BY <1>3, <2>2 DEF RowLife
      <3>2. Started(id)' = Started(id)
        BY <1>1 DEF Started
      <3>3. rec[id].tries \in Nat
        BY <1>3, StoreAssumption DEF Row
      <3> QED
        BY <3>1, <3>2, <3>3
    <2>5. RowLife(id)'
      BY <2>3, <2>4 DEF RowLife
    <2>6. Edge(rec[id], rec'[id])
      BY <2>2, <2>3 DEF Edge, Stays
    <2>7. ResolverLife(id)'
      BY <2>1 DEF ResolverLife, NoRes
    <2>8. LivesOn(id)
      BY <1>1, <2>2, <2>5, <2>6, <2>7, QuietLives
    <2> QED
      BY <1>4, <2>1, <2>8 DEF Advances
  <1> QED
    BY <1>6, <1>7, <1>8, <1>9 DEF ResolverStep

LEMMA BootStepAdvances ==
  ASSUME Ready, BootStep, UNCHANGED <<imp, can>>
  PROVE  Advances
  <1>1. UNCHANGED <<job, task, tick, res>> /\ ~up
    BY DEF BootStep, Start, Recover, Revisit, storeVars
  <1>2. rec \in [Ids -> Row]
    BY Typed DEF Ready
  <1>3. ASSUME NEW id \in Ids, rec'[id] = rec[id]
        PROVE  LivesOn(id) /\ Stays(rec[id], rec'[id])
    BY <1>1, <1>3, ReadyFor, UnmovedLives
  <1>4. CASE Start
    BY <1>3, <1>4, AdvanceStill DEF Start, storeVars
  <1>5. ASSUME NEW id \in Ids, Recover(id)
        PROVE  Advances
    <2>1. CASE rec' = rec
      BY <1>3, <2>1, AdvanceStill
    <2>2. CASE rec' # rec
      <3>1. id \in boot /\ rec[id].state \in {"downloading", "importing"}
            /\ rec' = [rec EXCEPT ![id].state = "failed"]
        BY <1>5, <2>2 DEF Recover, Revisit, UpdateProgress
      <3>2. rec'[id].state = "failed" /\ Copies(rec'[id], rec[id])
        BY <3>1, StateWritten DEF Ready
      <3>3. \A i \in Ids : i # id => rec'[i] = rec[i]
        BY <1>2, <3>1
      <3>4. ~Busy(id) /\ res[id].pc = "idle" /\ \A t \in Ticks : At(t, id, "idle")
        BY <1>1, <3>1 DEF Ready, ExclusiveInv, BootAlone, Quiet
      <3>5. RowLife(id) /\ can'[id].pc = "idle" /\ Started(id)' = Started(id)
        BY <1>1, ReadyFor DEF RowLife, Started
      <3>6. RowLife(id)'
        BY <3>2, <3>5, RowMoves
      <3>7. Edge(rec[id], rec'[id])
        BY <3>1, <3>2 DEF Edge, Copies
      <3>8. ResolverLife(id)'
        BY <1>1, <3>4 DEF ResolverLife
      <3>9. LivesOn(id)
        BY <1>1, <3>4, <3>6, <3>7, <3>8, QuietLives
      <3> QED
        BY <1>3, <3>3, <3>9 DEF Advances
    <2> QED
      BY <2>1, <2>2
  <1> QED
    BY <1>4, <1>5 DEF BootStep

LEMMA TimeStepAdvances ==
  ASSUME Ready, TimeStep, UNCHANGED <<imp, can>>
  PROVE  Advances
  <1>1. UNCHANGED <<job, task, tick, res>>
    BY DEF TimeStep, BackoffElapses, DeadlinePasses, storeVars, monitorVars, tickVars
  <1>2. rec \in [Ids -> Row]
    BY Typed DEF Ready
  <1>3. PICK i \in Ids : BackoffElapses(i) \/ DeadlinePasses(i)
    BY DEF TimeStep
  <1>4. ASSUME NEW id \in Ids
        PROVE  rec'[id].state = rec[id].state /\ Copies(rec'[id], rec[id])
    <2>1. CASE DeadlinePasses(i) \/ i # id
      <3>1. rec'[id] = rec[id]
        BY <1>2, <1>3, <2>1 DEF BackoffElapses, DeadlinePasses, storeVars
      <3> QED
        BY <3>1 DEF Copies
    <2>2. CASE BackoffElapses(i) /\ i = id
      <3>1. PICK r \in Row : r = rec[id]
        BY <1>2
      <3>2. rec'[id] = [r EXCEPT !.wait = FALSE]
        BY <1>2, <2>2, <3>1 DEF BackoffElapses
      <3>3. PICK q : q = [r EXCEPT !.wait = FALSE]
        OBVIOUS
      <3>4. q.state = r.state /\ q.via = r.via /\ q.file = r.file /\ q.tries = r.tries
        BY <3>1, <3>3 DEF Row
      <3> QED
        BY <3>1, <3>2, <3>3, <3>4 DEF Copies
    <2> QED
      BY <1>3, <2>1, <2>2
  <1>5. ASSUME NEW id \in Ids
        PROVE  LivesOn(id) /\ Stays(rec[id], rec'[id])
    <2>1. Life(id) /\ can'[id].pc = "idle" /\ Started(id)' = Started(id)
      BY <1>1, ReadyFor DEF RowLife, Started
    <2>2. \A t \in Ticks : In(t, "retry")' => In(t, "retry")
      BY <1>1 DEF In
    <2>3. Stays(rec[id], rec'[id])
      BY <1>4 DEF Stays, Copies
    <2> QED
      BY <1>1, <1>4, <2>1, <2>2, <2>3, UntouchedLives
  <1> QED
    BY <1>5, AdvanceStill

----------------------------------------------------------------------------
(* Users, importers, providers and restarts.                               *)

LEMMA ServiceQueues ==
  ASSUME MaxUserRetries = 0, MaxCancels = 0, Ready, ServiceStep
  PROVE  \E id \in Ids : Queue(id) \/ QueuePending(id)
  <1>1. cancels \in 0..MaxCancels /\ retries \in 0..MaxUserRetries
    BY DEF Ready, TypeInv, TypeOK, ServiceTypeOK
  <1>2. \A c \in Callers : ret[c].pc = "idle"
    BY DEF Ready, ExclusiveInv
  <1>3. \A id \in Ids : can[id].pc = "idle"
    BY ReadyFor DEF RowLife
  <1>4. \A c \in Callers : ~RetryWrite(c) /\ ~RetrySearch(c) /\ ~RetrySubmit(c)
    BY <1>2 DEF RetryWrite, RetrySearch, RetrySubmit
  <1>5. \A c \in Callers, id \in Ids : ~RetryGet(c, id)
    BY <1>1 DEF RetryGet
  <1>6. \A id \in Ids : ~CancelGet(id) /\ ~CancelWrite(id) /\ ~CancelProvider(id)
    BY <1>1, <1>3 DEF CancelGet, CancelWrite, CancelProvider
  <1> QED
    BY <1>4, <1>5, <1>6 DEF ServiceStep, ServiceNext

LEMMA QueueInserts ==
  ASSUME rec \in [Ids -> Row], NEW id \in Ids, Queue(id) \/ QueuePending(id)
  PROVE  /\ rec'[id].state = "queued" /\ rec'[id].tries = 0
         /\ \A i \in Ids : i # id => rec'[i] = rec[i]
  <1>1. PICK r \in Row : Insert(id, r)
    <2>1. CASE QueuePending(id)
      BY <2>1, NoRowTyped DEF QueuePending
    <2>2. CASE Queue(id)
      <3>1. PICK p \in Providers \ {Client} : Insert(id, WithSource(NoRow, p))
        BY <2>2 DEF Queue
      <3> QED
        BY <3>1, NoRowTyped, WithSourceTyped
    <2> QED
      BY <2>1, <2>2
  <1>2. rec'[id].state = "queued" /\ rec'[id].tries = 0
    <2>1. rec'[id] = [r EXCEPT !.state = "queued", !.tries = 0]
      BY <1>1 DEF Insert
    <2> QED
      BY <2>1 DEF Row
  <1>3. \A i \in Ids : i # id => rec'[i] = rec[i]
    BY <1>1 DEF Insert
  <1> QED
    BY <1>2, <1>3

LEMMA ServiceStepAdvances ==
  ASSUME MaxUserRetries = 0, MaxCancels = 0, Ready, ServiceStep
  PROVE  Advances /\ UNCHANGED can
  <1>1. rec \in [Ids -> Row]
    BY DEF Ready, TypeInv, TypeOK, StoreTypeOK
  <1>3. ASSUME NEW id \in Ids
        PROVE  Life(id) /\ RowLife(id) /\ Alone(id)
    BY ReadyFor
  <1>4. PICK id \in Ids : Queue(id) \/ QueuePending(id)
    BY ServiceQueues
  <1>5. /\ UNCHANGED <<job, bus, task, tick, active, res, imp, can>> /\ rec[id].state = "absent"
    BY <1>4 DEF ServiceStep, Queue, QueuePending, monitorVars, serviceVars
  <1>7. /\ rec'[id].state = "queued" /\ rec'[id].tries = 0
        /\ \A i \in Ids : i # id => rec'[i] = rec[i]
    BY <1>1, <1>4, QueueInserts
  <1>9. rec[id].tries = 0 /\ Started(id) = 0 /\ Started(id)' = 0
    <2>1. rec[id].tries = 0 /\ Started(id) = 0
      BY <1>3, <1>5 DEF RowLife
    <2>2. Started(id)' = Started(id)
      BY <1>5 DEF Started
    <2> QED
      BY <2>1, <2>2
  <1>10. RowLife(id)'
    BY <1>3, <1>5, <1>7, <1>9 DEF RowLife
  <1>11. Edge(rec[id], rec'[id])
    BY <1>5, <1>7, <1>9 DEF Edge
  <1>12. ~Busy(id) /\ res[id].pc = "idle"
    BY <1>3, <1>5 DEF Alone, OneImport, ResolverAlone
  <1>13. ASSUME NEW t \in Ticks PROVE At(t, id, "idle")
    <2>1. task[t][id] \in Frame /\ Tracked(id) \in BOOLEAN
      BY Typed DEF Ready
    <2>2. "absent" \in StatesOf(task[t][id], tick[t].phase, Tracked(id))
      BY <1>3, <1>5 DEF Alone, TaskAlone
    <2> QED
      BY <2>1, <2>2, NotElsewhere DEF At
  <1>14. ResolverLife(id)'
    BY <1>5, <1>12 DEF ResolverLife
  <1>15. LivesOn(id)
    BY <1>5, <1>10, <1>11, <1>12, <1>13, <1>14, QuietLives
  <1>16. ASSUME NEW i \in Ids, i # id
         PROVE  LivesOn(i) /\ Stays(rec[i], rec'[i])
    BY <1>3, <1>5, <1>7, <1>16, UnmovedLives
  <1> QED
    BY <1>5, <1>15, <1>16 DEF Advances

\* A record that is being imported: no tick has anything more to do with it
\* than to drop it, and one chain at most works on it.
LEMMA ImportLives ==
  ASSUME Ready, NEW id \in Ids, NEW w \in Workers, Busy(id),
         \A v \in Workers : v # w => ImpAt(id, v, "idle") /\ imp'[id][v] = imp[id][v],
         UNCHANGED <<job, can, res, task, tick>>,
         ImportLife(id, w)', Edge(rec[id], rec'[id]),
         \/ rec'[id].state = rec[id].state
         \/ rec'[id].state \in {"importing", "imported", "failed"},
         Copies(rec'[id], rec[id])
  PROVE  LivesOn(id)
  <1>1. Alone(id) /\ RowLife(id) /\ Started(id)' = Started(id) /\ can'[id].pc = "idle"
    BY ReadyFor DEF RowLife, Started
  <1>2. RowLife(id)'
    BY <1>1, RowStays, RowMoves
  <1>3. ResolverLife(id)'
    <2>1. res[id].pc = "idle"
      BY <1>1 DEF Alone, ResolverAlone
    <2> QED
      BY <2>1 DEF ResolverLife
  <1>4. ASSUME NEW t \in Ticks PROVE TaskLife(t, id)'
    <2>1. At(t, id, "idle") \/ At(t, id, "exit")
      BY <1>1 DEF Alone, TaskAlone
    <2> QED
      BY <2>1 DEF TaskLife, At
  <1>5. ASSUME NEW v \in Workers PROVE ImportLife(id, v)'
    BY DEF ImportLife, ImpAt, Chain
  <1> QED
    BY <1>2, <1>3, <1>4, <1>5 DEF LivesOn, Life

\* An importer replaces its own frame.
LEMMA ImporterSets ==
  ASSUME TypeInv, NEW id \in Ids, NEW w \in Workers, NEW f, ImpSet(id, w, f)
  PROVE  /\ imp'[id][w] = f
         /\ \A i \in Ids, v \in Workers : i # id \/ v # w => imp'[i][v] = imp[i][v]
         /\ \A i \in Ids : i # id => imp'[i] = imp[i]
  BY DEF ImpSet, TypeInv, TypeOK, ImporterTypeOK

LEMMA ImporterGoes ==
  ASSUME TypeInv, NEW id \in Ids, NEW w \in Workers, NEW pc
  PROVE  /\ ImpGo(id, w, pc) => imp'[id][w].pc = pc /\ imp'[id][w].row = imp[id][w].row
         /\ ImpStop(id, w) => imp'[id][w].pc = "idle"
  <1>1. PICK h : h = [imp[id][w] EXCEPT !.pc = pc]
    OBVIOUS
  <1>2. h.pc = pc /\ h.row = imp[id][w].row
    BY <1>1, Typed DEF ImpFrame
  <1>3. ImpGo(id, w, pc) => ImpSet(id, w, h)
    BY <1>1 DEF ImpGo
  <1> QED
    BY <1>2, <1>3, ImporterSets DEF ImpStop, NoImp

LEMMA ImporterStepAdvances ==
  ASSUME Ready, ImporterStep
  PROVE  Advances
  <1>1. PICK id \in Ids, w \in Workers : ImpStep(id, w)
    BY DEF ImporterStep
  <1> DEFINE f == imp[id][w]
  <1> DEFINE g == imp'[id][w]
  <1> DEFINE r == rec[id]
  <1> DEFINE q == rec'[id]
  <1>2. UNCHANGED <<job, can, res, task, tick>>
    BY <1>1 DEF ImporterStep, serviceVars, monitorVars, ImpStep, ImpBegin, ImpCas, ImpCheck, ImpRename,
                ImpRest, ImpAlbum, ImpFinal, ImpFail, storeVars
  <1>3. /\ TypeInv /\ rec \in [Ids -> Row] /\ bus \in [Ids -> Nat]
        /\ imp \in [Ids -> [Workers -> ImpFrame]]
    BY Typed DEF Ready
  <1>4. r \in Row /\ f \in ImpFrame /\ f.row \in Row
    BY <1>3 DEF ImpFrame
  <1>5. /\ f.pc # "idle" => Copies(f.row, r)
        /\ f.pc \in Chain => r.state = "importing" /\ f.row.state = "importing"
    <2>1. ImportLife(id, w) /\ ChainCopies
      BY ReadyFor DEF Ready, HandoverInv, Life
    <2> QED
      BY <2>1 DEF ImportLife, ChainCopies, ImpAt
  <1>6. \A v \in Workers : v # w => ImpAt(id, v, "idle")
    <2>1. bus[id] > 0 \/ f.pc # "idle"
      BY <1>1 DEF ImpStep, ImpBegin, ImpCas, ImpCheck, ImpRename, ImpRest, ImpAlbum, ImpFinal,
                  ImpFail, ImpAt
    <2>2. OneImport(id) /\ bus[id] \in Nat
      BY <1>3, ReadyFor DEF Alone
    <2> QED
      BY <2>1, <2>2 DEF OneImport, ImpAt
  <1>7. Busy(id)
    BY <1>1 DEF Busy, ImpStep, ImpBegin, ImpCas, ImpCheck, ImpRename, ImpRest, ImpAlbum, ImpFinal,
                ImpFail, ImpAt
  <1>8. /\ \A i \in Ids, v \in Workers : i # id \/ v # w => imp'[i][v] = imp[i][v]
        /\ \A i \in Ids : i # id => imp'[i] = imp[i] /\ rec'[i] = rec[i]
    <2>1. imp' = imp \/ \E h : ImpSet(id, w, h)
      BY <1>1 DEF ImpStep, ImpBegin, ImpCas, ImpCheck, ImpRename, ImpRest, ImpAlbum, ImpFinal,
                  ImpFail, ImpGo, ImpStop
    <2>2. rec' = rec \/ (\E x : Update(id, x)) \/ TransitionState(id, "importPending", "importing")
      BY <1>1 DEF ImpStep, ImpBegin, ImpCas, ImpCheck, ImpRename, ImpRest, ImpAlbum, ImpFinal,
                  ImpFail, storeVars
    <2>3. \A i \in Ids : i # id => rec'[i] = rec[i]
      BY <1>3, <2>2 DEF Update, TransitionState
    <2> QED
      BY <1>3, <2>1, <2>3, ImporterSets
  <1>w. ASSUME ImportLife(id, w)', Edge(r, q), Copies(q, r),
               q.state = r.state \/ q.state \in {"importing", "imported", "failed"}
        PROVE  LivesOn(id)
    BY <1>2, <1>6, <1>7, <1>8, <1>w, ImportLives
  <1>s. Copies(r, r) /\ Edge(r, r)
    BY DEF Copies, Edge, Stays
  <1>g. ASSUME NEW pc \in Chain, ImpGo(id, w, pc), f.pc \in Chain, q = r \/ q = f.row
        PROVE  LivesOn(id)
    <2>1. g.pc = pc /\ g.row = f.row
      BY <1>3, <1>g, ImporterGoes
    <2>2. Copies(f.row, r) /\ f.row.state = "importing" /\ r.state = "importing"
      BY <1>5, <1>g DEF Chain
    <2>3. Copies(q, r) /\ q.state = "importing" /\ Edge(r, q) /\ Copies(f.row, q)
      BY <1>g, <1>s, <2>2 DEF Edge, Stays, Copies
    <2>4. ImportLife(id, w)'
      BY <2>1, <2>3 DEF ImportLife
    <2> QED
      BY <1>w, <2>3, <2>4
  <1>t. ASSUME ImpStop(id, w), q = r
        PROVE  LivesOn(id)
    <2>1. g.pc = "idle"
      BY <1>3, <1>t, ImporterGoes
    <2>2. ImportLife(id, w)'
      BY <2>1 DEF ImportLife, ImpAt, Chain
    <2> QED
      BY <1>s, <1>t, <1>w, <2>2
  <1>e. ASSUME NEW s \in {"imported", "failed"}, f.pc \in Chain,
               Update(id, [f.row EXCEPT !.state = s]), ImpStop(id, w)
        PROVE  LivesOn(id)
    <2>1. PICK x : x = [f.row EXCEPT !.state = s]
      OBVIOUS
    <2>2. x.state = s /\ Copies(x, f.row)
      BY <1>4, <2>1 DEF Copies, Row
    <2>3. q = x
      BY <1>3, <1>e, <2>1 DEF Update
    <2>4. Copies(f.row, r) /\ r.state = "importing"
      BY <1>5, <1>e DEF Chain
    <2>5. Copies(q, r) /\ q.state = s /\ Edge(r, q)
      BY <2>2, <2>3, <2>4 DEF Copies, Edge
    <2>6. g.pc = "idle"
      BY <1>3, <1>e, ImporterGoes
    <2>7. ImportLife(id, w)'
      BY <2>6 DEF ImportLife, ImpAt, Chain
    <2> QED
      BY <1>w, <2>5, <2>7
  <1>9. ASSUME ImpBegin(id, w) PROVE LivesOn(id)
    <2>1. rec' = rec
      BY <1>9 DEF ImpBegin
    <2>2. CASE ImpSet(id, w, [pc |-> "cas", row |-> rec[id]])
      <3>1. g.pc = "cas" /\ g.row = r
        BY <1>3, <2>2, ImporterSets
      <3>2. ImportLife(id, w)'
        BY <1>s, <2>1, <3>1 DEF ImportLife, Chain
      <3> QED
        BY <1>s, <1>w, <2>1, <3>2
    <2>3. CASE imp' = imp
      <3>1. ImportLife(id, w)'
        BY <1>9, <2>1, <2>3 DEF ImpBegin, ImportLife, ImpAt, Chain
      <3> QED
        BY <1>s, <1>w, <2>1, <3>1
    <2> QED
      BY <1>9, <2>2, <2>3 DEF ImpBegin
  <1>10. ASSUME ImpCas(id, w) PROVE LivesOn(id)
    <2>1. CASE TransitionState(id, "importPending", "importing")
      <3>1. q.state = "importing" /\ Copies(q, r) /\ r.state = "importPending"
        BY <1>3, <2>1, StateWritten DEF TransitionState, Matches
      <3>2. PICK x : x = [f.row EXCEPT !.state = "importing"]
        OBVIOUS
      <3>3. Copies(x, f.row)
        BY <1>4, <3>2 DEF Copies, Row
      <3>4. ImpSet(id, w, [pc |-> IF id \in Albums THEN "album" ELSE "check", row |-> x])
        BY <1>10, <2>1, <3>2 DEF ImpCas, TransitionState
      <3>5. g.row = x
        BY <1>3, <3>4, ImporterSets
      <3>6. Copies(f.row, r)
        BY <1>5, <1>10 DEF ImpCas, ImpAt
      <3>7. ImportLife(id, w)'
        BY <3>1, <3>3, <3>5, <3>6 DEF ImportLife, Copies
      <3>8. Edge(r, q)
        BY <3>1 DEF Edge, Copies
      <3> QED
        BY <1>w, <3>1, <3>7, <3>8
    <2>2. CASE ~TransitionState(id, "importPending", "importing")
      BY <1>10, <1>t, <2>2 DEF ImpCas
    <2> QED
      BY <2>1, <2>2
  <1>11. ASSUME ImpCheck(id, w) PROVE LivesOn(id)
    <2>1. f.pc \in {"check", "recheck"} /\ rec' = rec
      BY <1>11 DEF ImpCheck, ImpAt, storeVars
    <2>2. \/ ImpStop(id, w) \/ ImpGo(id, w, "rename") \/ ImpGo(id, w, "rest")
      BY <1>11 DEF ImpCheck
    <2> QED
      BY <1>g, <1>t, <2>1, <2>2 DEF Chain
  <1>12. ASSUME ImpRename(id, w) \/ ImpAlbum(id, w) PROVE LivesOn(id)
    <2>1. f.pc \in {"rename", "album"} /\ (rec' = rec \/ Update(id, f.row))
      BY <1>12 DEF ImpRename, ImpAlbum, ImpAt
    <2>2. q = r \/ q = f.row
      BY <1>3, <2>1 DEF Update
    <2>3. ImpGo(id, w, "recheck") \/ ImpGo(id, w, "final") \/ ImpGo(id, w, "fail")
      BY <1>12 DEF ImpRename, ImpAlbum
    <2> QED
      BY <1>g, <2>1, <2>2, <2>3 DEF Chain
  <1>13. ASSUME ImpRest(id, w) PROVE LivesOn(id)
    <2>1. f.pc = "rest" /\ rec' = rec /\ (ImpGo(id, w, "final") \/ ImpGo(id, w, "fail"))
      BY <1>13 DEF ImpRest, ImpAt, storeVars
    <2> QED
      BY <1>g, <2>1 DEF Chain
  <1>14. ASSUME ImpFinal(id, w) PROVE LivesOn(id)
    BY <1>e, <1>14 DEF ImpFinal, ImpAt, Chain
  <1>15. ASSUME ImpFail(id, w) PROVE LivesOn(id)
    BY <1>e, <1>15 DEF ImpFail, ImpAt, Chain
  <1>16. LivesOn(id)
    BY <1>1, <1>9, <1>10, <1>11, <1>12, <1>13, <1>14, <1>15 DEF ImpStep
  <1>17. ASSUME NEW i \in Ids, i # id
         PROVE  LivesOn(i) /\ Stays(rec[i], rec'[i])
    <2>1. Life(i) /\ can'[i].pc = "idle" /\ Started(i)' = Started(i)
      BY <1>2, ReadyFor DEF RowLife, Started
    <2>2. \A t \in Ticks : In(t, "retry")' => In(t, "retry")
      BY <1>2 DEF In
    <2>3. Copies(rec'[i], rec[i]) /\ Stays(rec[i], rec'[i]) /\ rec'[i].state = rec[i].state
      BY <1>8, <1>17 DEF Copies, Stays
    <2> QED
      BY <1>2, <1>8, <1>17, <2>1, <2>2, <2>3, UntouchedLives
  <1> QED
    BY <1>16, <1>17 DEF Advances

\* What a provider does to its transfers by itself starts none.
LEMMA ProviderStepAdvances ==
  ASSUME Ready, ProviderStep
  PROVE  Advances
  <1>1. PICK id \in Ids, n \in 1..MaxStarts : JobEnds(id, n) \/ JobLost(id, n) \/ JobCancelled(id, n)
    BY DEF ProviderStep
  <1>2. UNCHANGED <<rec, can, res, task, tick, imp>>
    BY DEF ProviderStep, JobEnds, JobLost, JobCancelled, serviceVars, monitorVars
  <1>3. PICK s \in {"done", "failed", "gone", "cancelled"} : Mark(id, n, s) /\ job[id][n].st # "none"
    BY <1>1 DEF JobEnds, JobLost, JobCancelled, Listed
  <1>4. job \in [Ids -> [1..MaxStarts -> Job]]
    BY DEF Ready, TypeInv, TypeOK, StoreTypeOK
  <1>5. PICK h : h = [job[id][n] EXCEPT !.st = s]
    OBVIOUS
  <1>6. h.st = s
    BY <1>4, <1>5 DEF Job
  <1>7. \A i \in Ids, m \in 1..MaxStarts : job'[i][m] = IF i = id /\ m = n THEN h ELSE job[i][m]
    BY <1>3, <1>4, <1>5 DEF Mark, SetJob
  <1>8. ASSUME NEW i \in Ids
        PROVE  LivesOn(i) /\ Stays(rec[i], rec'[i])
    <2>1. \A m \in 1..MaxStarts : job'[i][m].st = "none" <=> job[i][m].st = "none"
      BY <1>3, <1>6, <1>7
    <2>2. Started(i)' = Started(i)
      BY <2>1, StartedKept
    <2>3. Life(i) /\ can'[i].pc = "idle"
      BY <1>2, ReadyFor DEF RowLife
    <2>4. rec'[i].state = rec[i].state /\ Copies(rec'[i], rec[i]) /\ Stays(rec[i], rec'[i])
      BY <1>2 DEF Copies, Stays
    <2>5. \A t \in Ticks : In(t, "retry")' => In(t, "retry")
      BY <1>2 DEF In
    <2> QED
      BY <1>2, <2>2, <2>3, <2>4, <2>5, UntouchedLives
  <1> QED
    BY <1>8, AdvanceStill

\* A crash takes every copy with it, and leaves the rows and what was started.
LEMMA CrashAdvances ==
  ASSUME Ready, Crash
  PROVE  Advances
  <1>1. /\ rec' = rec /\ can' = [id \in Ids |-> NoCan] /\ imp' = NothingImporting
        /\ task' = NoTask /\ res' = NothingResolving
    BY DEF Crash, MonitorReset
  <1>2. job \in [Ids -> [1..MaxStarts -> Job]]
    BY DEF Ready, TypeInv, TypeOK, StoreTypeOK
  <1>3. ASSUME NEW i \in Ids
        PROVE  LivesOn(i) /\ Stays(rec[i], rec'[i])
    <2>1. ASSUME NEW m \in 1..MaxStarts
          PROVE  job'[i][m].st = "none" <=> job[i][m].st = "none"
      <3>1. PICK h : h = [job[i][m] EXCEPT !.st = "gone"]
        OBVIOUS
      <3>2. h.st = "gone"
        BY <1>2, <3>1 DEF Job
      <3>3. job'[i][m] = IF Listed(i, m) /\ job[i][m].via \in InProcess THEN h ELSE job[i][m]
        BY <3>1 DEF Crash
      <3> QED
        BY <3>2, <3>3 DEF Listed
    <2>2. Started(i)' = Started(i)
      BY <2>1, StartedKept
    <2>3. RowLife(i) /\ can'[i].pc = "idle"
      BY <1>1, ReadyFor DEF NoCan
    <2>4. RowLife(i)'
      BY <1>1, <2>2, <2>3 DEF RowLife
    <2>5. ResolverLife(i)'
      BY <1>1 DEF ResolverLife, NothingResolving, NoRes
    <2>6. \A t \in Ticks : TaskLife(t, i)'
      BY <1>1 DEF TaskLife, NoTask, Idle
    <2>7. \A w \in Workers : ImportLife(i, w)'
      BY <1>1 DEF ImportLife, ImpAt, NothingImporting, NoImp, Chain
    <2>8. Stays(rec[i], rec'[i]) /\ Edge(rec[i], rec'[i])
      BY <1>1 DEF Stays, Edge
    <2> QED
      BY <2>4, <2>5, <2>6, <2>7, <2>8 DEF LivesOn, Life
  <1> QED
    BY <1>3, AdvanceStill

----------------------------------------------------------------------------
(* Every step, and what follows.                                           *)

LEMMA StepAdvances ==
  ASSUME MaxUserRetries = 0, MaxCancels = 0, Ready, [Next]_vars
  PROVE  Advances
  <1>1. CASE ServiceStep
    BY <1>1, ServiceStepAdvances
  <1>2. CASE MonitorStep
    <2>1. UNCHANGED <<imp, can>>
      BY <1>2 DEF MonitorStep, serviceVars
    <2> QED
      BY <1>2, <2>1, TickStepAdvances, TaskStepAdvances, ResolverStepAdvances, BootStepAdvances,
         TimeStepAdvances
      DEF MonitorStep, MonitorNext
  <1>3. CASE ImporterStep
    BY <1>3, ImporterStepAdvances
  <1>4. CASE ProviderStep
    BY <1>4, ProviderStepAdvances
  <1>5. CASE Crash
    BY <1>5, CrashAdvances
  <1>6. CASE UNCHANGED vars
    <2>1. UNCHANGED <<rec, job, can, res, task, tick, imp>>
      BY <1>6 DEF vars, storeVars, serviceVars, monitorVars
    <2>2. \A i \in Ids : LivesOn(i) /\ Stays(rec[i], rec'[i])
      BY <2>1, ReadyFor, UnmovedLives
    <2> QED
      BY <2>2, AdvanceStill
  <1> QED
    BY <1>1, <1>2, <1>3, <1>4, <1>5, <1>6 DEF Next

LEMMA LifeInit ==
  ASSUME Init
  PROVE  LifeInv
  <1>1. ASSUME NEW id \in Ids
        PROVE  Life(id)
    <2>1. /\ rec[id].state = "absent" /\ rec[id].tries = 0 /\ IsPendingSource(rec[id])
          /\ can[id].pc = "idle" /\ res[id].pc = "idle"
      BY <1>1 DEF Init, StoreInit, ServiceInit, MonitorInit, NoRow, IsPendingSource, NoCan, NothingResolving, NoRes
    <2>2. {n \in 1..MaxStarts : job[id][n].st # "none"} = {}
      BY DEF Init, StoreInit, NoJob
    <2>3. Started(id) = 0
      BY <2>2, FS_EmptySet DEF Started
    <2>4. RowLife(id) /\ ResolverLife(id)
      BY <2>1, <2>3 DEF RowLife, ResolverLife
    <2>5. \A t \in Ticks : TaskLife(t, id)
      BY DEF TaskLife, Init, MonitorInit, NoTask, Idle
    <2>6. \A w \in Workers : ImportLife(id, w)
      BY DEF ImportLife, ImpAt, Init, ImporterInit, NothingImporting, NoImp, Chain
    <2> QED
      BY <2>4, <2>5, <2>6 DEF Life
  <1> QED
    BY <1>1 DEF LifeInv

\* The inductive invariant: a private copy is as good as the row it is written
\* over, and a transfer is started only where the count of the row has room.
THEOREM LifeHolds ==
  ASSUME OneTick, MaxUserRetries = 0, MaxCancels = 0
  PROVE  Spec => []LifeInv
  <1>1. TypeInv /\ HandoverInv /\ ExclusiveInv /\ LifeInv /\ [Next]_vars => LifeInv'
    <2>1. SUFFICES ASSUME TypeInv, HandoverInv, ExclusiveInv, LifeInv, [Next]_vars
                   PROVE  LifeInv'
      OBVIOUS
    <2>2. Advances
      BY <2>1, TypeNext, StepAdvances DEF Ready
    <2> QED
      BY <2>2 DEF Advances, LivesOn, LifeInv
  <1> QED
    BY <1>1, LifeInit, TypeCorrect, HandoverHolds, ExclusiveHolds, PTL DEF Spec

\* scanRetry's count against the transfers the monitor starts: one for the first
\* dispatch and one for each retry the row counts, through failed persists,
\* failed writes, lost transfers and restarts.
THEOREM BudgetKept ==
  ASSUME OneTick, MaxUserRetries = 0, MaxCancels = 0
  PROVE  Spec => []RetryBudget
  <1>1. LifeInv => RetryBudget
    BY DEF LifeInv, Life, RowLife, RetryBudget
  <1> QED
    BY <1>1, LifeHolds, PTL

----------------------------------------------------------------------------
(* The refinement of DownloadLifecycle.                                    *)

LEMMA LifecycleInit ==
  ASSUME Init
  PROVE  Lifecycle!Init
  BY DEF Init, StoreInit, NoRow, Lifecycle!Init

\* What an edge of one record, and the others staying as they are, is in terms
\* of the functions DownloadLifecycle speaks of.
LEMMA LifecycleStep ==
  ASSUME Ready, Advances
  PROVE  \/ Lifecycle!Next
         \/ /\ [id \in Ids |-> rec'[id].state] = [id \in Ids |-> rec[id].state]
            /\ [id \in Ids |-> rec'[id].tries] = [id \in Ids |-> rec[id].tries]
  <1> DEFINE S == [id \in Ids |-> rec[id].state]
  <1> DEFINE T == [id \in Ids |-> rec[id].tries]
  <1> DEFINE SS == [id \in Ids |-> rec'[id].state]
  <1> DEFINE TT == [id \in Ids |-> rec'[id].tries]
  <1>1. PICK id \in Ids : \A i \in Ids : i # id => Stays(rec[i], rec'[i])
    BY DEF Advances
  <1> DEFINE r == rec[id]
  <1> DEFINE q == rec'[id]
  <1>2. Edge(r, q)
    BY DEF Advances, LivesOn
  <1>3. SS = [S EXCEPT ![id] = q.state] /\ TT = [T EXCEPT ![id] = q.tries]
    BY <1>1 DEF Stays
  <1>4. q.tries = r.tries => TT = T
    BY <1>1 DEF Stays
  <1>5. q.state = r.state => SS = S
    BY <1>1 DEF Stays
  <1>6. S[id] = r.state /\ T[id] = r.tries
    OBVIOUS
  <1>7. CASE Stays(r, q)
    BY <1>4, <1>5, <1>7 DEF Stays
  <1>8. CASE q.tries = r.tries /\ r.state = "absent" /\ q.state = "queued"
    <2>1. Lifecycle!Queue(id)
      BY <1>3, <1>4, <1>6, <1>8 DEF Lifecycle!Queue, Lifecycle!Move
    <2> QED
      BY <2>1 DEF Lifecycle!Next
  <1>9. CASE q.tries = r.tries /\ r.state = "queued" /\ q.state = "downloading"
    <2>1. Lifecycle!Dispatch(id)
      BY <1>3, <1>4, <1>6, <1>9 DEF Lifecycle!Dispatch, Lifecycle!Move
    <2> QED
      BY <2>1 DEF Lifecycle!Next
  <1>10. CASE q.tries = r.tries /\ r.state = "downloading" /\ q.state = "importPending"
    <2>1. Lifecycle!Downloaded(id)
      BY <1>3, <1>4, <1>6, <1>10 DEF Lifecycle!Downloaded, Lifecycle!Move
    <2> QED
      BY <2>1 DEF Lifecycle!Next
  <1>11. CASE q.tries = r.tries /\ r.state = "downloading" /\ q.state = "failed"
    <2>1. Lifecycle!DownloadFails(id)
      BY <1>3, <1>4, <1>6, <1>11 DEF Lifecycle!DownloadFails, Lifecycle!Move
    <2> QED
      BY <2>1 DEF Lifecycle!Next
  <1>12. CASE q.tries = r.tries /\ r.state = "importPending" /\ q.state = "importing"
    <2>1. Lifecycle!ImportBegins(id)
      BY <1>3, <1>4, <1>6, <1>12 DEF Lifecycle!ImportBegins, Lifecycle!Move
    <2> QED
      BY <2>1 DEF Lifecycle!Next
  <1>13. CASE q.tries = r.tries /\ r.state = "importing" /\ q.state \in {"imported", "failed"}
    <2>1. Lifecycle!ImportEnds(id)
      BY <1>3, <1>4, <1>6, <1>13 DEF Lifecycle!ImportEnds, Lifecycle!Move
    <2> QED
      BY <2>1 DEF Lifecycle!Next
  <1>14. CASE r.state = "queued" /\ q.state = "failedPending" /\ q.tries = 1
    <2>1. Lifecycle!ResolveFails(id)
      BY <1>3, <1>6, <1>14 DEF Lifecycle!ResolveFails, Lifecycle!Move
    <2> QED
      BY <2>1 DEF Lifecycle!Next
  <1>15. CASE /\ r.state \in Retryable /\ r.tries < MaxRetries
              /\ q.state = "queued" /\ q.tries = r.tries + 1
    <2>1. Lifecycle!Requeue(id)
      BY <1>3, <1>6, <1>15 DEF Lifecycle!Requeue, Lifecycle!Move, Retryable
    <2> QED
      BY <2>1 DEF Lifecycle!Next
  <1> QED
    BY <1>2, <1>7, <1>8, <1>9, <1>10, <1>11, <1>12, <1>13, <1>14, <1>15 DEF Edge

\* The monitor, the resolver, the importer and recovery after a restart, taken
\* together, implement the life cycle of a record: every write to the
\* downloads table moves one record along one edge, with the count that belongs
\* to it, or leaves state and count of all records alone.
THEOREM LifecycleImplemented ==
  ASSUME OneTick, MaxUserRetries = 0, MaxCancels = 0
  PROVE  Spec => ImplementsLifecycle
  <1>1. TypeInv /\ HandoverInv /\ ExclusiveInv /\ LifeInv /\ [Next]_vars
          => [Lifecycle!Next]_<<[id \in Ids |-> rec[id].state], [id \in Ids |-> rec[id].tries]>>
    <2>1. SUFFICES ASSUME TypeInv, HandoverInv, ExclusiveInv, LifeInv, [Next]_vars
                   PROVE  [Lifecycle!Next]_<<[id \in Ids |-> rec[id].state],
                                             [id \in Ids |-> rec[id].tries]>>
      OBVIOUS
    <2>2. Ready
      BY <2>1, TypeNext DEF Ready
    <2> QED
      BY <2>1, <2>2, StepAdvances, LifecycleStep
  <1> QED
    BY <1>1, LifecycleInit, LifeHolds, TypeCorrect, HandoverHolds, ExclusiveHolds, PTL
    DEF Spec, ImplementsLifecycle, Lifecycle!Spec

----------------------------------------------------------------------------
(* Whatever is downloading is watched.                                     *)

\* A step that leaves the ticks and the tracking of a record alone.
LEMMA WatchKept ==
  ASSUME NEW id \in Ids, WatchLife(id),
         rec'[id].state = "downloading" => rec[id].state = "downloading" /\ boot' = boot,
         \A n \in 1..MaxStarts : job'[id][n].st # "cancelled",
         Tracked(id)' = Tracked(id),
         \A t \in Ticks : task'[t][id] = task[t][id]
  PROVE  WatchLife(id)'
  <1>1. Watched(id) /\ boot' = boot => Watched(id)'
    BY DEF Watched, At
  <1> QED
    BY <1>1 DEF WatchLife, At

\* A step of the only tick for a record: what it must not do, and who watches.
LEMMA WatchMoves ==
  ASSUME OneTick, NEW id \in Ids, NEW t \in Ticks, WatchLife(id),
         \A n \in 1..MaxStarts : job'[id][n].st # "cancelled",
         task'[t][id].pc = "progress" => task'[t][id].st # "cancelled",
         task'[t][id].pc = "exit" => rec'[id].state # "downloading",
         rec'[id].state = "downloading" => Watched(id)'
  PROVE  WatchLife(id)'
  BY DEF OneTick, WatchLife, At

\* Watched by the tracking or by recovery, and still so.
LEMMA WatchStays ==
  ASSUME OneTick, NEW id \in Ids, NEW t \in Ticks, WatchLife(id),
         task[t][id].pc \notin {"launch", "failGet", "failCas"},
         task[t][id].pc = "listed" => task[t][id].then # "free",
         rec[id].state = "downloading", boot' = boot, active' = active
  PROVE  Watched(id)'
  BY DEF OneTick, WatchLife, Watched, At, Tracked

\* The steps of a tick for one id.
LEMMA StartWatched ==
  ASSUME NEW id \in Ids, NEW t \in Ticks, Before(t, id), SlotInv, WatchLife(id), boot' = boot,
         \/ SyncFail(t, id) \/ StartPick(t, id) \/ StartAcquire(t, id) \/ StartCas(t, id)
         \/ StartLaunch(t, id) \/ StartFails(t, id) \/ StartReread(t, id) \/ StartPersist(t, id)
  PROVE  WatchLife(id)'
  <1> DEFINE f == task[t][id]
  <1> DEFINE g == task'[t][id]
  <1> DEFINE r == rec[id]
  <1> DEFINE q == rec'[id]
  <1>1. /\ OneTick /\ TypeInv /\ TypeInv' /\ HandoverInv /\ Alone(id) /\ Life(id)
        /\ RowLife(id) /\ TaskLife(t, id)
    BY DEF Before, Life
  <1>2. f \in Frame /\ r \in Row /\ job \in [Ids -> [1..MaxStarts -> Job]]
    BY <1>1, Typed DEF TypeInv, TypeOK, StoreTypeOK
  <1>3. /\ (f.pc = "listed" /\ In(t, "start")) \/ f.pc \in {"acquire", "cas"} => r.state = "queued"
        /\ f.pc \in Launched => r.state = "downloading"
    BY <1>1, Position DEF In
  <1>p. \A pc \in {"idle", "acquire", "cas", "launch", "reread", "persist", "exit", "failGet"} : pc \in Pcs
    BY DEF Pcs
  <1>n. job' = job => \A n \in 1..MaxStarts : job'[id][n].st # "cancelled"
    BY DEF WatchLife
  <1>w. ASSUME job' = job, g.pc \notin {"progress", "exit"}, q.state = "downloading" => Watched(id)'
        PROVE  WatchLife(id)'
    BY <1>1, <1>n, <1>w, WatchMoves
  <1>4. CASE SyncFail(t, id)
    <2>1. job' = job /\ Go(t, id, "failGet")
      BY <1>4 DEF SyncFail, storeVars
    <2>2. g.pc = "failGet"
      BY <1>1, <1>p, <2>1, Goes
    <2>3. Watched(id)'
      BY <2>2 DEF Watched
    <2> QED
      BY <1>w, <2>1, <2>2, <2>3
  <1>5. CASE StartPick(t, id)
    <2>1. f.pc = "listed" /\ In(t, "start") /\ rec' = rec /\ job' = job
      BY <1>5 DEF StartPick, Take, At, storeVars
    <2>2. g.pc \in {"idle", "acquire"}
      <3>1. \/ Set(t, id, Idle)
            \/ Set(t, id, [Idle EXCEPT !.pc = "acquire", !.row = rec[id], !.via = Gate(id, rec[id])])
        BY <1>5 DEF StartPick
      <3>2. CASE Set(t, id, [Idle EXCEPT !.pc = "acquire", !.row = rec[id], !.via = Gate(id, rec[id])])
        <4>1. g = [Idle EXCEPT !.pc = "acquire", !.row = rec[id], !.via = Gate(id, rec[id])]
          BY <1>1, <3>2, SetTask
        <4> QED
          BY <4>1 DEF Idle
      <3> QED
        BY <1>1, <1>p, <3>1, <3>2, Goes
    <2> QED
      BY <1>3, <1>w, <2>1, <2>2
  <1>6. CASE StartAcquire(t, id)
    <2>1. f.pc = "acquire" /\ rec' = rec /\ job' = job
      BY <1>6 DEF StartAcquire, At, storeVars
    <2>2. g.pc \in {"idle", "cas"}
      <3>1. \/ Go(t, id, "cas") \/ Set(t, id, Idle)
            \/ Set(t, id, [task[t][id] EXCEPT !.pc = "cas", !.then = "free"])
        BY <1>1, <1>6, <2>1 DEF StartAcquire, TaskLife
      <3>2. CASE Set(t, id, [task[t][id] EXCEPT !.pc = "cas", !.then = "free"])
        <4>1. PICK h : h = [task[t][id] EXCEPT !.pc = "cas", !.then = "free"]
          OBVIOUS
        <4>2. h.pc = "cas" /\ Set(t, id, h)
          BY <1>2, <3>2, <4>1 DEF Frame
        <4> QED
          BY <1>1, <4>2, SetTask
      <3> QED
        BY <1>1, <1>p, <3>1, <3>2, Goes
    <2> QED
      BY <1>3, <1>w, <2>1, <2>2
  <1>7. CASE StartCas(t, id)
    <2>1. f.pc = "cas" /\ job' = job
      BY <1>7 DEF StartCas, At
    <2>2. Go(t, id, "launch")
      BY <1>3, <1>7, <2>1 DEF StartCas, Matches
    <2>3. g.pc = "launch"
      BY <1>1, <1>p, <2>2, Goes
    <2>4. Watched(id)'
      BY <2>3 DEF Watched
    <2> QED
      BY <1>w, <2>1, <2>3, <2>4
  <1>8. CASE StartLaunch(t, id)
    <2>1. PICK n \in NextHandle(id) :
            /\ SetJob(id, n, [st |-> "running", via |-> task[t][id].via])
            /\ active' = [active EXCEPT ![id] = [h |-> n, via |-> task[t][id].via, late |-> FALSE]]
            /\ Set(t, id, [task[t][id] EXCEPT !.pc = "reread", !.then = "none", !.h = n])
      BY <1>8 DEF StartLaunch
    <2>2. g.pc = "reread"
      <3>1. PICK h : h = [task[t][id] EXCEPT !.pc = "reread", !.then = "none", !.h = n]
        OBVIOUS
      <3>2. h.pc = "reread" /\ Set(t, id, h)
        BY <1>2, <2>1, <3>1 DEF Frame
      <3> QED
        BY <1>1, <3>2, SetTask
    <2>3. \A m \in 1..MaxStarts : job'[id][m].st # "cancelled"
      <3>1. \A m \in 1..MaxStarts :
              job'[id][m] = IF m = n THEN [st |-> "running", via |-> task[t][id].via] ELSE job[id][m]
        BY <1>2, <2>1 DEF SetJob, NextHandle
      <3> QED
        BY <3>1 DEF WatchLife
    <2>4. Tracked(id)'
      <3>1. active'[id] = [h |-> n, via |-> task[t][id].via, late |-> FALSE] /\ n \in 1..MaxStarts
        BY <1>1, <2>1, Typed DEF NextHandle
      <3> QED
        BY <3>1, StoreAssumption DEF Tracked
    <2>5. Watched(id)'
      BY <2>4 DEF Watched
    <2> QED
      BY <1>1, <2>2, <2>3, <2>5, WatchMoves
  <1>9. CASE StartFails(t, id)
    <2>1. job' = job /\ Fail(t, id, task[t][id].then)
      BY <1>9 DEF StartFails, storeVars
    <2>2. g.pc = "failGet"
      <3>1. PICK h : h = [task[t][id] EXCEPT !.pc = "failGet", !.then = task[t][id].then]
        OBVIOUS
      <3>2. h.pc = "failGet" /\ Set(t, id, h)
        BY <1>2, <2>1, <3>1 DEF Frame, Fail
      <3> QED
        BY <1>1, <3>2, SetTask
    <2>3. Watched(id)'
      BY <2>2 DEF Watched
    <2> QED
      BY <1>w, <2>1, <2>2, <2>3
  <1>10. CASE StartReread(t, id) \/ StartPersist(t, id)
    <2>1. f.pc \in {"reread", "persist"} /\ job' = job /\ active' = active
      BY <1>10 DEF StartReread, StartPersist, At, storeVars
    <2>2. r.state = "downloading"
      BY <1>3, <2>1 DEF Launched
    <2>3. Watched(id)'
      BY <1>1, <2>1, <2>2, WatchStays
    <2>4. g.pc \in {"idle", "persist"}
      <3>1. Set(t, id, Idle) \/ Set(t, id, [task[t][id] EXCEPT !.pc = "persist", !.row = rec[id]])
        BY <1>10 DEF StartReread, StartPersist
      <3>2. CASE Set(t, id, [task[t][id] EXCEPT !.pc = "persist", !.row = rec[id]])
        <4>1. PICK h : h = [task[t][id] EXCEPT !.pc = "persist", !.row = rec[id]]
          OBVIOUS
        <4>2. h.pc = "persist" /\ Set(t, id, h)
          BY <1>2, <3>2, <4>1 DEF Frame
        <4> QED
          BY <1>1, <4>2, SetTask
      <3> QED
        BY <1>1, <1>p, <3>1, <3>2, Goes
    <2> QED
      BY <1>w, <2>1, <2>3, <2>4
  <1> QED
    BY <1>4, <1>5, <1>6, <1>7, <1>8, <1>9, <1>10

LEMMA PollWatched ==
  ASSUME NEW id \in Ids, NEW t \in Ticks, Before(t, id), SlotInv, WatchLife(id), boot' = boot,
         \/ PollBegin(t, id) \/ PollStatus(t, id) \/ PollProgress(t, id)
         \/ PollComplete(t, id) \/ PollFilePath(t, id) \/ PollAnnounce(t, id)
  PROVE  WatchLife(id)'
  <1> DEFINE f == task[t][id]
  <1> DEFINE g == task'[t][id]
  <1> DEFINE r == rec[id]
  <1> DEFINE q == rec'[id]
  <1>1. /\ OneTick /\ TypeInv /\ TypeInv' /\ HandoverInv /\ Alone(id) /\ Life(id)
        /\ RowLife(id) /\ TaskLife(t, id)
    BY DEF Before, Life
  <1>2. f \in Frame /\ r \in Row
    BY <1>1, Typed
  <1>3. /\ f.pc \in {"poll", "status", "progress", "complete"} => r.state = "downloading"
        /\ f.pc \in {"filePath", "announce"} => r.state = "importPending"
    BY <1>1, Position DEF Launched
  <1>4. job' = job /\ active' = active
    BY DEF PollBegin, PollStatus, PollProgress, PollComplete, PollFilePath, PollAnnounce, storeVars
  <1>5. \A n \in 1..MaxStarts : job'[id][n].st # "cancelled"
    BY <1>4 DEF WatchLife
  <1>p. \A pc \in {"idle", "status", "complete", "filePath", "announce", "exit", "failGet"} : pc \in Pcs
    BY DEF Pcs
  <1>6. f.pc \in {"poll", "status", "progress", "complete"} => Watched(id)'
    BY <1>1, <1>3, <1>4, WatchStays
  <1>7. CASE PollBegin(t, id)
    <2>1. f.pc = "poll"
      BY <1>7 DEF PollBegin, At
    <2>2. g.pc \in {"idle", "status", "failGet"}
      BY <1>1, <1>7, <1>p, Goes DEF PollBegin
    <2> QED
      BY <1>1, <1>5, <1>6, <2>1, <2>2, WatchMoves
  <1>8. CASE PollStatus(t, id)
    <2>1. f.pc = "status"
      BY <1>8 DEF PollStatus, At
    <2>2. CASE Set(t, id, Idle)
      <3>1. g.pc = "idle"
        BY <1>1, <1>p, <2>2, Goes
      <3> QED
        BY <1>1, <1>5, <1>6, <2>1, <3>1, WatchMoves
    <2>3. CASE Set(t, id, [task[t][id] EXCEPT !.pc = "progress", !.st = job[id][task[t][id].h].st])
      <3>1. PICK h : h = [task[t][id] EXCEPT !.pc = "progress", !.st = job[id][task[t][id].h].st]
        OBVIOUS
      <3>2. g.pc = "progress" /\ g.st = job[id][f.h].st
        <4>1. h.pc = "progress" /\ h.st = job[id][f.h].st
          BY <1>2, <3>1 DEF Frame
        <4>2. g = h
          BY <1>1, <2>3, <3>1, SetTask
        <4> QED
          BY <4>1, <4>2
      <3>3. f.h \in 1..MaxStarts
        <4>1. Tracked(id) /\ active[id].h = f.h
          BY <2>1 DEF SlotInv, FrameFollows, Following
        <4>2. active[id].h \in Handles
          BY <1>1, Typed DEF Track
        <4> QED
          BY <4>1, <4>2, StoreAssumption DEF Tracked, Handles
      <3>4. g.st # "cancelled"
        BY <3>2, <3>3 DEF WatchLife
      <3> QED
        BY <1>1, <1>5, <1>6, <2>1, <3>2, <3>4, WatchMoves
    <2> QED
      BY <1>8, <2>2, <2>3 DEF PollStatus
  <1>9. CASE PollProgress(t, id)
    <2>1. f.pc = "progress"
      BY <1>9 DEF PollProgress, At
    <2>2. f.st # "cancelled"
      BY <2>1 DEF WatchLife, At
    <2>3. Go(t, id, "complete") \/ Fail(t, id, "drop") \/ Set(t, id, Idle)
      BY <1>9, <2>2 DEF PollProgress
    <2>4. g.pc \in {"idle", "complete", "failGet"}
      BY <1>1, <1>p, <2>3, Goes
    <2> QED
      BY <1>1, <1>5, <1>6, <2>1, <2>4, WatchMoves
  <1>10. CASE PollComplete(t, id)
    <2>1. f.pc = "complete" /\ r.state = "downloading"
      BY <1>3, <1>10 DEF PollComplete, At
    <2>2. PICK pc \in {"filePath", "announce"} :
            Go(t, id, pc) /\ rec' = [rec EXCEPT ![id].state = "importPending"]
      BY <1>10, <2>1 DEF PollComplete, TransitionState, Matches
    <2>3. q.state = "importPending"
      BY <1>1, <2>2, StateWritten
    <2>4. g.pc \in {"filePath", "announce"}
      BY <1>1, <1>p, <2>2, Goes
    <2> QED
      BY <1>1, <1>5, <2>3, <2>4, WatchMoves
  <1>11. CASE PollFilePath(t, id)
    <2>1. rec' = [rec EXCEPT ![id].state = "importPending"] /\ Go(t, id, "announce")
      BY <1>11 DEF PollFilePath, UpdateProgress
    <2>2. q.state = "importPending"
      BY <1>1, <2>1, StateWritten
    <2>3. g.pc = "announce"
      BY <1>1, <1>p, <2>1, Goes
    <2> QED
      BY <1>1, <1>5, <2>2, <2>3, WatchMoves
  <1>12. CASE PollAnnounce(t, id)
    <2>1. f.pc = "announce" /\ rec' = rec /\ Exit(t, id, "drop")
      BY <1>12 DEF PollAnnounce, At
    <2>2. g.pc = "exit"
      BY <1>1, <1>p, <2>1, Goes
    <2>3. q.state = "importPending"
      BY <1>3, <2>1
    <2> QED
      BY <1>1, <1>5, <2>2, <2>3, WatchMoves
  <1> QED
    BY <1>7, <1>8, <1>9, <1>10, <1>11, <1>12

LEMMA FailWatched ==
  ASSUME NEW id \in Ids, NEW t \in Ticks, Before(t, id), SlotInv, WatchLife(id), boot' = boot,
         \/ CheckGet(t, id) \/ CheckAbort(t, id) \/ FailGet(t, id)
         \/ FailCas(t, id) \/ FailReget(t, id) \/ FailWrite(t, id)
  PROVE  WatchLife(id)'
  <1> DEFINE f == task[t][id]
  <1> DEFINE g == task'[t][id]
  <1> DEFINE r == rec[id]
  <1> DEFINE q == rec'[id]
  <1>1. /\ OneTick /\ TypeInv /\ TypeInv' /\ HandoverInv /\ Alone(id) /\ Life(id)
        /\ RowLife(id) /\ TaskLife(t, id)
    BY DEF Before, Life
  <1>2. f \in Frame /\ r \in Row
    BY <1>1, Typed
  <1>3. /\ f.pc \in {"failGet", "failCas"} => r.state = "downloading"
        /\ f.pc \in {"failReget", "failWrite"} => r.state = "failed"
        /\ f.pc = "failCas" => f.row.state = "downloading"
    BY <1>1, Position DEF TaskLife
  <1>4. ~CheckAbort(t, id)
    BY <1>1 DEF CheckAbort, TaskLife, At
  <1>5. job' = job
    BY <1>4 DEF CheckGet, FailGet, FailCas, FailReget, FailWrite, storeVars
  <1>6. \A n \in 1..MaxStarts : job'[id][n].st # "cancelled"
    BY <1>5 DEF WatchLife
  <1>p. \A pc \in {"idle", "exit", "abort", "failReget"} : pc \in Pcs
    BY DEF Pcs
  <1>w. ASSUME q.state # "downloading", g.pc # "progress"
        PROVE  WatchLife(id)'
    BY <1>1, <1>6, <1>w, WatchMoves
  <1>7. CASE CheckGet(t, id)
    <2>1. f.pc = "listed" /\ In(t, "check") /\ rec' = rec /\ active' = active
      BY <1>7 DEF CheckGet, Take, At, storeVars
    <2>2. g.pc \in {"idle", "exit", "abort"}
      BY <1>1, <1>7, <1>p, Goes DEF CheckGet
    <2>3. CASE r.state = "downloading"
      <3>1. g.pc = "idle"
        BY <1>1, <1>7, <1>p, <2>3, Goes DEF CheckGet
      <3>2. Tracked(id)
        BY <2>1 DEF SlotInv, FrameFollows, At
      <3>3. Watched(id)'
        BY <2>1, <3>2 DEF Watched, Tracked
      <3> QED
        BY <1>1, <1>6, <3>1, <3>3, WatchMoves
    <2> QED
      BY <1>w, <2>1, <2>2, <2>3
  <1>8. CASE FailGet(t, id)
    <2>1. f.pc = "failGet"
      BY <1>8 DEF FailGet, At
    <2>2. Set(t, id, [task[t][id] EXCEPT !.pc = "failCas", !.row = rec[id]])
      BY <1>3, <1>8, <2>1 DEF FailGet, Terminal
    <2>3. g.pc = "failCas"
      <3>1. PICK h : h = [task[t][id] EXCEPT !.pc = "failCas", !.row = rec[id]]
        OBVIOUS
      <3>2. h.pc = "failCas" /\ Set(t, id, h)
        BY <1>2, <2>2, <3>1 DEF Frame
      <3> QED
        BY <1>1, <3>2, SetTask
    <2>4. Watched(id)'
      BY <2>3 DEF Watched
    <2> QED
      BY <1>1, <1>6, <2>3, <2>4, WatchMoves
  <1>9. CASE FailCas(t, id)
    <2>1. f.pc = "failCas"
      BY <1>9 DEF FailCas, At
    <2>2. rec' = [rec EXCEPT ![id].state = "failed"] /\ Go(t, id, "failReget")
      BY <1>3, <1>9, <2>1 DEF FailCas, TransitionState, Matches
    <2>3. q.state = "failed" /\ g.pc = "failReget"
      <3>1. q.state = "failed"
        BY <1>1, <2>2, StateWritten
      <3>2. g.pc = "failReget"
        BY <1>1, <1>p, <2>2, Goes
      <3> QED
        BY <3>1, <3>2
    <2> QED
      BY <1>w, <2>3
  <1>10. CASE FailReget(t, id)
    <2>1. f.pc = "failReget" /\ rec' = rec
      BY <1>10 DEF FailReget, At, storeVars
    <2>2. PICK h : h = [task[t][id] EXCEPT !.pc = "failWrite", !.row = [rec[id] EXCEPT !.state = "failed"]]
      OBVIOUS
    <2>3. h.pc = "failWrite" /\ Set(t, id, h)
      BY <1>2, <1>10, <2>2 DEF FailReget, Frame
    <2>4. g.pc = "failWrite"
      BY <1>1, <2>3, SetTask
    <2> QED
      BY <1>3, <1>w, <2>1, <2>4
  <1>11. CASE FailWrite(t, id)
    <2>1. f.pc = "failWrite" /\ Update(id, f.row) /\ Go(t, id, "exit")
      BY <1>11 DEF FailWrite, At
    <2>2. f.row.state = "failed"
      BY <1>1, <2>1 DEF HandoverInv, TaskCopies, At
    <2>3. q = f.row
      BY <1>1, <2>1, Typed DEF Update
    <2>4. g.pc = "exit"
      BY <1>1, <1>p, <2>1, Goes
    <2> QED
      BY <1>w, <2>2, <2>3, <2>4
  <1> QED
    BY <1>4, <1>7, <1>8, <1>9, <1>10, <1>11

LEMMA ScanWatched ==
  ASSUME NEW id \in Ids, NEW t \in Ticks, Before(t, id), WatchLife(id),
         ScanSearch(t, id) \/ ScanWrite(t, id) \/ Leave(t, id)
  PROVE  WatchLife(id)'
  <1> DEFINE f == task[t][id]
  <1> DEFINE g == task'[t][id]
  <1>1. /\ OneTick /\ TypeInv /\ TypeInv' /\ HandoverInv /\ Alone(id) /\ Life(id)
    BY DEF Before
  <1>2. f \in Frame
    BY <1>1, Typed
  <1>3. \A n \in 1..MaxStarts : job'[id][n].st # "cancelled"
    BY DEF WatchLife, ScanSearch, ScanWrite, Leave, storeVars
  <1>4. rec'[id].state # "downloading"
    <2>1. CASE ScanSearch(t, id)
      <3>1. f.pc = "listed" /\ In(t, "retry") /\ rec' = rec
        BY <2>1 DEF ScanSearch, Take, At, storeVars
      <3> QED
        BY <1>1, <3>1, Position DEF Retryable, In
    <2>2. CASE ScanWrite(t, id)
      <3>1. f.row.state = "queued" /\ Update(id, f.row)
        BY <1>1, <2>2 DEF ScanWrite, HandoverInv, TaskCopies
      <3> QED
        BY <1>1, <3>1, Typed DEF Update
    <2>3. CASE Leave(t, id)
      BY <2>3 DEF Leave, WatchLife, storeVars
    <2> QED
      BY <2>1, <2>2, <2>3
  <1>5. g.pc \in {"idle", "write"}
    <2>1. CASE Set(t, id, Idle)
      BY <1>1, <2>1, Goes DEF Pcs
    <2>2. ASSUME NEW row, Set(t, id, [task[t][id] EXCEPT !.pc = "write", !.row = row])
          PROVE  g.pc = "write"
      <3>1. PICK h : h = [task[t][id] EXCEPT !.pc = "write", !.row = row]
        OBVIOUS
      <3>2. h.pc = "write" /\ Set(t, id, h)
        BY <1>2, <2>2, <3>1 DEF Frame
      <3> QED
        BY <1>1, <3>2, SetTask
    <2>3. CASE ScanSearch(t, id)
      BY <2>1, <2>2, <2>3 DEF ScanSearch
    <2> QED
      BY <2>1, <2>3 DEF ScanWrite, Leave
  <1> QED
    BY <1>1, <1>3, <1>4, <1>5, WatchMoves

LEMMA TaskStepWatched ==
  ASSUME Ready, SlotInv, WatchInv, NEW t \in Ticks, NEW id \in Ids, TaskStep(t, id),
         UNCHANGED <<imp, can>>
  PROVE  WatchInv'
  <1>1. ASSUME NEW i \in Ids
        PROVE  Alone(i) /\ Life(i) /\ can'[i].pc = "idle" /\ WatchLife(i)
    BY ReadyFor DEF RowLife, WatchInv
  <1>2. WatchLife(id)'
    <2>1. Before(t, id)
      BY <1>1 DEF Before, Ready
    <2>2. boot' = boot
      BY OthersKeptTick DEF tickVars
    <2> QED
      BY <1>1, <2>1, <2>2, StartWatched, PollWatched, FailWatched, ScanWatched DEF TaskStep
  <1>3. ASSUME NEW i \in Ids, i # id
        PROVE  WatchLife(i)'
    <2>1. /\ rec'[i] = rec[i] /\ active'[i] = active[i] /\ boot' = boot
          /\ \A s \in Ticks : task'[s][i] = task[s][i]
      BY <1>3, OthersKept DEF Ready, tickVars
    <2>2. job'[i] = job[i]
      BY <1>1, <1>3, OtherTransfers DEF Ready, Life
    <2>3. Tracked(i)' = Tracked(i) /\ \A n \in 1..MaxStarts : job'[i][n].st # "cancelled"
      BY <1>1, <2>1, <2>2 DEF Tracked, WatchLife
    <2> QED
      BY <1>1, <2>1, <2>3, WatchKept
  <1> QED
    BY <1>2, <1>3 DEF WatchInv

\* The phases of a tick.
LEMMA TickStepWatched ==
  ASSUME Ready, WatchInv, NEW t \in Ticks, TickStep(t)
  PROVE  WatchInv'
  <1>1. OneTick /\ UNCHANGED <<rec, job, boot>> /\ task \in [Ticks -> [Ids -> Frame]]
    BY DEF Ready, TypeInv, TypeOK, MonitorTypeOK, TickStep, TickBegin, SyncList, SyncDrop, StartList,
           PollList, CheckList, RetryList, TickEnd, storeVars, tickVars
  <1>2. SUFFICES ASSUME NEW id \in Ids
                 PROVE  WatchLife(id)'
    BY DEF WatchInv
  <1>3. WatchLife(id) /\ \A n \in 1..MaxStarts : job'[id][n].st # "cancelled"
    BY <1>1 DEF WatchInv, WatchLife
  <1>4. CASE UNCHANGED <<active, task>>
    <2>1. Tracked(id)' = Tracked(id) /\ \A s \in Ticks : task'[s][id] = task[s][id]
      BY <1>4 DEF Tracked
    <2> QED
      BY <1>1, <1>3, <2>1, WatchKept
  <1>5. ASSUME Quiet(t), task'[t][id].pc \in {"idle", "listed", "poll"},
               Tracked(id) => Tracked(id)' \/ Watched(id)'
        PROVE  WatchLife(id)'
    <2>1. rec'[id].state = "downloading" => id \in boot \/ Tracked(id)
      BY <1>1, <1>3, <1>5 DEF WatchLife, Watched, Quiet, At, OneTick
    <2>2. id \in boot \/ Tracked(id)' => Watched(id)'
      BY <1>1 DEF Watched
    <2> QED
      BY <1>1, <1>3, <1>5, <2>1, <2>2, WatchMoves
  <1>6. ASSUME Quiet(t), UNCHANGED active, task'[t][id].pc \in {"idle", "listed", "poll"}
        PROVE  WatchLife(id)'
    BY <1>5, <1>6 DEF Tracked
  <1>7. CASE TickBegin(t) \/ (\E p \in Providers : SyncList(t, p)) \/ TickEnd(t)
    BY <1>4, <1>7 DEF TickBegin, SyncList, TickEnd
  <1>8. CASE SyncDrop(t)
    <2> DEFINE lost == {i \in Ids : /\ Tracked(i) /\ active[i].via = tick[t].via
                                    /\ <<i, active[i].h>> \notin tick[t].seen}
    <2>1. /\ Quiet(t)
          /\ active' = [i \in Ids |-> IF i \in lost THEN Untracked ELSE active[i]]
          /\ task' = [task EXCEPT ![t] = [i \in Ids |->
               IF i \in lost THEN [Idle EXCEPT !.pc = "listed", !.then = "free",
                                               !.via = tick[t].via, !.h = active[i].h]
               ELSE Idle]]
      BY <1>8 DEF SyncDrop
    <2> HIDE DEF lost
    <2>2. task'[t][id] = IF id \in lost THEN [Idle EXCEPT !.pc = "listed", !.then = "free",
                                                          !.via = tick[t].via, !.h = active[id].h]
                         ELSE Idle
      BY <1>1, <2>1
    <2>3. CASE id \in lost
      <3>1. task'[t][id].pc = "listed" /\ task'[t][id].then = "free"
        BY <2>2, <2>3 DEF Idle
      <3>2. Watched(id)'
        BY <3>1 DEF Watched, At
      <3> QED
        BY <1>5, <2>1, <3>1, <3>2
    <2>4. CASE id \notin lost
      <3>1. active'[id] = active[id]
        BY <2>1, <2>4
      <3>2. task'[t][id].pc = "idle"
        BY <2>2, <2>4 DEF Idle
      <3> QED
        BY <1>5, <2>1, <3>1, <3>2 DEF Tracked
    <2> QED
      BY <2>3, <2>4
  <1>9. CASE StartList(t)
    <2>1. Quiet(t) /\ UNCHANGED active
      BY <1>9 DEF StartList
    <2>2. task'[t][id] \in {Idle, [Idle EXCEPT !.pc = "listed"]}
      BY <1>1, <1>9 DEF StartList, Enter
    <2>3. task'[t][id].pc \in {"idle", "listed"}
      BY <2>2 DEF Idle
    <2> QED
      BY <1>6, <2>1, <2>3
  <1>10. CASE PollList(t) \/ CheckList(t)
    <2>1. PICK pc \in {"poll", "listed"} : /\ Quiet(t) /\ UNCHANGED active
                                           /\ task' = [task EXCEPT ![t] = Snapshot(pc)]
      BY <1>10 DEF PollList, CheckList, Enter
    <2>2. task'[t][id] \in {Idle, [Idle EXCEPT !.pc = pc, !.h = active[id].h, !.via = active[id].via]}
      BY <1>1, <2>1 DEF Snapshot
    <2>3. task'[t][id].pc \in {"idle", pc}
      <3>1. PICK h : h = [Idle EXCEPT !.pc = pc, !.h = active[id].h, !.via = active[id].via]
        OBVIOUS
      <3>2. h.pc = pc
        BY <3>1 DEF Idle
      <3>3. Idle.pc = "idle"
        BY DEF Idle
      <3> QED
        BY <2>2, <3>1, <3>2, <3>3
    <2> QED
      BY <1>6, <2>1, <2>3
  <1>11. CASE RetryList(t)
    <2>1. Quiet(t) /\ UNCHANGED active
      BY <1>11 DEF RetryList
    <2>2. task'[t][id] \in {Idle, [Idle EXCEPT !.pc = "listed", !.row = rec[id]]}
      BY <1>1, <1>11 DEF RetryList, Enter
    <2>3. task'[t][id].pc \in {"idle", "listed"}
      <3>1. PICK h : h = [Idle EXCEPT !.pc = "listed", !.row = rec[id]]
        OBVIOUS
      <3>2. h.pc = "listed"
        BY <3>1 DEF Idle
      <3>3. Idle.pc = "idle"
        BY DEF Idle
      <3> QED
        BY <2>2, <3>1, <3>2, <3>3
    <2> QED
      BY <1>6, <2>1, <2>3
  <1> QED
    BY <1>7, <1>8, <1>9, <1>10, <1>11 DEF TickStep

\* What does not work on downloads brings no record to downloading.
LEMMA OthersWatched ==
  ASSUME WatchInv, UNCHANGED task,
         \A i \in Ids : Tracked(i)' = Tracked(i),
         \A i \in Ids, n \in 1..MaxStarts : job'[i][n].st \in {job[i][n].st, "done", "failed", "gone"},
         \A i \in Ids : rec'[i].state = "downloading" => /\ rec[i].state = "downloading"
                                                         /\ i \in boot => i \in boot'
  PROVE  WatchInv'
  <1>1. SUFFICES ASSUME NEW id \in Ids
                 PROVE  WatchLife(id)'
    BY DEF WatchInv
  <1>2. WatchLife(id)
    BY DEF WatchInv
  <1>3. \A n \in 1..MaxStarts : job'[id][n].st # "cancelled"
    BY <1>2 DEF WatchLife
  <1>4. Watched(id) /\ rec'[id].state = "downloading" => Watched(id)'
    BY DEF Watched, At
  <1> QED
    BY <1>2, <1>3, <1>4 DEF WatchLife, At

LEMMA ResolverStepWatched ==
  ASSUME Ready, WatchInv, ResolverStep
  PROVE  WatchInv'
  <1>1. UNCHANGED <<task, active, job, boot>> /\ rec \in [Ids -> Row]
    BY Typed DEF Ready, ResolverStep, ResolveList, ResolveEnd, ResolveSearch, ResolveWrite,
                 storeVars, monitorVars, tickVars
  <1>2. ASSUME NEW i \in Ids, rec'[i].state = "downloading"
        PROVE  rec[i].state = "downloading"
    <2>1. CASE rec' = rec
      BY <1>2, <2>1
    <2>2. ASSUME NEW id \in Ids, ResolveWrite(id)
          PROVE  rec[i].state = "downloading"
      <3>1. Update(id, res[id].row) /\ res[id].pc # "idle"
        BY <2>2 DEF ResolveWrite
      <3>2. res[id].row.state # "downloading"
        BY <3>1 DEF Ready, HandoverInv, ResolverCopies
      <3> QED
        BY <1>1, <1>2, <3>1, <3>2 DEF Update
    <2> QED
      BY <2>1, <2>2 DEF ResolverStep, ResolveList, ResolveEnd, ResolveSearch, storeVars
  <1> QED
    BY <1>1, <1>2, OthersWatched DEF Tracked

LEMMA BootStepWatched ==
  ASSUME Ready, WatchInv, BootStep
  PROVE  WatchInv'
  <1>1. UNCHANGED <<task, active, job>> /\ rec \in [Ids -> Row]
    BY Typed DEF Ready, BootStep, Start, Recover, Revisit, storeVars
  <1>2. ASSUME NEW i \in Ids, rec'[i].state = "downloading"
        PROVE  rec[i].state = "downloading" /\ (i \in boot => i \in boot')
    <2>1. CASE Start
      BY <1>2, <2>1 DEF Start, storeVars
    <2>2. ASSUME NEW id \in Ids, Recover(id)
          PROVE  rec[i].state = "downloading" /\ (i \in boot => i \in boot')
      <3>1. boot' = boot \ {id}
        BY <2>2 DEF Recover, Revisit
      <3>2. CASE rec' = rec /\ rec[id].state \notin {"downloading", "importing"}
        BY <1>2, <3>1, <3>2
      <3>3. CASE rec' = [rec EXCEPT ![id].state = "failed"]
        <4>1. rec'[id].state = "failed" /\ \A j \in Ids : j # id => rec'[j] = rec[j]
          BY <1>1, <3>3, StateWritten DEF Ready
        <4> QED
          BY <1>2, <3>1, <4>1
      <3> QED
        BY <2>2, <3>2, <3>3 DEF Recover, UpdateProgress
    <2> QED
      BY <2>1, <2>2 DEF BootStep
  <1> QED
    BY <1>1, <1>2, OthersWatched DEF Tracked

LEMMA TimeStepWatched ==
  ASSUME Ready, WatchInv, TimeStep
  PROVE  WatchInv'
  <1>1. UNCHANGED <<task, job, boot>> /\ rec \in [Ids -> Row] /\ active \in [Ids -> Track]
    BY Typed DEF Ready, TimeStep, BackoffElapses, DeadlinePasses, monitorVars, storeVars, tickVars
  <1>2. PICK id \in Ids : BackoffElapses(id) \/ DeadlinePasses(id)
    BY DEF TimeStep
  <1>3. \A i \in Ids : rec'[i].state = rec[i].state
    BY <1>1, <1>2 DEF BackoffElapses, DeadlinePasses, storeVars, Row
  <1>4. \A i \in Ids : active'[i].h = active[i].h
    BY <1>1, <1>2 DEF BackoffElapses, DeadlinePasses, monitorVars, Track
  <1> QED
    BY <1>1, <1>3, <1>4, OthersWatched DEF Tracked

LEMMA ServiceStepWatched ==
  ASSUME MaxUserRetries = 0, MaxCancels = 0, Ready, WatchInv, ServiceStep
  PROVE  WatchInv'
  <1>1. PICK id \in Ids : Queue(id) \/ QueuePending(id)
    BY ServiceQueues
  <1>2. UNCHANGED <<task, active, job, boot>> /\ rec \in [Ids -> Row]
    BY <1>1, Typed DEF Ready, ServiceStep, Queue, QueuePending, monitorVars, tickVars
  <1>3. rec'[id].state = "queued" /\ \A i \in Ids : i # id => rec'[i] = rec[i]
    BY <1>1, <1>2, QueueInserts
  <1> QED
    BY <1>2, <1>3, OthersWatched DEF Tracked

\* The importer has a record that has left downloading.
LEMMA ImporterStepWatched ==
  ASSUME Ready, WatchInv, ImporterStep
  PROVE  WatchInv'
  <1>1. PICK id \in Ids, w \in Workers : ImpStep(id, w)
    BY DEF ImporterStep
  <1>2. UNCHANGED <<task, active, job, boot>> /\ rec \in [Ids -> Row]
    BY <1>1, Typed DEF Ready, ImporterStep, monitorVars, tickVars, ImpStep, ImpBegin, ImpCas, ImpCheck,
                       ImpRename, ImpRest, ImpAlbum, ImpFinal, ImpFail, storeVars
  <1>3. rec[id].state \in {"importPending", "importing"}
    <2>1. Busy(id)
      BY <1>1 DEF Busy, ImpStep, ImpBegin, ImpCas, ImpCheck, ImpRename, ImpRest, ImpAlbum, ImpFinal,
                  ImpFail, ImpAt
    <2> QED
      BY <2>1, ReadyFor DEF Alone, OneImport, RowLife
  <1>4. Edge(rec[id], rec'[id])
    BY ImporterStepAdvances DEF Advances, LivesOn
  <1>5. rec'[id].state # "downloading"
    BY <1>3, <1>4 DEF Edge, Stays
  <1>6. ASSUME NEW i \in Ids, i # id
        PROVE  rec'[i] = rec[i]
    <2>1. rec' = rec \/ (\E x : Update(id, x)) \/ TransitionState(id, "importPending", "importing")
      BY <1>1 DEF ImpStep, ImpBegin, ImpCas, ImpCheck, ImpRename, ImpRest, ImpAlbum, ImpFinal,
                  ImpFail, storeVars
    <2> QED
      BY <1>2, <1>6, <2>1 DEF Update, TransitionState
  <1> QED
    BY <1>2, <1>5, <1>6, OthersWatched DEF Tracked

LEMMA ProviderStepWatched ==
  ASSUME ~ProviderCancels, Ready, WatchInv, ProviderStep
  PROVE  WatchInv'
  <1>1. PICK id \in Ids, n \in 1..MaxStarts : JobEnds(id, n) \/ JobLost(id, n)
    BY DEF ProviderStep
  <1>2. UNCHANGED <<task, active, rec, boot>> /\ job \in [Ids -> [1..MaxStarts -> Job]]
    BY <1>1 DEF Ready, TypeInv, TypeOK, StoreTypeOK, ProviderStep, monitorVars, tickVars, JobEnds, JobLost
  <1>3. PICK s \in {"done", "failed", "gone"} : Mark(id, n, s)
    BY <1>1 DEF JobEnds, JobLost
  <1>4. PICK h : h = [job[id][n] EXCEPT !.st = s]
    OBVIOUS
  <1>5. h.st = s
    BY <1>2, <1>4 DEF Job
  <1>6. \A i \in Ids, m \in 1..MaxStarts : job'[i][m] = IF i = id /\ m = n THEN h ELSE job[i][m]
    BY <1>2, <1>3, <1>4 DEF Mark, SetJob
  <1>7. \A i \in Ids, m \in 1..MaxStarts : job'[i][m].st \in {job[i][m].st, "done", "failed", "gone"}
    BY <1>5, <1>6
  <1> QED
    BY <1>2, <1>7, OthersWatched DEF Tracked

\* After a restart recovery looks at every row there is.
LEMMA CrashWatched ==
  ASSUME Ready, WatchInv, Crash
  PROVE  WatchInv'
  <1>1. SUFFICES ASSUME NEW id \in Ids
                 PROVE  WatchLife(id)'
    BY DEF WatchInv
  <1>2. /\ rec' = rec /\ boot' = {i \in Ids : rec[i].state # "absent"} /\ task' = NoTask
        /\ job \in [Ids -> [1..MaxStarts -> Job]]
    BY DEF Crash, MonitorReset, Ready, TypeInv, TypeOK, StoreTypeOK
  <1>3. ASSUME NEW n \in 1..MaxStarts
        PROVE  job'[id][n].st # "cancelled"
    <2>1. PICK h : h = [job[id][n] EXCEPT !.st = "gone"]
      OBVIOUS
    <2>2. h.st = "gone"
      BY <1>2, <2>1 DEF Job
    <2>3. job'[id][n] = IF Listed(id, n) /\ job[id][n].via \in InProcess THEN h ELSE job[id][n]
      BY <2>1 DEF Crash
    <2> QED
      BY <2>2, <2>3 DEF WatchInv, WatchLife
  <1>4. \A t \in Ticks : task'[t][id].pc = "idle"
    BY <1>2 DEF NoTask, Idle
  <1>5. rec'[id].state = "downloading" => Watched(id)'
    BY <1>2 DEF Watched
  <1> QED
    BY <1>3, <1>4, <1>5 DEF WatchLife, At

LEMMA WatchInit ==
  ASSUME Init
  PROVE  WatchInv
  <1>1. ASSUME NEW id \in Ids
        PROVE  WatchLife(id)
    <2>1. rec[id].state = "absent" /\ \A n \in 1..MaxStarts : job[id][n].st = "none"
      BY DEF Init, StoreInit, NoRow, NoJob
    <2>2. \A t \in Ticks : task[t][id].pc = "idle"
      BY DEF Init, MonitorInit, NoTask, Idle
    <2> QED
      BY <2>1, <2>2 DEF WatchLife, At
  <1> QED
    BY <1>1 DEF WatchInv

LEMMA WatchNext ==
  ASSUME MaxUserRetries = 0, MaxCancels = 0, ~ProviderCancels, Ready, SlotInv, WatchInv, [Next]_vars
  PROVE  WatchInv'
  <1>1. CASE ServiceStep
    BY <1>1, ServiceStepWatched
  <1>2. CASE MonitorStep
    <2>1. UNCHANGED <<imp, can>>
      BY <1>2 DEF MonitorStep, serviceVars
    <2> QED
      BY <1>2, <2>1, TickStepWatched, TaskStepWatched, ResolverStepWatched, BootStepWatched,
         TimeStepWatched
      DEF MonitorStep, MonitorNext
  <1>3. CASE ImporterStep
    BY <1>3, ImporterStepWatched
  <1>4. CASE ProviderStep
    BY <1>4, ProviderStepWatched
  <1>5. CASE Crash
    BY <1>5, CrashWatched
  <1>6. CASE UNCHANGED vars
    BY <1>6, OthersWatched DEF vars, storeVars, serviceVars, monitorVars, tickVars, Tracked
  <1> QED
    BY <1>1, <1>2, <1>3, <1>4, <1>5, <1>6 DEF Next

\* The tracking map against the downloads table: no record stays behind in
\* downloading.  Whatever is downloading is tracked, about to be tracked or to be
\* failed by the tick at work on it, or still to be looked at by recovery.
THEOREM DownloadingAlwaysWatched ==
  ASSUME OneTick, MaxUserRetries = 0, MaxCancels = 0, ~ProviderCancels
  PROVE  Spec => []DownloadingWatched
  <1>1. TypeInv /\ HandoverInv /\ SlotInv /\ ExclusiveInv /\ LifeInv /\ WatchInv /\ [Next]_vars
          => WatchInv'
    <2>1. SUFFICES ASSUME TypeInv, HandoverInv, SlotInv, ExclusiveInv, LifeInv, WatchInv, [Next]_vars
                   PROVE  WatchInv'
      OBVIOUS
    <2>2. Ready
      BY <2>1, TypeNext DEF Ready
    <2> QED
      BY <2>1, <2>2, WatchNext
  <1>2. WatchInv => DownloadingWatched
    BY DEF WatchInv, WatchLife, DownloadingWatched
  <1> QED
    BY <1>1, <1>2, WatchInit, TypeCorrect, HandoverHolds, SlotsInvariant, ExclusiveHolds, LifeHolds, PTL
    DEF Spec

----------------------------------------------------------------------------
(* What is imported is what was dispatched.                                *)

\* Of the steps of a tick, those that write a record in downloading write the
\* source it has.
LEMMA TaskKeepsSource ==
  ASSUME Ready, NEW t \in Ticks, NEW id \in Ids, TaskStep(t, id), rec[id].state = "downloading"
  PROVE  rec'[id].via = rec[id].via
  <1> DEFINE f == task[t][id]
  <1>1. /\ TypeInv /\ HandoverInv /\ Alone(id) /\ Life(id) /\ TaskLife(t, id) /\ rec \in [Ids -> Row]
    BY ReadyFor, Typed DEF Ready, Life
  <1>2. \A s : rec' = [rec EXCEPT ![id].state = s] => rec'[id].via = rec[id].via
    BY <1>1, StateWritten DEF Copies
  <1>3. CASE rec' = rec
    BY <1>3
  <1>4. CASE StartCas(t, id) \/ FailCas(t, id) \/ PollComplete(t, id)
    BY <1>2, <1>4 DEF StartCas, FailCas, PollComplete, TransitionState
  <1>5. CASE PollProgress(t, id) \/ PollFilePath(t, id)
    BY <1>2, <1>5 DEF PollProgress, PollFilePath, UpdateProgress
  <1>6. CASE StartPersist(t, id)
    <2>1. f.row \in Row /\ Copies(f.row, rec[id])
      BY <1>1, <1>6, Typed DEF StartPersist, TaskLife, At, Frame
    <2>2. PICK h : h = [f.row EXCEPT !.pid = f.h]
      OBVIOUS
    <2>3. h.via = f.row.via
      BY <2>1, <2>2 DEF Row
    <2>4. rec'[id] = h
      BY <1>1, <1>6, <2>2 DEF StartPersist, Update
    <2> QED
      BY <2>1, <2>3, <2>4 DEF Copies
  <1>7. ~FailWrite(t, id) /\ ~ScanWrite(t, id)
    BY <1>1, Position DEF FailWrite, ScanWrite, At, Retryable
  <1> QED
    BY <1>3, <1>4, <1>5, <1>6, <1>7
    DEF TaskStep, SyncFail, StartPick, StartAcquire, StartLaunch, StartFails, StartReread, PollBegin,
        PollStatus, PollAnnounce, CheckGet, CheckAbort, FailGet, FailReget, Leave, ScanSearch, storeVars

LEMMA StepKeepsSource ==
  ASSUME MaxUserRetries = 0, MaxCancels = 0, Ready, [Next]_vars,
         NEW id \in Ids, rec[id].state = "downloading"
  PROVE  rec'[id].via = rec[id].via
  <1>1. TypeInv /\ rec \in [Ids -> Row]
    BY Typed DEF Ready
  <1>2. \A i \in Ids : \A s : rec' = [rec EXCEPT ![i].state = s] => rec'[id].via = rec[id].via
    BY <1>1, StateWritten DEF Copies
  <1>3. CASE rec' = rec
    BY <1>3
  <1>4. CASE ServiceStep
    <2>1. PICK i \in Ids : Queue(i) \/ QueuePending(i)
      BY <1>4, ServiceQueues
    <2>2. i # id
      BY <2>1 DEF Queue, QueuePending
    <2> QED
      BY <1>1, <2>1, <2>2, QueueInserts
  <1>5. ASSUME NEW t \in Ticks, NEW i \in Ids, TaskStep(t, i)
        PROVE  rec'[id].via = rec[id].via
    <2>1. CASE i = id
      BY <1>5, <2>1, TaskKeepsSource
    <2>2. CASE i # id
      BY <1>1, <1>5, <2>2, OthersKept
    <2> QED
      BY <2>1, <2>2
  <1>6. CASE ResolverStep
    <2>1. ASSUME NEW i \in Ids, ResolveWrite(i)
          PROVE  rec'[id].via = rec[id].via
      <3>1. rec[i].state = "queued" /\ Update(i, res[i].row)
        BY <2>1, ResolverHolds DEF ResolveWrite
      <3> QED
        BY <1>1, <3>1 DEF Update
    <2> QED
      BY <1>3, <1>6, <2>1 DEF ResolverStep, ResolveList, ResolveEnd, ResolveSearch, storeVars
  <1>7. CASE BootStep
    BY <1>2, <1>3, <1>7 DEF BootStep, Start, Recover, Revisit, UpdateProgress, storeVars
  <1>8. CASE TimeStep
    BY <1>1, <1>3, <1>8 DEF TimeStep, BackoffElapses, DeadlinePasses, storeVars, Row
  <1>9. CASE ImporterStep
    <2>1. PICK i \in Ids, w \in Workers : ImpStep(i, w)
      BY <1>9 DEF ImporterStep
    <2>2. Busy(i)
      BY <2>1 DEF Busy, ImpStep, ImpBegin, ImpCas, ImpCheck, ImpRename, ImpRest, ImpAlbum, ImpFinal,
                  ImpFail, ImpAt
    <2>3. i # id
      BY <2>2, ReadyFor DEF Alone, OneImport
    <2>4. rec' = rec \/ (\E x : Update(i, x)) \/ TransitionState(i, "importPending", "importing")
      BY <2>1 DEF ImpStep, ImpBegin, ImpCas, ImpCheck, ImpRename, ImpRest, ImpAlbum, ImpFinal,
                  ImpFail, storeVars
    <2> QED
      BY <1>1, <2>3, <2>4 DEF Update, TransitionState
  <1>10. CASE ProviderStep \/ Crash \/ UNCHANGED vars
    BY <1>3, <1>10 DEF ProviderStep, JobEnds, JobLost, JobCancelled, Crash, vars, storeVars
  <1>11. CASE MonitorStep
    BY <1>3, <1>5, <1>6, <1>7, <1>8, <1>11
    DEF MonitorStep, MonitorNext, TickStep, TickBegin, SyncList, SyncDrop, StartList, PollList, CheckList,
        RetryList, TickEnd, storeVars
  <1> QED
    BY <1>4, <1>9, <1>10, <1>11 DEF Next

\* The tracking map against the resolver and scanRetry: while a transfer is
\* tracked nobody replaces the source in the row, so that the importer reads the
\* source the files came from.
THEOREM SourceAlwaysStable ==
  ASSUME OneTick, MaxUserRetries = 0, MaxCancels = 0
  PROVE  Spec => SourceStable
  <1>1. TypeInv /\ HandoverInv /\ ExclusiveInv /\ LifeInv /\ [Next]_vars
          => [\A id \in Ids : Tracked(id) /\ Tracked(id)' /\ rec[id].state = "downloading"
                => rec'[id].via = rec[id].via]_vars
    <2>1. SUFFICES ASSUME TypeInv, HandoverInv, ExclusiveInv, LifeInv, [Next]_vars,
                          NEW id \in Ids, rec[id].state = "downloading"
                   PROVE  rec'[id].via = rec[id].via
      OBVIOUS
    <2>2. Ready
      BY <2>1, TypeNext DEF Ready
    <2> QED
      BY <2>1, <2>2, StepKeepsSource
  <1> QED
    BY <1>1, LifeHolds, TypeCorrect, HandoverHolds, ExclusiveHolds, PTL DEF Spec, SourceStable
=============================================================================
