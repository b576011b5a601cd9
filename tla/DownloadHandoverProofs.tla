------------------------ MODULE DownloadHandoverProofs ------------------------
(***************************************************************************)
(* Type correctness of the download pipeline, and proof that a downloaded  *)
(* file is never forgotten: HandoverInv, and with it ImportPendingHandled  *)
(* and ImportingHandled, is an invariant of the pipeline for every value   *)
(* of the constants: any number of downloads, workers, cancels, manual     *)
(* retries and restarts, and also when ticks overlap.                      *)
(*                                                                         *)
(* Rows are overwritten from stale copies all the time.  The argument is   *)
(* that none of the copies can bring back importPending or importing       *)
(* (the first four conjuncts of HandoverInv), so that a record is in one   *)
(* of the two only because of the compare-and-swap that put it there, and  *)
(* that whoever won the swap leaves a successor before it goes.            *)
(***************************************************************************)
EXTENDS DownloadInvariants, TLAPS

----------------------------------------------------------------------------
(* The values that the actions store.                                      *)

LEMMA NoRowTyped == NoRow \in Row
  BY StoreAssumption DEF NoRow, Row, States, Terminal

LEMMA IdleTyped == Idle \in Frame
  BY StoreAssumption, NoRowTyped DEF Idle, Frame, Pcs, Handles, JobStates

LEMMA UntrackedTyped == Untracked \in Track
  <1>1. 0 \in Handles
    BY StoreAssumption DEF Handles
  <1> QED
    BY <1>1, StoreAssumption DEF Untracked, Track

LEMMA NoRetTyped == NoRet \in RetFrame
  <1>1. (CHOOSE id \in Ids : TRUE) \in Ids
    BY StoreAssumption
  <1> QED
    BY <1>1, NoRowTyped DEF NoRet, RetFrame

LEMMA WithSourceTyped ==
  ASSUME NEW r \in Row, NEW p \in Providers
  PROVE  WithSource(r, p) \in Row
  BY DEF WithSource, Row

\* A copy of a row in another state is a row.
LEMMA StateTyped ==
  ASSUME NEW r \in Row, NEW s \in States
  PROVE  [r EXCEPT !.state = s] \in Row
  BY DEF Row

----------------------------------------------------------------------------
(* What a step of a tick does to the frames: Set replaces one of them.     *)

LEMMA SetFrame ==
  ASSUME task \in [Ticks -> [Ids -> Frame]], NEW t \in Ticks, NEW id \in Ids,
         NEW f \in Frame, Set(t, id, f)
  PROVE  /\ task' \in [Ticks -> [Ids -> Frame]]
         /\ task'[t][id] = f
         /\ \A s \in Ticks, i \in Ids :
              s # t \/ i # id => task'[s][i] = task[s][i]
  BY DEF Set

LEMMA SetImp ==
  ASSUME imp \in [Ids -> [Workers -> ImpFrame]], NEW id \in Ids, NEW w \in Workers,
         NEW f \in ImpFrame, ImpSet(id, w, f)
  PROVE  /\ imp' \in [Ids -> [Workers -> ImpFrame]]
         /\ imp'[id][w] = f
         /\ \A i \in Ids, v \in Workers :
              i # id \/ v # w => imp'[i][v] = imp[i][v]
  BY DEF ImpSet

LEMMA SetJobTyped ==
  ASSUME job \in [Ids -> [1..MaxStarts -> Job]], NEW id \in Ids, NEW n \in 1..MaxStarts,
         NEW j \in Job, SetJob(id, n, j)
  PROVE  job' \in [Ids -> [1..MaxStarts -> Job]]
  BY DEF SetJob

LEMMA MarkTyped ==
  ASSUME job \in [Ids -> [1..MaxStarts -> Job]], NEW id \in Ids, NEW n \in 1..MaxStarts,
         NEW s \in JobStates, Mark(id, n, s)
  PROVE  job' \in [Ids -> [1..MaxStarts -> Job]]
  <1> DEFINE j == [job[id][n] EXCEPT !.st = s]
  <1>1. job[id][n] \in Job
    OBVIOUS
  <1>2. j \in Job
    BY <1>1 DEF Job
  <1>3. SetJob(id, n, j)
    BY DEF Mark
  <1> HIDE DEF j
  <1> QED
    BY <1>2, <1>3, SetJobTyped

LEMMA ProviderCancelTyped ==
  ASSUME job \in [Ids -> [1..MaxStarts -> Job]], NEW id \in Ids, NEW n \in Handles,
         NEW p, ProviderCancel(id, n, p)
  PROVE  job' \in [Ids -> [1..MaxStarts -> Job]]
  <1>1. CASE UNCHANGED job
    BY <1>1
  <1>2. ASSUME n # 0, NEW s \in {"cancelled", "gone"}, Mark(id, n, s)
        PROVE  job' \in [Ids -> [1..MaxStarts -> Job]]
    <2>1. n \in 1..MaxStarts /\ s \in JobStates
      BY <1>2, StoreAssumption DEF Handles, JobStates
    <2> QED
      BY <1>2, <2>1, MarkTyped
  <1> QED
    BY <1>1, <1>2 DEF ProviderCancel

\* The three ways a frame moves on: its fields other than pc and then stay.
LEMMA GoFrame ==
  ASSUME NEW f \in Frame, NEW pc \in Pcs
  PROVE  /\ [f EXCEPT !.pc = pc] \in Frame
         /\ [f EXCEPT !.pc = pc].pc = pc
         /\ [f EXCEPT !.pc = pc].then = f.then
         /\ [f EXCEPT !.pc = pc].via = f.via
         /\ [f EXCEPT !.pc = pc].h = f.h
         /\ [f EXCEPT !.pc = pc].row = f.row
  BY DEF Frame

LEMMA ThenFrame ==
  ASSUME NEW f \in Frame, NEW pc \in Pcs, NEW then \in {"none", "free", "drop"}
  PROVE  /\ [f EXCEPT !.pc = pc, !.then = then] \in Frame
         /\ [f EXCEPT !.pc = pc, !.then = then].pc = pc
         /\ [f EXCEPT !.pc = pc, !.then = then].then = then
         /\ [f EXCEPT !.pc = pc, !.then = then].via = f.via
         /\ [f EXCEPT !.pc = pc, !.then = then].h = f.h
         /\ [f EXCEPT !.pc = pc, !.then = then].row = f.row
  BY DEF Frame

----------------------------------------------------------------------------
(* The frames that the steps of a tick for one id leave behind.            *)

\* A frame that may stand in task[t].
FrameFits(t, f) ==
  /\ f \in Frame
  /\ f.pc \in {"cas", "launch"} => f.via \in Providers
  /\ f.pc \in {"poll", "status"} => f.h # 0
  /\ In(t, "retry") /\ f.pc = "listed" => f.row.tries < MaxRetries

SetsFrame(t, id) == \E f : FrameFits(t, f) /\ Set(t, id, f)

LEMMA IdleFits ==
  ASSUME NEW t \in Ticks, NEW id \in Ids, Set(t, id, Idle)
  PROVE  SetsFrame(t, id)
  <1>1. FrameFits(t, Idle)
    BY IdleTyped DEF FrameFits, Idle
  <1> QED
    BY <1>1 DEF SetsFrame

\* Going on to a position that asks nothing of the frame.
LEMMA GoFits ==
  ASSUME NEW t \in Ticks, NEW id \in Ids, task[t][id] \in Frame,
         NEW pc \in Pcs \ {"cas", "launch", "poll", "status", "listed"},
         Go(t, id, pc)
  PROVE  SetsFrame(t, id)
  <1> DEFINE f == [task[t][id] EXCEPT !.pc = pc]
  <1>1. f \in Frame /\ f.pc = pc
    BY GoFrame
  <1>2. Set(t, id, f)
    BY DEF Go
  <1> HIDE DEF f
  <1> QED
    BY <1>1, <1>2 DEF SetsFrame, FrameFits

LEMMA ThenFits ==
  ASSUME NEW t \in Ticks, NEW id \in Ids, task[t][id] \in Frame,
         NEW then \in {"none", "free", "drop"},
         Exit(t, id, then) \/ Fail(t, id, then)
  PROVE  SetsFrame(t, id)
  <1> DEFINE f(pc) == [task[t][id] EXCEPT !.pc = pc, !.then = then]
  <1>1. ASSUME NEW pc \in {"exit", "failGet"} PROVE f(pc) \in Frame /\ f(pc).pc = pc
    BY DEF Frame, Pcs
  <1>2. Set(t, id, f("exit")) \/ Set(t, id, f("failGet"))
    BY DEF Exit, Fail
  <1> HIDE DEF f
  <1> QED
    BY <1>1, <1>2 DEF SetsFrame, FrameFits

\* Every step of a tick for one id replaces that id's frame by one that fits.
LEMMA TaskStepFrame ==
  ASSUME TypeInv, NEW t \in Ticks, NEW id \in Ids, TaskStep(t, id)
  PROVE  SetsFrame(t, id)
  <1>1. task[t][id] \in Frame /\ rec[id] \in Row /\ active[id] \in Track
    BY DEF TypeInv, TypeOK, StoreTypeOK, MonitorTypeOK
  <1>2. FrameTyped(t, id)
    BY DEF TypeInv
  <1> USE <1>1
  <1>3. CASE SyncFail(t, id)
    BY <1>3, GoFits DEF SyncFail, Pcs
  <1>4. CASE StartPick(t, id)
    <2>1. CASE Set(t, id, Idle)
      BY <2>1, IdleFits
    <2>2. CASE ~Set(t, id, Idle)
      <3> DEFINE f == [Idle EXCEPT !.pc = "acquire", !.row = rec[id],
                                   !.via = Gate(id, rec[id])]
      <3>1. Gate(id, rec[id]) \in Providers \cup {PendingSource}
        BY StoreAssumption DEF Gate, Row
      <3>2. f \in Frame /\ f.pc = "acquire"
        BY <3>1, IdleTyped DEF Frame, Pcs
      <3>3. Set(t, id, f)
        BY <1>4, <2>2 DEF StartPick
      <3> HIDE DEF f
      <3> QED
        BY <3>2, <3>3 DEF SetsFrame, FrameFits
    <2> QED
      BY <2>1, <2>2
  <1>5. CASE StartAcquire(t, id)
    <2>1. CASE Set(t, id, Idle)
      BY <2>1, IdleFits
    <2>2. CASE Fail(t, id, "none")
      BY <2>2, ThenFits
    <2>3. CASE Go(t, id, "cas") /\ task[t][id].via \in Providers
      <3> DEFINE f == [task[t][id] EXCEPT !.pc = "cas"]
      <3>4. "cas" \in Pcs
        BY DEF Pcs
      <3>1. f \in Frame /\ f.pc = "cas" /\ f.via = task[t][id].via
        BY <3>4, GoFrame
      <3>2. Set(t, id, f)
        BY <2>3 DEF Go
      <3> HIDE DEF f
      <3> QED
        BY <2>3, <3>1, <3>2 DEF SetsFrame, FrameFits
    <2>4. CASE /\ Set(t, id, [task[t][id] EXCEPT !.pc = "cas", !.then = "free"])
               /\ task[t][id].via \in Providers
      <3> DEFINE f == [task[t][id] EXCEPT !.pc = "cas", !.then = "free"]
      <3>1. f \in Frame /\ f.pc = "cas" /\ f.via = task[t][id].via
        BY DEF Frame, Pcs
      <3>2. Set(t, id, f)
        BY <2>4
      <3> HIDE DEF f
      <3> QED
        BY <2>4, <3>1, <3>2 DEF SetsFrame, FrameFits
    <2> QED
      BY <1>5, <2>1, <2>2, <2>3, <2>4 DEF StartAcquire
  <1>6. CASE StartCas(t, id)
    <2>1. CASE Go(t, id, "launch")
      <3> DEFINE f == [task[t][id] EXCEPT !.pc = "launch"]
      <3>1. f \in Frame /\ f.pc = "launch" /\ f.via = task[t][id].via
        BY GoFrame DEF Pcs
      <3>2. task[t][id].via \in Providers
        BY <1>2, <1>6 DEF StartCas, At, FrameTyped
      <3>3. Set(t, id, f)
        BY <2>1 DEF Go
      <3> HIDE DEF f
      <3> QED
        BY <3>1, <3>2, <3>3 DEF SetsFrame, FrameFits
    <2>2. CASE Go(t, id, "exit")
      BY <2>2, GoFits DEF Pcs
    <2> QED
      BY <1>6, <2>1, <2>2 DEF StartCas
  <1>7. CASE StartLaunch(t, id)
    <2>1. PICK n \in 1..MaxStarts :
            Set(t, id, [task[t][id] EXCEPT !.pc = "reread", !.then = "none", !.h = n])
      BY <1>7 DEF StartLaunch, NextHandle
    <2> DEFINE f == [task[t][id] EXCEPT !.pc = "reread", !.then = "none", !.h = n]
    <2>2. n \in Handles
      BY StoreAssumption DEF Handles
    <2>3. f \in Frame /\ f.pc = "reread"
      BY <2>2 DEF Frame, Pcs
    <2>4. Set(t, id, f)
      BY <2>1
    <2> HIDE DEF f
    <2> QED
      BY <2>3, <2>4 DEF SetsFrame, FrameFits
  <1>8. CASE StartFails(t, id)
    <2>1. task[t][id].then \in {"none", "free", "drop"}
      BY DEF Frame
    <2> QED
      BY <1>8, <2>1, ThenFits DEF StartFails
  <1>9. CASE StartReread(t, id)
    <2>1. CASE Set(t, id, Idle)
      BY <2>1, IdleFits
    <2>2. CASE ~Set(t, id, Idle)
      <3> DEFINE f == [task[t][id] EXCEPT !.pc = "persist", !.row = rec[id]]
      <3>1. f \in Frame /\ f.pc = "persist"
        BY DEF Frame, Pcs
      <3>2. Set(t, id, f)
        BY <1>9, <2>2 DEF StartReread
      <3> HIDE DEF f
      <3> QED
        BY <3>1, <3>2 DEF SetsFrame, FrameFits
    <2> QED
      BY <2>1, <2>2
  <1>10. CASE StartPersist(t, id) \/ ScanWrite(t, id)
    BY <1>10, IdleFits DEF StartPersist, ScanWrite
  <1>11. CASE PollBegin(t, id)
    <2>1. CASE Set(t, id, Idle)
      BY <2>1, IdleFits
    <2>2. CASE Fail(t, id, "drop")
      BY <2>2, ThenFits
    <2>3. CASE Go(t, id, "status")
      <3> DEFINE f == [task[t][id] EXCEPT !.pc = "status"]
      <3>1. f \in Frame /\ f.pc = "status" /\ f.h = task[t][id].h
        BY GoFrame DEF Pcs
      <3>2. task[t][id].h # 0
        BY <1>2, <1>11 DEF PollBegin, At, FrameTyped
      <3>3. Set(t, id, f)
        BY <2>3 DEF Go
      <3> HIDE DEF f
      <3> QED
        BY <3>1, <3>2, <3>3 DEF SetsFrame, FrameFits
    <2> QED
      BY <1>11, <2>1, <2>2, <2>3 DEF PollBegin
  <1>12. CASE PollStatus(t, id)
    <2>1. CASE Set(t, id, Idle)
      BY <2>1, IdleFits
    <2>2. CASE ~Set(t, id, Idle)
      <3> DEFINE st == job[id][task[t][id].h].st
      <3> DEFINE f == [task[t][id] EXCEPT !.pc = "progress", !.st = st]
      <3>1. task[t][id].h \in 1..MaxStarts
        BY <1>2, <1>12, StoreAssumption DEF PollStatus, At, FrameTyped, Frame, Handles
      <3>2. st \in JobStates
        BY <3>1 DEF TypeInv, TypeOK, StoreTypeOK, Job
      <3>3. Set(t, id, f)
        BY <1>12, <2>2 DEF PollStatus
      <3> HIDE DEF st
      <3>4. f \in Frame /\ f.pc = "progress"
        BY <3>2 DEF Frame, Pcs
      <3> HIDE DEF f
      <3> QED
        BY <3>3, <3>4 DEF SetsFrame, FrameFits
    <2> QED
      BY <2>1, <2>2
  <1>13. CASE PollProgress(t, id)
    BY <1>13, GoFits, ThenFits, IdleFits DEF PollProgress, Pcs
  <1>14. CASE PollComplete(t, id)
    BY <1>14, GoFits, ThenFits DEF PollComplete, Pcs
  <1>15. CASE PollFilePath(t, id)
    BY <1>15, GoFits DEF PollFilePath, Pcs
  <1>16. CASE PollAnnounce(t, id)
    BY <1>16, ThenFits DEF PollAnnounce
  <1>17. CASE CheckGet(t, id)
    BY <1>17, GoFits, ThenFits, IdleFits DEF CheckGet, Pcs
  <1>18. CASE CheckAbort(t, id)
    BY <1>18, ThenFits DEF CheckAbort
  <1>19. CASE FailGet(t, id)
    <2>1. CASE Go(t, id, "exit")
      BY <2>1, GoFits DEF Pcs
    <2>2. CASE ~Go(t, id, "exit")
      <3> DEFINE f == [task[t][id] EXCEPT !.pc = "failCas", !.row = rec[id]]
      <3>1. f \in Frame /\ f.pc = "failCas"
        BY DEF Frame, Pcs
      <3>2. Set(t, id, f)
        BY <1>19, <2>2 DEF FailGet
      <3> HIDE DEF f
      <3> QED
        BY <3>1, <3>2 DEF SetsFrame, FrameFits
    <2> QED
      BY <2>1, <2>2
  <1>20. CASE FailCas(t, id)
    BY <1>20, GoFits DEF FailCas, Pcs
  <1>21. CASE FailReget(t, id)
    <2> DEFINE r == [rec[id] EXCEPT !.state = "failed"]
    <2> DEFINE f == [task[t][id] EXCEPT !.pc = "failWrite", !.row = r]
    <2>1. r \in Row
      BY StateTyped DEF States, Terminal
    <2>2. Set(t, id, f)
      BY <1>21 DEF FailReget
    <2> HIDE DEF r
    <2>3. f \in Frame /\ f.pc = "failWrite"
      BY <2>1 DEF Frame, Pcs
    <2> HIDE DEF f
    <2> QED
      BY <2>2, <2>3 DEF SetsFrame, FrameFits
  <1>22. CASE FailWrite(t, id)
    BY <1>22, GoFits DEF FailWrite, Pcs
  <1>23. CASE Leave(t, id)
    BY <1>23, IdleFits DEF Leave
  <1>24. CASE ScanSearch(t, id)
    <2>1. CASE Set(t, id, Idle)
      BY <2>1, IdleFits
    <2>2. CASE ~Set(t, id, Idle)
      <3>1. PICK r0 \in Resolved(task[t][id].row) :
              Set(t, id, [task[t][id] EXCEPT
                            !.pc = "write",
                            !.row = [r0 EXCEPT !.state = "queued",
                                               !.tries = r0.tries + 1,
                                               !.wait = TRUE]])
        BY <1>24, <2>2 DEF ScanSearch
      <3> DEFINE r == [r0 EXCEPT !.state = "queued", !.tries = r0.tries + 1, !.wait = TRUE]
      <3> DEFINE f == [task[t][id] EXCEPT !.pc = "write", !.row = r]
      <3>2. task[t][id].row \in Row /\ task[t][id].row.tries < MaxRetries
        BY <1>2, <1>24 DEF ScanSearch, Take, FrameTyped, Frame
      <3>3. r0 \in Row /\ r0.tries < MaxRetries
        BY <3>1, <3>2 DEF Resolved, WithSource, Row
      <3>4. Set(t, id, f)
        BY <3>1
      <3>5. r \in Row
        <4>1. r0.tries + 1 \in 0..MaxRetries
          BY <3>3, StoreAssumption DEF Row
        <4> QED
          BY <3>3, <4>1 DEF Row, States, Terminal
      <3> HIDE DEF r
      <3>6. f \in Frame /\ f.pc = "write"
        BY <3>5 DEF Frame, Pcs
      <3> HIDE DEF f
      <3> QED
        BY <3>4, <3>6 DEF SetsFrame, FrameFits
    <2> QED
      BY <2>1, <2>2
  <1> QED
    BY <1>3, <1>4, <1>5, <1>6, <1>7, <1>8, <1>9, <1>10, <1>11, <1>12, <1>13, <1>14, <1>15,
       <1>16, <1>17, <1>18, <1>19, <1>20, <1>21, <1>22, <1>23, <1>24 DEF TaskStep

----------------------------------------------------------------------------
(* What those steps do to the table, the transfers, the events, the        *)
(* tracking and the slots.                                                 *)

SharedTypeOK == StoreTypeOK /\ active \in [Ids -> Track] /\ slots \in [Providers -> Nat]

\* The two statements that set a state, and the one that rewrites the row.
LEMMA StateWriteTyped ==
  ASSUME rec \in [Ids -> Row], NEW id \in Ids, NEW s \in States,
         rec' = [rec EXCEPT ![id].state = s]
  PROVE  rec' \in [Ids -> Row]
  <1>1. rec[id] \in Row /\ [rec[id] EXCEPT !.state = s] \in Row
    BY StateTyped
  <1> QED
    BY <1>1

LEMMA UpdateTyped ==
  ASSUME rec \in [Ids -> Row], NEW id \in Ids, NEW r \in Row, Update(id, r)
  PROVE  rec' \in [Ids -> Row]
  BY DEF Update

LEMMA TaskStepShared ==
  ASSUME TypeInv, NEW t \in Ticks, NEW id \in Ids, TaskStep(t, id)
  PROVE  SharedTypeOK' /\ UNCHANGED <<tick, tickVars>>
  <1> USE DEF SharedTypeOK, StoreTypeOK
  <1>1. SharedTypeOK
    BY DEF TypeInv, TypeOK, MonitorTypeOK
  <1>2. task[t][id] \in Frame /\ rec[id] \in Row /\ active[id] \in Track
    BY DEF TypeInv, TypeOK, MonitorTypeOK
  <1>3. FrameTyped(t, id)
    BY DEF TypeInv
  <1>4. task[t][id].row \in Row
    BY <1>2 DEF Frame
  <1>5. CASE UNCHANGED <<storeVars, active, slots, tick, tickVars>>
    BY <1>1, <1>5 DEF storeVars
  <1>6. CASE StartAcquire(t, id)
    <2>1. slots' \in [Providers -> Nat]
      BY <1>1, <1>6 DEF StartAcquire
    <2> QED
      BY <1>1, <1>6, <2>1 DEF StartAcquire, storeVars
  <1>7. CASE StartCas(t, id) \/ PollProgress(t, id) \/ PollComplete(t, id)
             \/ PollFilePath(t, id) \/ FailCas(t, id)
    <2>1. UNCHANGED <<job, bus, active, slots, tick, tickVars>>
      BY <1>7 DEF StartCas, PollProgress, PollComplete, PollFilePath, FailCas
    <2>2. \/ UNCHANGED rec
          \/ \E s \in States : rec' = [rec EXCEPT ![id].state = s]
      BY <1>7 DEF StartCas, PollProgress, PollComplete, PollFilePath, FailCas,
                  TransitionState, UpdateProgress, States, Terminal
    <2>3. rec' \in [Ids -> Row]
      BY <1>1, <2>2, StateWriteTyped
    <2> QED
      BY <1>1, <2>1, <2>3
  <1>8. CASE StartLaunch(t, id)
    <2>1. task[t][id].via \in Providers
      BY <1>3, <1>8 DEF StartLaunch, At, FrameTyped
    <2>2. PICK n \in 1..MaxStarts :
            /\ SetJob(id, n, [st |-> "running", via |-> task[t][id].via])
            /\ active' = [active EXCEPT ![id] = [h |-> n, via |-> task[t][id].via,
                                                 late |-> FALSE]]
      BY <1>8 DEF StartLaunch, NextHandle
    <2>3. job' \in [Ids -> [1..MaxStarts -> Job]]
      BY <1>1, <2>1, <2>2 DEF SetJob, Job, JobStates
    <2>4. n \in Handles
      BY StoreAssumption DEF Handles
    <2>5. active' \in [Ids -> Track]
      BY <1>1, <2>1, <2>2, <2>4 DEF Track
    <2> QED
      BY <1>1, <1>8, <2>3, <2>5 DEF StartLaunch
  <1>9. CASE StartPersist(t, id)
    <2> DEFINE r == [task[t][id].row EXCEPT !.pid = task[t][id].h]
    <2>1. r \in Row
      BY <1>2, <1>4 DEF Frame, Row, Handles
    <2>2. Update(id, r)
      BY <1>9 DEF StartPersist
    <2> HIDE DEF r
    <2> QED
      BY <1>1, <1>9, <2>1, <2>2, UpdateTyped DEF StartPersist
  <1>10. CASE FailWrite(t, id) \/ ScanWrite(t, id)
    <2>1. Update(id, task[t][id].row)
      BY <1>10 DEF FailWrite, ScanWrite
    <2> QED
      BY <1>1, <1>4, <1>10, <2>1, UpdateTyped DEF FailWrite, ScanWrite
  <1>11. CASE PollAnnounce(t, id)
    <2>1. bus' \in [Ids -> Nat]
      BY <1>1, <1>11 DEF PollAnnounce
    <2> QED
      BY <1>1, <1>11, <2>1 DEF PollAnnounce
  <1>12. CASE CheckAbort(t, id)
    <2>1. job' \in [Ids -> [1..MaxStarts -> Job]]
      BY <1>1, <1>2, <1>12, ProviderCancelTyped DEF CheckAbort, Frame
    <2> QED
      BY <1>1, <1>12, <2>1 DEF CheckAbort
  <1>13. CASE Leave(t, id)
    <2>1. active' \in [Ids -> Track]
      BY <1>1, <1>13, UntrackedTyped DEF Leave, RemoveTracking
    <2>2. slots' \in [Providers -> Nat]
      BY <1>1, <1>13 DEF Leave, Release
    <2> QED
      BY <1>1, <1>13, <2>1, <2>2 DEF Leave, storeVars
  <1> QED
    BY <1>5, <1>6, <1>7, <1>8, <1>9, <1>10, <1>11, <1>12, <1>13
    DEF TaskStep, SyncFail, StartPick, StartFails, StartReread, PollBegin, PollStatus,
        CheckGet, FailGet, FailReget, ScanSearch

LEMMA TaskStepTyped ==
  ASSUME TypeInv, NEW t \in Ticks, NEW id \in Ids, TaskStep(t, id),
         UNCHANGED <<serviceVars, imp, crashes>>
  PROVE  TypeInv'
  <1>1. SharedTypeOK' /\ UNCHANGED <<tick, tickVars>>
    BY TaskStepShared
  <1>2. PICK f : FrameFits(t, f) /\ Set(t, id, f)
    BY TaskStepFrame DEF SetsFrame
  <1>3. task \in [Ticks -> [Ids -> Frame]] /\ f \in Frame
    BY <1>2 DEF TypeInv, TypeOK, MonitorTypeOK, FrameFits
  <1>4. /\ task' \in [Ticks -> [Ids -> Frame]]
        /\ task'[t][id] = f
        /\ \A s \in Ticks, i \in Ids :
             s # t \/ i # id => task'[s][i] = task[s][i]
    BY <1>2, <1>3, SetFrame
  <1>5. TypeOK'
    BY <1>1, <1>4 DEF TypeInv, TypeOK, ServiceTypeOK, MonitorTypeOK, ImporterTypeOK,
                      SharedTypeOK, serviceVars, tickVars
  <1>6. ASSUME NEW s \in Ticks, NEW i \in Ids PROVE FrameTyped(s, i)'
    BY <1>1, <1>2, <1>4 DEF TypeInv, FrameTyped, FrameFits, At, In
  <1> QED
    BY <1>5, <1>6 DEF TypeInv

----------------------------------------------------------------------------
(* The steps of a tick as a whole.                                         *)

\* A phase begins with frames of its own, and time is counted.
LEMMA EnterTyped ==
  ASSUME TypeInv, NEW t \in Ticks,
         NEW phase \in {"start", "poll", "check", "retry"},
         NEW frames \in [Ids -> Frame], Enter(t, phase, frames),
         \A id \in Ids :
           /\ frames[id].pc \notin {"cas", "launch", "status"}
           /\ frames[id].pc = "poll" => frames[id].h # 0
           /\ phase = "retry" /\ frames[id].pc = "listed" =>
                frames[id].row.tries < MaxRetries,
         sinceRetry' \in 0..RetryEvery,
         UNCHANGED <<storeVars, active, slots, up, boot, sinceResolve, resolver, res>>,
         UNCHANGED <<serviceVars, imp, crashes>>
  PROVE  TypeInv'
  <1>1. tick[t] \in Tick /\ tick \in [Ticks -> Tick] /\ task \in [Ticks -> [Ids -> Frame]]
    BY DEF TypeInv, TypeOK, MonitorTypeOK
  <1>2. [tick[t] EXCEPT !.phase = phase] \in Tick
    BY <1>1 DEF Tick
  <1>3. tick' = [tick EXCEPT ![t] = [tick[t] EXCEPT !.phase = phase]]
    BY DEF Enter
  <1>4. tick' \in [Ticks -> Tick]
    BY <1>1, <1>2, <1>3
  <1>5. task' \in [Ticks -> [Ids -> Frame]] /\ task'[t] = frames
        /\ \A s \in Ticks : s # t => task'[s] = task[s] /\ tick'[s] = tick[s]
    BY <1>1, <1>3 DEF Enter
  <1>6. tick'[t].phase = phase
    BY <1>1, <1>3 DEF Tick
  <1>7. TypeOK'
    BY <1>4, <1>5 DEF TypeInv, TypeOK, StoreTypeOK, ServiceTypeOK, MonitorTypeOK,
                      ImporterTypeOK, storeVars, serviceVars
  <1>8. ASSUME NEW s \in Ticks, NEW i \in Ids PROVE FrameTyped(s, i)'
    BY <1>5, <1>6 DEF TypeInv, FrameTyped, At, In
  <1> QED
    BY <1>7, <1>8 DEF TypeInv

\* A step that leaves the frames alone and enters no retry phase.
LEMMA TickMoveTyped ==
  ASSUME TypeInv, NEW t \in Ticks, NEW k \in Tick, k.phase # "retry",
         tick' = [tick EXCEPT ![t] = k],
         sinceResolve' \in 0..ResolveEvery, resolver' \in {"off", "list", "run"},
         UNCHANGED <<storeVars, active, slots, task, up, boot, sinceRetry, res>>,
         UNCHANGED <<serviceVars, imp, crashes>>
  PROVE  TypeInv'
  <1>1. tick' \in [Ticks -> Tick]
    BY DEF TypeInv, TypeOK, MonitorTypeOK
  <1>2. TypeOK'
    BY <1>1 DEF TypeInv, TypeOK, StoreTypeOK, ServiceTypeOK, MonitorTypeOK,
                ImporterTypeOK, storeVars, serviceVars
  <1>3. tick'[t] = k /\ \A s \in Ticks : s # t => tick'[s] = tick[s]
    BY DEF TypeInv, TypeOK, MonitorTypeOK
  <1>4. ASSUME NEW s \in Ticks, NEW i \in Ids PROVE FrameTyped(s, i)'
    BY <1>3 DEF TypeInv, FrameTyped, At, In
  <1> QED
    BY <1>2, <1>4 DEF TypeInv

\* The copies of what is tracked.
LEMMA SnapshotTyped ==
  ASSUME TypeInv, NEW pc \in {"poll", "listed"}
  PROVE  /\ Snapshot(pc) \in [Ids -> Frame]
         /\ \A id \in Ids : /\ Snapshot(pc)[id].pc \in {"idle", pc}
                            /\ Snapshot(pc)[id].pc = pc => Snapshot(pc)[id].h # 0
  <1>1. ASSUME NEW id \in Ids
        PROVE  /\ Snapshot(pc)[id] \in Frame
               /\ Snapshot(pc)[id].pc \in {"idle", pc}
               /\ Snapshot(pc)[id].pc = pc => Snapshot(pc)[id].h # 0
    <2>1. active[id] \in Track
      BY DEF TypeInv, TypeOK, MonitorTypeOK
    <2> DEFINE f == [Idle EXCEPT !.pc = pc, !.h = active[id].h, !.via = active[id].via]
    <2>2. f \in Frame /\ f.pc = pc /\ f.h = active[id].h
      BY <2>1, IdleTyped DEF Frame, Pcs, Track
    <2>3. Snapshot(pc)[id] = IF Tracked(id) THEN f ELSE Idle
      BY DEF Snapshot
    <2>4. Idle.pc = "idle"
      BY DEF Idle
    <2> HIDE DEF f
    <2> QED
      BY <2>2, <2>3, <2>4, IdleTyped DEF Tracked
  <1>2. Snapshot(pc) = [id \in Ids |-> Snapshot(pc)[id]]
    BY DEF Snapshot
  <1> QED
    BY <1>1, <1>2

LEMMA TickStepTyped ==
  ASSUME TypeInv, NEW t \in Ticks, TickStep(t), UNCHANGED <<serviceVars, imp, crashes>>
  PROVE  TypeInv'
  <1>1. tick[t] \in Tick /\ rec \in [Ids -> Row] /\ active \in [Ids -> Track]
    BY DEF TypeInv, TypeOK, StoreTypeOK, MonitorTypeOK
  <1>2. CASE TickBegin(t)
    <2> DEFINE k == [phase |-> "sync", todo |-> Providers \ {Client}, seen |-> {}, via |-> Client]
    <2>1. k \in Tick
      BY StoreAssumption DEF Tick
    <2> QED
      BY <1>2, <2>1, TickMoveTyped DEF TickBegin, tickVars, TypeInv, TypeOK, MonitorTypeOK
  <1>3. CASE \E p \in Providers : SyncList(t, p)
    <2>1. PICK p \in Providers : SyncList(t, p)
      BY <1>3
    <2> DEFINE seen == {x \in Ids \X (1..MaxStarts) :
                          Listed(x[1], x[2]) /\ job[x[1]][x[2]].via = p}
    <2> DEFINE k == [phase |-> "syncDrop", todo |-> tick[t].todo \ {p}, via |-> p, seen |-> seen]
    <2>2. seen \in SUBSET (Ids \X (1..MaxStarts))
      OBVIOUS
    <2>3. tick' = [tick EXCEPT ![t] = k]
      BY <2>1 DEF SyncList
    <2> HIDE DEF seen
    <2>4. k \in Tick /\ k.phase = "syncDrop"
      BY <1>1, <2>2 DEF Tick
    <2> HIDE DEF k
    <2> QED
      BY <2>1, <2>3, <2>4, TickMoveTyped DEF SyncList, tickVars, TypeInv, TypeOK, MonitorTypeOK
  <1>4. CASE SyncDrop(t)
    <2> DEFINE p == tick[t].via
    <2> DEFINE lost == {id \in Ids : /\ Tracked(id) /\ active[id].via = p
                                     /\ <<id, active[id].h>> \notin tick[t].seen}
    <2> DEFINE frames == [id \in Ids |->
                 IF id \in lost THEN [Idle EXCEPT !.pc = "listed", !.then = "free",
                                                  !.via = p, !.h = active[id].h]
                 ELSE Idle]
    <2> DEFINE k == [tick[t] EXCEPT !.phase = "sync", !.seen = {}, !.via = Client]
    <2>1. /\ active' = [id \in Ids |-> IF id \in lost THEN Untracked ELSE active[id]]
          /\ task' = [task EXCEPT ![t] = frames]
          /\ tick' = [tick EXCEPT ![t] = k]
      BY <1>4 DEF SyncDrop
    <2>2. active' \in [Ids -> Track]
      BY <1>1, <2>1, UntrackedTyped
    <2>3. p \in Providers
      BY <1>1 DEF Tick
    <2> HIDE DEF lost, p
    <2>4. /\ frames \in [Ids -> Frame]
          /\ \A id \in Ids : frames[id].pc \in {"idle", "listed"}
      <3>1. ASSUME NEW id \in Ids PROVE frames[id] \in Frame /\ frames[id].pc \in {"idle", "listed"}
        BY <1>1, <2>3, IdleTyped DEF Frame, Pcs, Track, Idle
      <3> QED
        BY <3>1
    <2>5. k \in Tick /\ k.phase = "sync"
      BY <1>1, StoreAssumption DEF Tick
    <2> HIDE DEF frames, k
    <2>6. TypeOK'
      <3>1. tick' \in [Ticks -> Tick] /\ task' \in [Ticks -> [Ids -> Frame]]
        BY <2>1, <2>4, <2>5 DEF TypeInv, TypeOK, MonitorTypeOK
      <3>2. UNCHANGED <<storeVars, slots, tickVars>>
        BY <1>4 DEF SyncDrop
      <3> QED
        BY <2>2, <3>1, <3>2
        DEF TypeInv, TypeOK, StoreTypeOK, ServiceTypeOK, MonitorTypeOK,
            ImporterTypeOK, storeVars, serviceVars, tickVars
    <2>7. ASSUME NEW s \in Ticks, NEW i \in Ids PROVE FrameTyped(s, i)'
      <3>1. CASE s = t
        BY <2>1, <2>4, <2>5, <3>1 DEF TypeInv, TypeOK, MonitorTypeOK, FrameTyped, At, In
      <3>2. CASE s # t
        BY <2>1, <3>2 DEF TypeInv, TypeOK, MonitorTypeOK, FrameTyped, At, In
      <3> QED
        BY <3>1, <3>2
    <2> QED
      BY <2>6, <2>7 DEF TypeInv
  <1>5. CASE StartList(t)
    <2> DEFINE frames == [id \in Ids |->
                 IF rec[id].state = "queued" /\ ~IsPendingSource(rec[id]) /\ ~rec[id].wait
                 THEN [Idle EXCEPT !.pc = "listed"] ELSE Idle]
    <2>1. Enter(t, "start", frames)
      BY <1>5 DEF StartList
    <2>2. /\ frames \in [Ids -> Frame]
          /\ \A id \in Ids : frames[id].pc \in {"idle", "listed"}
      BY IdleTyped DEF Frame, Pcs, Idle
    <2> HIDE DEF frames
    <2> QED
      BY <1>5, <2>1, <2>2, EnterTyped DEF StartList, tickVars, TypeInv, TypeOK, MonitorTypeOK
  <1>6. CASE PollList(t)
    BY <1>6, SnapshotTyped, EnterTyped DEF PollList, tickVars, TypeInv, TypeOK, MonitorTypeOK
  <1>7. CASE CheckList(t)
    BY <1>7, SnapshotTyped, EnterTyped DEF CheckList, tickVars, TypeInv, TypeOK, MonitorTypeOK
  <1>8. CASE RetryList(t)
    <2> DEFINE due == sinceRetry + 1 >= RetryEvery
    <2> DEFINE frames == [id \in Ids |->
                 IF due /\ rec[id].state \in Retryable /\ rec[id].tries < MaxRetries /\ ~rec[id].wait
                 THEN [Idle EXCEPT !.pc = "listed", !.row = rec[id]] ELSE Idle]
    <2>1. Enter(t, "retry", frames)
      BY <1>8 DEF RetryList
    <2>2. sinceRetry' \in 0..RetryEvery
      <3>1. sinceRetry \in 0..RetryEvery /\ RetryEvery \in Nat
        BY MonitorAssumption DEF TypeInv, TypeOK, MonitorTypeOK
      <3>2. sinceRetry' = IF due THEN 0 ELSE sinceRetry + 1
        BY <1>8 DEF RetryList
      <3> QED
        BY <3>1, <3>2
    <2> HIDE DEF due
    <2>3. /\ frames \in [Ids -> Frame]
          /\ \A id \in Ids : /\ frames[id].pc \in {"idle", "listed"}
                             /\ frames[id].pc = "listed" => frames[id].row.tries < MaxRetries
      <3>1. ASSUME NEW id \in Ids
            PROVE  /\ frames[id] \in Frame /\ frames[id].pc \in {"idle", "listed"}
                   /\ frames[id].pc = "listed" => frames[id].row.tries < MaxRetries
        BY <1>1, IdleTyped DEF Frame, Pcs, Idle
      <3> QED
        BY <3>1
    <2> HIDE DEF frames
    <2> QED
      BY <1>8, <2>1, <2>2, <2>3, EnterTyped DEF RetryList
  <1>9. CASE TickEnd(t)
    <2> DEFINE k == [tick[t] EXCEPT !.phase = "off"]
    <2>1. k \in Tick /\ k.phase = "off"
      BY <1>1 DEF Tick
    <2>2. tick' = [tick EXCEPT ![t] = k]
      BY <1>9 DEF TickEnd
    <2>3. sinceResolve' \in 0..ResolveEvery /\ resolver' \in {"off", "list", "run"}
      BY <1>9, MonitorAssumption DEF TickEnd, TypeInv, TypeOK, MonitorTypeOK
    <2> HIDE DEF k
    <2> QED
      BY <1>9, <2>1, <2>2, <2>3, TickMoveTyped DEF TickEnd
  <1> QED
    BY <1>2, <1>3, <1>4, <1>5, <1>6, <1>7, <1>8, <1>9 DEF TickStep

----------------------------------------------------------------------------
(* The resolver, the start of the process, and time.                       *)

\* A step that leaves the ticks and their frames alone keeps what fits them.
LEMMA OffTickTyped ==
  ASSUME TypeInv, TypeOK', UNCHANGED <<tick, task>>
  PROVE  TypeInv'
  BY DEF TypeInv, FrameTyped, At, In

LEMMA ResolverStepTyped ==
  ASSUME TypeInv, ResolverStep, UNCHANGED <<serviceVars, imp, crashes>>
  PROVE  TypeInv'
  <1> USE DEF TypeOK, StoreTypeOK, ServiceTypeOK, MonitorTypeOK, ImporterTypeOK
  <1>1. TypeOK
    BY DEF TypeInv
  <1>2. NoRes \in ResFrame
    BY NoRowTyped DEF NoRes, ResFrame
  <1>3. CASE ResolveList
    <2>1. res' \in [Ids -> ResFrame]
      BY <1>1, <1>2, <1>3 DEF ResolveList, ResFrame
    <2> QED
      BY <1>1, <1>3, <2>1, OffTickTyped DEF ResolveList, storeVars, serviceVars
  <1>4. CASE ResolveEnd
    BY <1>1, <1>4, OffTickTyped DEF ResolveEnd, storeVars, serviceVars
  <1>5. ASSUME NEW id \in Ids, ResolveSearch(id) PROVE TypeInv'
    <2>1. res[id] \in ResFrame /\ res[id].row \in Row
      BY <1>1 DEF ResFrame
    <2>2. PICK r : r \in Row /\ res' = [res EXCEPT ![id] = [pc |-> "write", row |-> r]]
      <3>1. CASE \E p \in Providers \ {Client} :
                   res' = [res EXCEPT ![id] = [pc |-> "write", row |-> WithSource(@.row, p)]]
        BY <2>1, <3>1, WithSourceTyped
      <3>2. CASE res' = [res EXCEPT ![id] =
                           [pc |-> "write", row |-> [@.row EXCEPT !.state = "failedPending",
                                                                  !.tries = 1, !.wait = TRUE]]]
        <4> DEFINE r == [res[id].row EXCEPT !.state = "failedPending", !.tries = 1, !.wait = TRUE]
        <4>1. 1 \in 0..MaxRetries
          BY StoreAssumption
        <4>2. r \in Row
          BY <2>1, <4>1 DEF Row, States
        <4> QED
          BY <3>2, <4>2
      <3> QED
        BY <1>5, <3>1, <3>2 DEF ResolveSearch
    <2>3. res' \in [Ids -> ResFrame]
      BY <1>1, <2>2 DEF ResFrame
    <2> QED
      BY <1>1, <1>5, <2>3, OffTickTyped DEF ResolveSearch, storeVars, serviceVars
  <1>6. ASSUME NEW id \in Ids, ResolveWrite(id) PROVE TypeInv'
    <2>1. rec' \in [Ids -> Row]
      BY <1>1, <1>6, UpdateTyped DEF ResolveWrite, ResFrame
    <2>2. res' \in [Ids -> ResFrame]
      BY <1>1, <1>2, <1>6 DEF ResolveWrite
    <2> QED
      BY <1>1, <1>6, <2>1, <2>2, OffTickTyped DEF ResolveWrite, serviceVars
  <1> QED
    BY <1>3, <1>4, <1>5, <1>6 DEF ResolverStep

LEMMA BootStepTyped ==
  ASSUME TypeInv, BootStep, UNCHANGED <<serviceVars, imp, crashes>>
  PROVE  TypeInv'
  <1> USE DEF TypeOK, StoreTypeOK, ServiceTypeOK, MonitorTypeOK, ImporterTypeOK
  <1>1. TypeOK
    BY DEF TypeInv
  <1>2. CASE Start
    BY <1>1, <1>2, OffTickTyped DEF Start, storeVars, serviceVars
  <1>3. ASSUME NEW id \in Ids, Recover(id) PROVE TypeInv'
    <2>1. rec' \in [Ids -> Row]
      BY <1>1, <1>3, StateWriteTyped DEF Revisit, Recover, UpdateProgress, States, Terminal
    <2>2. bus' \in [Ids -> Nat] /\ boot' \subseteq Ids
      BY <1>1, <1>3 DEF Revisit, Recover
    <2> QED
      BY <1>1, <1>3, <2>1, <2>2, OffTickTyped DEF Revisit, Recover, serviceVars
  <1> QED
    BY <1>2, <1>3 DEF BootStep

LEMMA TimeStepTyped ==
  ASSUME TypeInv, TimeStep, UNCHANGED <<serviceVars, imp, crashes>>
  PROVE  TypeInv'
  <1> USE DEF TypeOK, StoreTypeOK, ServiceTypeOK, MonitorTypeOK, ImporterTypeOK
  <1>1. TypeOK
    BY DEF TypeInv
  <1>2. ASSUME NEW id \in Ids, BackoffElapses(id) PROVE TypeInv'
    <2>1. rec[id] \in Row /\ [rec[id] EXCEPT !.wait = FALSE] \in Row
      BY <1>1 DEF Row
    <2>2. rec' \in [Ids -> Row]
      BY <1>1, <1>2, <2>1 DEF BackoffElapses
    <2> QED
      BY <1>1, <1>2, <2>2, OffTickTyped DEF BackoffElapses, monitorVars, serviceVars
  <1>3. ASSUME NEW id \in Ids, DeadlinePasses(id) PROVE TypeInv'
    <2>1. active[id] \in Track /\ [active[id] EXCEPT !.late = TRUE] \in Track
      BY <1>1 DEF Track
    <2>2. active' \in [Ids -> Track]
      BY <1>1, <1>3, <2>1 DEF DeadlinePasses
    <2> QED
      BY <1>1, <1>3, <2>2, OffTickTyped DEF DeadlinePasses, storeVars, tickVars, serviceVars
  <1> QED
    BY <1>2, <1>3 DEF TimeStep

----------------------------------------------------------------------------
(* The service, the importer, the providers and restarts.                  *)

LEMMA CancelTyped ==
  ASSUME TypeInv, NEW id \in Ids,
         CancelGet(id) \/ CancelWrite(id) \/ CancelProvider(id)
  PROVE  StoreTypeOK' /\ ServiceTypeOK'
  <1> USE DEF StoreTypeOK, ServiceTypeOK
  <1>1. StoreTypeOK /\ ServiceTypeOK
    BY DEF TypeInv, TypeOK
  <1>2. can[id] \in CanFrame /\ rec[id] \in Row /\ can[id].row \in Row
    BY <1>1 DEF CanFrame
  <1>3. CASE CancelGet(id)
    <2>1. can' \in [Ids -> CanFrame]
      BY <1>1, <1>2, <1>3 DEF CancelGet, CanFrame
    <2>2. cancels' \in 0..MaxCancels
      BY <1>1, <1>3, ServiceAssumption DEF CancelGet
    <2> QED
      BY <1>1, <1>3, <2>1, <2>2 DEF CancelGet, storeVars
  <1>4. CASE CancelWrite(id)
    <2> DEFINE r == [can[id].row EXCEPT !.state = "ignored"]
    <2>1. r \in Row
      BY <1>2, StateTyped DEF States, Terminal
    <2>2. Update(id, r)
      BY <1>4 DEF CancelWrite
    <2>3. [can[id] EXCEPT !.pc = "provider"] \in CanFrame
      BY <1>2 DEF CanFrame
    <2>4. can' \in [Ids -> CanFrame]
      BY <1>1, <1>4, <2>3 DEF CancelWrite
    <2> HIDE DEF r
    <2> QED
      BY <1>1, <1>4, <2>1, <2>2, <2>4, UpdateTyped DEF CancelWrite
  <1>5. CASE CancelProvider(id)
    <2>1. can[id].row.pid \in Handles
      BY <1>2 DEF Row, Handles
    <2>2. job' \in [Ids -> [1..MaxStarts -> Job]]
      BY <1>1, <1>5, <2>1, ProviderCancelTyped DEF CancelProvider
    <2>3. can' \in [Ids -> CanFrame]
      BY <1>1, <1>5, NoRowTyped DEF CancelProvider, CanFrame, NoCan
    <2> QED
      BY <1>1, <1>5, <2>2, <2>3 DEF CancelProvider
  <1> QED
    BY <1>3, <1>4, <1>5

LEMMA QueueTyped ==
  ASSUME TypeInv, NEW id \in Ids, Queue(id) \/ QueuePending(id)
  PROVE  StoreTypeOK' /\ ServiceTypeOK'
  <1>1. StoreTypeOK /\ ServiceTypeOK
    BY DEF TypeInv, TypeOK
  <1>2. PICK r \in Row : Insert(id, r)
    <2>1. CASE Queue(id)
      BY <2>1, NoRowTyped, WithSourceTyped DEF Queue
    <2>2. CASE QueuePending(id)
      BY <2>2, NoRowTyped DEF QueuePending
    <2> QED
      BY <2>1, <2>2
  <1>3. [r EXCEPT !.state = "queued", !.tries = 0] \in Row
    <2>1. 0 \in 0..MaxRetries
      BY StoreAssumption
    <2> QED
      BY <2>1 DEF Row, States
  <1>4. rec' \in [Ids -> Row]
    BY <1>1, <1>2, <1>3 DEF Insert, StoreTypeOK
  <1> QED
    BY <1>1, <1>4 DEF Queue, QueuePending, StoreTypeOK, ServiceTypeOK, serviceVars

LEMMA RetryTyped ==
  ASSUME TypeInv, NEW c \in Callers,
         \/ \E id \in Ids : RetryGet(c, id)
         \/ RetryWrite(c) \/ RetrySearch(c) \/ RetrySubmit(c)
  PROVE  StoreTypeOK' /\ ServiceTypeOK'
  <1> USE DEF StoreTypeOK, ServiceTypeOK
  <1>1. StoreTypeOK /\ ServiceTypeOK
    BY DEF TypeInv, TypeOK
  <1>2. ret[c] \in RetFrame /\ ret[c].row \in Row /\ ret[c].orig \in Row /\ ret[c].id \in Ids
    BY <1>1 DEF RetFrame
  <1>3. ASSUME NEW id \in Ids, RetryGet(c, id) PROVE StoreTypeOK' /\ ServiceTypeOK'
    <2> DEFINE fresh == [rec[id] EXCEPT !.state = "queued", !.tries = 0, !.wait = FALSE]
    <2> DEFINE r == IF id \in Untitled THEN fresh ELSE [fresh EXCEPT !.file = FALSE]
    <2>1. rec[id] \in Row
      BY <1>1
    <2>2. 0 \in 0..MaxRetries
      BY StoreAssumption
    <2>3. fresh \in Row
      BY <2>1, <2>2 DEF Row, States
    <2> HIDE DEF fresh
    <2>4. r \in Row
      BY <2>3 DEF Row
    <2> USE DEF fresh
    <2>5. ret' = [ret EXCEPT ![c] = [pc |-> "write", id |-> id, orig |-> rec[id], row |-> r]]
      BY <1>3 DEF RetryGet
    <2> HIDE DEF r, fresh
    <2>6. [pc |-> "write", id |-> id, orig |-> rec[id], row |-> r] \in RetFrame
      BY <2>1, <2>4 DEF RetFrame
    <2>7. ret' \in [Callers -> RetFrame]
      BY <1>1, <2>5, <2>6
    <2>8. retries' \in 0..MaxUserRetries
      <3>1. retries < MaxUserRetries /\ retries' = retries + 1
        BY <1>3 DEF RetryGet
      <3> QED
        BY <1>1, <3>1, ServiceAssumption
    <2> QED
      BY <1>1, <1>3, <2>7, <2>8 DEF RetryGet, storeVars
  <1>4. CASE RetryWrite(c)
    <2>1. rec' \in [Ids -> Row]
      BY <1>1, <1>2, <1>4, UpdateTyped DEF RetryWrite
    <2>2. [ret[c] EXCEPT !.pc = "search"] \in RetFrame
      BY <1>2 DEF RetFrame
    <2>3. ret' \in [Callers -> RetFrame]
      BY <1>1, <1>4, <2>2, NoRetTyped DEF RetryWrite
    <2> QED
      BY <1>1, <1>4, <2>1, <2>3 DEF RetryWrite
  <1>5. CASE RetrySearch(c)
    <2>1. PICK r \in Row : ret' = [ret EXCEPT ![c] = [ret[c] EXCEPT !.pc = "submit", !.row = r]]
      <3>1. GivenUp(ret[c]) \in Row
        BY <1>2 DEF GivenUp, Row, States, Terminal
      <3> QED
        BY <1>2, <1>5, <3>1, WithSourceTyped DEF RetrySearch
    <2>2. [ret[c] EXCEPT !.pc = "submit", !.row = r] \in RetFrame
      BY <1>2 DEF RetFrame
    <2>3. ret' \in [Callers -> RetFrame]
      BY <1>1, <2>1, <2>2
    <2> QED
      BY <1>1, <1>5, <2>3 DEF RetrySearch, storeVars
  <1>6. CASE RetrySubmit(c)
    <2>1. rec' \in [Ids -> Row]
      BY <1>1, <1>2, <1>6, UpdateTyped DEF RetrySubmit
    <2>2. ret' \in [Callers -> RetFrame]
      BY <1>1, <1>6, NoRetTyped DEF RetrySubmit
    <2> QED
      BY <1>1, <1>6, <2>1, <2>2 DEF RetrySubmit
  <1> QED
    BY <1>3, <1>4, <1>5, <1>6

LEMMA ServiceStepTyped ==
  ASSUME TypeInv, ServiceStep
  PROVE  TypeInv'
  <1>1. StoreTypeOK' /\ ServiceTypeOK'
    BY CancelTyped, QueueTyped, RetryTyped DEF ServiceStep, ServiceNext
  <1>2. UNCHANGED <<monitorVars, imp, crashes>>
    BY DEF ServiceStep
  <1>3. TypeOK'
    BY <1>1, <1>2 DEF TypeInv, TypeOK, MonitorTypeOK, ImporterTypeOK, monitorVars
  <1> QED
    BY <1>2, <1>3, OffTickTyped DEF monitorVars

LEMMA ImpStepTyped ==
  ASSUME TypeInv, NEW id \in Ids, NEW w \in Workers, ImpStep(id, w)
  PROVE  StoreTypeOK' /\ ImporterTypeOK'
  <1> USE DEF StoreTypeOK, ImporterTypeOK
  <1>1. StoreTypeOK /\ ImporterTypeOK
    BY DEF TypeInv, TypeOK
  <1>2. imp[id][w] \in ImpFrame /\ imp[id][w].row \in Row /\ rec[id] \in Row
    BY <1>1 DEF ImpFrame
  <1>3. NoImp \in ImpFrame
    BY NoRowTyped DEF NoImp, ImpFrame
  <1>4. \A s \in States : [imp[id][w].row EXCEPT !.state = s] \in Row
    BY <1>2, StateTyped
  \* The importer's goroutine moves on with a frame of the type.
  <1>5. ASSUME NEW pc \in Chain, ImpGo(id, w, pc)
        PROVE  imp' \in [Ids -> [Workers -> ImpFrame]]
    <2> DEFINE f == [imp[id][w] EXCEPT !.pc = pc]
    <2>1. f \in ImpFrame
      BY <1>2 DEF ImpFrame, Chain
    <2>2. ImpSet(id, w, f)
      BY <1>5 DEF ImpGo
    <2> HIDE DEF f
    <2> QED
      BY <1>1, <2>1, <2>2, SetImp
  <1>6. ASSUME ImpStop(id, w)
        PROVE  imp' \in [Ids -> [Workers -> ImpFrame]]
    BY <1>1, <1>3, <1>6, SetImp DEF ImpStop
  <1>7. CASE ImpBegin(id, w)
    <2>1. [pc |-> "cas", row |-> rec[id]] \in ImpFrame
      BY <1>2 DEF ImpFrame
    <2>2. imp' \in [Ids -> [Workers -> ImpFrame]]
      BY <1>1, <1>7, <2>1, SetImp DEF ImpBegin
    <2>3. bus[id] \in Nat /\ bus[id] > 0 /\ bus' = [bus EXCEPT ![id] = @ - 1]
      BY <1>1, <1>7 DEF ImpBegin
    <2>4. bus' \in [Ids -> Nat]
      BY <1>1, <2>3
    <2> QED
      BY <1>1, <1>7, <2>2, <2>4 DEF ImpBegin
  <1>8. CASE ImpCas(id, w)
    <2> DEFINE f == [pc  |-> IF id \in Albums THEN "album" ELSE "check",
                     row |-> [imp[id][w].row EXCEPT !.state = "importing"]]
    <2>1. f \in ImpFrame
      BY <1>4 DEF ImpFrame, States
    <2>2. ImpSet(id, w, f) \/ ImpStop(id, w)
      BY <1>8 DEF ImpCas
    <2> HIDE DEF f
    <2>3. imp' \in [Ids -> [Workers -> ImpFrame]]
      BY <1>1, <1>6, <2>1, <2>2, SetImp
    <2>4. rec' \in [Ids -> Row]
      BY <1>1, <1>8, StateWriteTyped DEF ImpCas, TransitionState, States
    <2> QED
      BY <1>1, <1>8, <2>3, <2>4 DEF ImpCas
  <1>9. CASE ImpCheck(id, w) \/ ImpRest(id, w)
    <2>1. imp' \in [Ids -> [Workers -> ImpFrame]]
      BY <1>5, <1>6, <1>9 DEF ImpCheck, ImpRest, Chain
    <2> QED
      BY <1>1, <1>9, <2>1 DEF ImpCheck, ImpRest, storeVars
  <1>10. CASE ImpRename(id, w) \/ ImpAlbum(id, w)
    <2>1. imp' \in [Ids -> [Workers -> ImpFrame]]
      BY <1>5, <1>10 DEF ImpRename, ImpAlbum, Chain
    <2>2. rec' \in [Ids -> Row]
      BY <1>1, <1>2, <1>10, UpdateTyped DEF ImpRename, ImpAlbum
    <2> QED
      BY <1>1, <1>10, <2>1, <2>2 DEF ImpRename, ImpAlbum
  <1>11. CASE ImpFinal(id, w) \/ ImpFail(id, w)
    <2>1. imp' \in [Ids -> [Workers -> ImpFrame]]
      BY <1>6, <1>11 DEF ImpFinal, ImpFail
    <2>2. \E s \in States : Update(id, [imp[id][w].row EXCEPT !.state = s])
      BY <1>11 DEF ImpFinal, ImpFail, States, Terminal
    <2>3. rec' \in [Ids -> Row]
      BY <1>1, <1>4, <2>2 DEF Update
    <2> QED
      BY <1>1, <1>11, <2>1, <2>3 DEF ImpFinal, ImpFail
  <1> QED
    BY <1>7, <1>8, <1>9, <1>10, <1>11 DEF ImpStep

LEMMA ImporterStepTyped ==
  ASSUME TypeInv, ImporterStep
  PROVE  TypeInv'
  <1>1. StoreTypeOK' /\ ImporterTypeOK'
    BY ImpStepTyped DEF ImporterStep
  <1>2. UNCHANGED <<serviceVars, monitorVars, crashes>>
    BY DEF ImporterStep
  <1>3. TypeOK'
    BY <1>1, <1>2 DEF TypeInv, TypeOK, MonitorTypeOK, ServiceTypeOK, monitorVars, serviceVars
  <1> QED
    BY <1>2, <1>3, OffTickTyped DEF monitorVars

LEMMA ProviderStepTyped ==
  ASSUME TypeInv, ProviderStep
  PROVE  TypeInv'
  <1>1. UNCHANGED <<rec, bus>> /\ UNCHANGED <<serviceVars, monitorVars, imp, crashes>>
    BY DEF ProviderStep, JobEnds, JobLost, JobCancelled
  <1>2. \E id \in Ids, n \in 1..MaxStarts, s \in JobStates : Mark(id, n, s)
    BY DEF ProviderStep, JobEnds, JobLost, JobCancelled, JobStates
  <1>3. job' \in [Ids -> [1..MaxStarts -> Job]]
    BY <1>2, MarkTyped DEF TypeInv, TypeOK, StoreTypeOK
  <1>4. TypeOK'
    BY <1>1, <1>3 DEF TypeInv, TypeOK, StoreTypeOK, MonitorTypeOK, ServiceTypeOK,
                      ImporterTypeOK, monitorVars, serviceVars
  <1> QED
    BY <1>1, <1>4, OffTickTyped DEF monitorVars

\* The frames of a process that has just been started.
LEMMA FreshFrames ==
  /\ NoTick \in [Ticks -> Tick] /\ \A t \in Ticks : NoTick[t].phase = "off"
  /\ NoTask \in [Ticks -> [Ids -> Frame]]
  /\ \A t \in Ticks, id \in Ids : NoTask[t][id] = Idle
  /\ NothingTracked \in [Ids -> Track]
  /\ SlotsFree \in [Providers -> Nat]
  /\ NothingResolving \in [Ids -> ResFrame]
  /\ NothingImporting \in [Ids -> [Workers -> ImpFrame]]
  <1>1. NoTick \in [Ticks -> Tick] /\ \A t \in Ticks : NoTick[t].phase = "off"
    BY StoreAssumption DEF NoTick, Tick
  <1>2. NoTask \in [Ticks -> [Ids -> Frame]] /\ \A t \in Ticks, id \in Ids : NoTask[t][id] = Idle
    BY IdleTyped DEF NoTask
  <1>3. NothingTracked \in [Ids -> Track] /\ SlotsFree \in [Providers -> Nat]
    BY UntrackedTyped DEF NothingTracked, SlotsFree
  <1>4. NothingResolving \in [Ids -> ResFrame]
    BY NoRowTyped DEF NothingResolving, NoRes, ResFrame
  <1>5. NothingImporting \in [Ids -> [Workers -> ImpFrame]]
    BY NoRowTyped DEF NothingImporting, NoImp, ImpFrame
  <1> QED
    BY <1>1, <1>2, <1>3, <1>4, <1>5

LEMMA CrashTyped ==
  ASSUME TypeInv, Crash
  PROVE  TypeInv'
  <1>1. TypeOK
    BY DEF TypeInv
  <1>2. MonitorTypeOK'
    <2>1. up' \in BOOLEAN /\ boot' \subseteq Ids /\ resolver' \in {"off", "list", "run"}
      BY DEF Crash, MonitorReset
    <2>2. sinceRetry' \in 0..RetryEvery /\ sinceResolve' \in 0..ResolveEvery
      BY MonitorAssumption DEF Crash, MonitorReset
    <2>3. active' \in [Ids -> Track] /\ slots' \in [Providers -> Nat] /\ res' \in [Ids -> ResFrame]
      BY FreshFrames DEF Crash, MonitorReset
    <2>4. tick' \in [Ticks -> Tick] /\ task' \in [Ticks -> [Ids -> Frame]]
      BY FreshFrames DEF Crash, MonitorReset
    <2> QED
      BY <2>1, <2>2, <2>3, <2>4 DEF MonitorTypeOK
  <1>3. ImporterTypeOK'
    BY FreshFrames DEF Crash, ImporterTypeOK
  <1>4. ServiceTypeOK'
    <2>1. [id \in Ids |-> NoCan] \in [Ids -> CanFrame]
      BY NoRowTyped DEF NoCan, CanFrame
    <2> QED
      BY <1>1, <2>1, NoRetTyped DEF Crash, TypeOK, ServiceTypeOK
  <1>5. StoreTypeOK'
    <2>1. job' \in [Ids -> [1..MaxStarts -> Job]]
      <3>1. ASSUME NEW id \in Ids, NEW n \in 1..MaxStarts
            PROVE  job[id][n] \in Job /\ [job[id][n] EXCEPT !.st = "gone"] \in Job
        <4>1. job[id][n] \in Job
          BY <1>1 DEF TypeOK, StoreTypeOK
        <4> QED
          BY <4>1 DEF Job, JobStates
      <3>2. job' = [id \in Ids |-> [n \in 1..MaxStarts |->
                      IF Listed(id, n) /\ job[id][n].via \in InProcess
                      THEN [job[id][n] EXCEPT !.st = "gone"] ELSE job[id][n]]]
        BY DEF Crash
      <3> QED
        BY <3>1, <3>2
    <2>2. bus' \in [Ids -> Nat] /\ rec' \in [Ids -> Row]
      BY <1>1 DEF Crash, TypeOK, StoreTypeOK
    <2> QED
      BY <2>1, <2>2 DEF StoreTypeOK
  <1>6. crashes' \in 0..MaxCrashes
    <2>1. crashes \in 0..MaxCrashes /\ crashes < MaxCrashes /\ crashes' = crashes + 1
      BY <1>1 DEF Crash, TypeOK
    <2> QED
      BY <2>1, PipelineAssumption
  <1>7. ASSUME NEW t \in Ticks, NEW id \in Ids PROVE FrameTyped(t, id)'
    <2>1. task'[t][id] = Idle /\ tick'[t].phase = "off"
      BY FreshFrames DEF Crash, MonitorReset
    <2> QED
      BY <2>1 DEF FrameTyped, At, In, Idle
  <1> QED
    BY <1>2, <1>3, <1>4, <1>5, <1>6, <1>7 DEF TypeInv, TypeOK

LEMMA TypeInit ==
  ASSUME Init
  PROVE  TypeInv
  <1>1. MonitorTypeOK
    <2>1. up \in BOOLEAN /\ boot \subseteq Ids /\ resolver \in {"off", "list", "run"}
      BY DEF Init, MonitorInit
    <2>2. sinceRetry \in 0..RetryEvery /\ sinceResolve \in 0..ResolveEvery
      BY MonitorAssumption DEF Init, MonitorInit
    <2>3. active \in [Ids -> Track] /\ slots \in [Providers -> Nat] /\ res \in [Ids -> ResFrame]
      BY FreshFrames DEF Init, MonitorInit
    <2>4. tick \in [Ticks -> Tick] /\ task \in [Ticks -> [Ids -> Frame]]
      BY FreshFrames DEF Init, MonitorInit
    <2> QED
      BY <2>1, <2>2, <2>3, <2>4 DEF MonitorTypeOK
  <1>2. ImporterTypeOK
    BY FreshFrames DEF Init, ImporterInit, ImporterTypeOK
  <1>3. ServiceTypeOK
    <2>1. [id \in Ids |-> NoCan] \in [Ids -> CanFrame]
      BY NoRowTyped DEF NoCan, CanFrame
    <2> QED
      BY <2>1, NoRetTyped, ServiceAssumption DEF Init, ServiceInit, ServiceTypeOK
  <1>4. StoreTypeOK
    <2>1. NoJob \in Job
      BY StoreAssumption DEF NoJob, Job, JobStates
    <2> QED
      BY <2>1, NoRowTyped DEF Init, StoreInit, StoreTypeOK
  <1>5. ASSUME NEW t \in Ticks, NEW id \in Ids PROVE FrameTyped(t, id)
    <2>1. task[t][id] = Idle /\ tick[t].phase = "off"
      BY FreshFrames DEF Init, MonitorInit
    <2> QED
      BY <2>1 DEF FrameTyped, At, In, Idle
  <1> QED
    BY <1>1, <1>2, <1>3, <1>4, <1>5, PipelineAssumption DEF Init, TypeInv, TypeOK

LEMMA TypeNext ==
  ASSUME TypeInv, [Next]_vars
  PROVE  TypeInv'
  <1>1. CASE ServiceStep
    BY <1>1, ServiceStepTyped
  <1>2. CASE MonitorStep
    BY <1>2, TickStepTyped, TaskStepTyped, ResolverStepTyped, BootStepTyped, TimeStepTyped
    DEF MonitorStep, MonitorNext
  <1>3. CASE ImporterStep
    BY <1>3, ImporterStepTyped
  <1>4. CASE ProviderStep
    BY <1>4, ProviderStepTyped
  <1>5. CASE Crash
    BY <1>5, CrashTyped
  <1>6. CASE UNCHANGED vars
    <2>1. TypeOK'
      BY <1>6 DEF vars, storeVars, serviceVars, monitorVars, TypeInv, TypeOK, StoreTypeOK,
                  ServiceTypeOK, MonitorTypeOK, ImporterTypeOK
    <2> QED
      BY <1>6, <2>1, OffTickTyped DEF vars, monitorVars
  <1> QED
    BY <1>1, <1>2, <1>3, <1>4, <1>5, <1>6 DEF Next

\* Every variable keeps its type in every behaviour, whatever the constants:
\* in particular no retry count exceeds MaxRetries (scanRetry's cap), no
\* transfer is started at an unregistered provider, and no status is asked for
\* without a provider id.
THEOREM TypeCorrect == Spec => []TypeInv
  <1>1. Init => TypeInv
    BY TypeInit
  <1>2. TypeInv /\ [Next]_vars => TypeInv'
    BY TypeNext
  <1> QED
    BY <1>1, <1>2, PTL DEF Spec

----------------------------------------------------------------------------
(* The hand-over.                                                           *)

\* HandoverInv for one id, or one frame, at a time.
CopyFits(t, id) ==
  /\ At(t, id, "persist") => task[t][id].row.state = "downloading"
  /\ At(t, id, "write") => task[t][id].row.state = "queued"
  /\ At(t, id, "failWrite") => task[t][id].row.state = "failed"

Announced(id) ==
  \/ id \in boot
  \/ bus[id] > 0
  \/ \E w \in Workers : ImpAt(id, w, "cas")
  \/ \E t \in Ticks : At(t, id, "filePath") \/ At(t, id, "announce")

PendingHandled(id) == rec[id].state = "importPending" => Announced(id)
ImportHandled(id) == rec[id].state = "importing" => id \in boot \/ InChain(id) # {}

LEMMA HandoverParts ==
  HandoverInv <=>
    /\ \A t \in Ticks, id \in Ids : CopyFits(t, id)
    /\ ResolverCopies /\ RetryCopies /\ ChainCopies
    /\ \A id \in Ids : PendingHandled(id) /\ ImportHandled(id)
  BY DEF HandoverInv, TaskCopies, CopyFits, ImportPendingHandled, PendingHandled,
         Announced, ImportingHandled, ImportHandled

LEMMA HandoverNext ==
  ASSUME \A t \in Ticks, id \in Ids : CopyFits(t, id)',
         ResolverCopies', RetryCopies', ChainCopies',
         \A id \in Ids : PendingHandled(id)' /\ ImportHandled(id)'
  PROVE  HandoverInv'
  BY DEF HandoverInv, TaskCopies, CopyFits, ImportPendingHandled, PendingHandled,
         Announced, ImportingHandled, ImportHandled

\* The copies held outside the ticks are fit when they are left alone.
LEMMA OtherCopiesKept ==
  ASSUME HandoverInv
  PROVE  /\ res' = res => ResolverCopies'
         /\ ret' = ret => RetryCopies'
         /\ imp' = imp => ChainCopies'
         /\ task' = task => \A t \in Ticks, id \in Ids : CopyFits(t, id)'
  BY DEF HandoverInv, ResolverCopies, RetryCopies, ChainCopies, TaskCopies, CopyFits, At

\* A step that does not bring a record into one of the two states and takes
\* away nobody who is at work on it keeps both promises.
LEMMA StillHandled ==
  ASSUME NEW id \in Ids, PendingHandled(id), ImportHandled(id),
         rec'[id].state \in {"importPending", "importing"} => rec'[id].state = rec[id].state,
         boot' = boot, bus'[id] = bus[id], imp' = imp,
         \A t \in Ticks : At(t, id, "filePath") \/ At(t, id, "announce") =>
                          At(t, id, "filePath")' \/ At(t, id, "announce")'
  PROVE  PendingHandled(id)' /\ ImportHandled(id)'
  BY DEF PendingHandled, ImportHandled, Announced, InChain, ImpAt, At

----------------------------------------------------------------------------
(* A step of a tick for one id.                                            *)

\* The frame that Set wrote, and the ones it did not.
LEMMA SetTask ==
  ASSUME TypeInv, NEW t \in Ticks, NEW id \in Ids, NEW f, Set(t, id, f)
  PROVE  /\ task'[t][id] = f
         /\ \A s \in Ticks, i \in Ids : s # t \/ i # id => task'[s][i] = task[s][i]
  BY DEF Set, TypeInv, TypeOK, MonitorTypeOK

\* What the steps that leave the row alone do: nobody about to announce a
\* completion takes one, and a copy on its way to a write is fit to be written.
LEMMA ReadingStep ==
  ASSUME TypeInv, NEW t \in Ticks, NEW id \in Ids,
         \/ SyncFail(t, id) \/ StartPick(t, id) \/ StartAcquire(t, id)
         \/ StartLaunch(t, id) \/ StartFails(t, id) \/ StartReread(t, id)
         \/ PollBegin(t, id) \/ PollStatus(t, id) \/ CheckGet(t, id) \/ CheckAbort(t, id)
         \/ FailGet(t, id) \/ FailReget(t, id) \/ Leave(t, id) \/ ScanSearch(t, id)
  PROVE  /\ UNCHANGED <<rec, bus>>
         /\ ~At(t, id, "filePath") /\ ~At(t, id, "announce")
         /\ CopyFits(t, id)'
  <1>1. task[t][id] \in Frame /\ rec[id] \in Row
    BY DEF TypeInv, TypeOK, StoreTypeOK, MonitorTypeOK
  <1>2. task[t][id].row \in Row
    BY <1>1 DEF Frame
  <1>3. UNCHANGED <<rec, bus>>
    BY DEF SyncFail, StartPick, StartAcquire, StartLaunch, StartFails, StartReread,
           PollBegin, PollStatus, CheckGet, CheckAbort, FailGet, FailReget, Leave,
           ScanSearch, storeVars
  <1>4. ~At(t, id, "filePath") /\ ~At(t, id, "announce")
    BY DEF SyncFail, StartPick, StartAcquire, StartLaunch, StartFails, StartReread,
           PollBegin, PollStatus, CheckGet, CheckAbort, FailGet, FailReget, Leave,
           ScanSearch, Take, At
  <1> SUFFICES CopyFits(t, id)'
    BY <1>3, <1>4
  <1>5. ASSUME NEW f \in Frame, Set(t, id, f), f.pc \notin {"persist", "write", "failWrite"}
        PROVE  CopyFits(t, id)'
    BY <1>5, SetTask DEF CopyFits, At
  <1>6. ASSUME NEW pc \in Pcs \ {"persist", "write", "failWrite"}, Go(t, id, pc)
        PROVE  CopyFits(t, id)'
    BY <1>1, <1>5, <1>6, GoFrame DEF Go
  <1>7. ASSUME NEW then \in {"none", "free", "drop"},
               Exit(t, id, then) \/ Fail(t, id, then)
        PROVE  CopyFits(t, id)'
    <2> DEFINE f(pc) == [task[t][id] EXCEPT !.pc = pc, !.then = then]
    <2>1. ASSUME NEW pc \in {"exit", "failGet"} PROVE f(pc) \in Frame /\ f(pc).pc = pc
      BY <1>1 DEF Frame, Pcs
    <2>2. Set(t, id, f("exit")) \/ Set(t, id, f("failGet"))
      BY <1>7 DEF Exit, Fail
    <2> HIDE DEF f
    <2> QED
      BY <1>5, <2>1, <2>2
  <1>8. ASSUME Set(t, id, Idle) PROVE CopyFits(t, id)'
    BY <1>5, <1>8, IdleTyped DEF Idle
  <1>9. CASE SyncFail(t, id)
    BY <1>6, <1>9 DEF SyncFail, Pcs
  <1>10. CASE StartPick(t, id)
    <2> DEFINE f == [Idle EXCEPT !.pc = "acquire", !.row = rec[id], !.via = Gate(id, rec[id])]
    <2>1. f \in Frame /\ f.pc = "acquire"
      BY <1>1, IdleTyped, StoreAssumption DEF Frame, Pcs, Gate, Row
    <2>2. Set(t, id, Idle) \/ Set(t, id, f)
      BY <1>10 DEF StartPick
    <2> HIDE DEF f
    <2> QED
      BY <1>5, <1>8, <2>1, <2>2
  <1>11. CASE StartAcquire(t, id)
    <2> DEFINE f == [task[t][id] EXCEPT !.pc = "cas", !.then = "free"]
    <2>1. f \in Frame /\ f.pc = "cas"
      BY <1>1 DEF Frame, Pcs
    <2>2. Fail(t, id, "none") \/ Go(t, id, "cas") \/ Set(t, id, f) \/ Set(t, id, Idle)
      BY <1>11 DEF StartAcquire
    <2> HIDE DEF f
    <2> QED
      BY <1>5, <1>6, <1>7, <1>8, <2>1, <2>2 DEF Pcs
  <1>12. CASE StartLaunch(t, id)
    <2> DEFINE f(n) == [task[t][id] EXCEPT !.pc = "reread", !.then = "none", !.h = n]
    <2>1. PICK n \in NextHandle(id) : Set(t, id, f(n))
      BY <1>12 DEF StartLaunch
    <2>2. n \in Handles
      BY StoreAssumption DEF NextHandle, Handles
    <2>3. f(n) \in Frame /\ f(n).pc = "reread"
      BY <1>1, <2>2 DEF Frame, Pcs
    <2> HIDE DEF f
    <2> QED
      BY <1>5, <2>1, <2>3
  <1>13. CASE StartFails(t, id)
    BY <1>1, <1>7, <1>13 DEF StartFails, Frame
  <1>14. CASE StartReread(t, id)
    <2> DEFINE f == [task[t][id] EXCEPT !.pc = "persist", !.row = rec[id]]
    <2>1. f.pc = "persist" /\ f.row = rec[id]
      BY <1>1 DEF Frame
    <2>2. Set(t, id, Idle) \/ (Set(t, id, f) /\ rec[id].state = "downloading")
      BY <1>14 DEF StartReread
    <2> HIDE DEF f
    <2> QED
      BY <1>8, <2>1, <2>2, SetTask DEF CopyFits, At
  <1>15. CASE PollBegin(t, id)
    BY <1>6, <1>7, <1>8, <1>15 DEF PollBegin, Pcs
  <1>16. CASE PollStatus(t, id)
    <2> DEFINE f == [task[t][id] EXCEPT !.pc = "progress", !.st = job[id][task[t][id].h].st]
    <2>1. f.pc = "progress"
      BY <1>1 DEF Frame
    <2>2. Set(t, id, Idle) \/ Set(t, id, f)
      BY <1>16 DEF PollStatus
    <2> HIDE DEF f
    <2> QED
      BY <1>8, <2>1, <2>2, SetTask DEF CopyFits, At
  <1>17. CASE CheckGet(t, id)
    BY <1>6, <1>7, <1>8, <1>17 DEF CheckGet, Pcs
  <1>18. CASE CheckAbort(t, id)
    BY <1>7, <1>18 DEF CheckAbort
  <1>19. CASE FailGet(t, id)
    <2> DEFINE f == [task[t][id] EXCEPT !.pc = "failCas", !.row = rec[id]]
    <2>1. f \in Frame /\ f.pc = "failCas"
      BY <1>1 DEF Frame, Pcs
    <2>2. Go(t, id, "exit") \/ Set(t, id, f)
      BY <1>19 DEF FailGet
    <2> HIDE DEF f
    <2> QED
      BY <1>5, <1>6, <2>1, <2>2 DEF Pcs
  <1>20. CASE FailReget(t, id)
    <2> DEFINE r == [rec[id] EXCEPT !.state = "failed"]
    <2>1. r \in Row /\ r.state = "failed"
      BY <1>1 DEF Row, States, Terminal
    <2> HIDE DEF r
    <2> DEFINE f == [task[t][id] EXCEPT !.pc = "failWrite", !.row = r]
    <2>2. f.pc = "failWrite" /\ f.row = r
      BY <1>1 DEF Frame
    <2>3. Set(t, id, f)
      BY <1>20 DEF FailReget, r
    <2> HIDE DEF f
    <2> QED
      BY <2>1, <2>2, <2>3, SetTask DEF CopyFits, At
  <1>21. CASE Leave(t, id)
    BY <1>8, <1>21 DEF Leave
  <1>22. CASE ScanSearch(t, id)
    <2> DEFINE r(x) == [x EXCEPT !.state = "queued", !.tries = x.tries + 1, !.wait = TRUE]
    <2> DEFINE f(x) == [task[t][id] EXCEPT !.pc = "write", !.row = r(x)]
    <2>1. Set(t, id, Idle) \/ \E x \in Resolved(task[t][id].row) : Set(t, id, f(x))
      BY <1>22 DEF ScanSearch
    <2>2. ASSUME NEW x \in Resolved(task[t][id].row), Set(t, id, f(x))
          PROVE  CopyFits(t, id)'
      <3>1. x \in Row
        BY <1>2, WithSourceTyped DEF Resolved
      <3>2. r(x).state = "queued"
        BY <3>1 DEF Row
      <3> HIDE DEF r
      <3>3. f(x).pc = "write" /\ f(x).row = r(x)
        BY <1>1 DEF Frame
      <3> HIDE DEF f
      <3> QED
        BY <2>2, <3>2, <3>3, SetTask DEF CopyFits, At
    <2> QED
      BY <1>8, <2>1, <2>2
  <1> QED
    BY <1>9, <1>10, <1>11, <1>12, <1>13, <1>14, <1>15, <1>16, <1>17, <1>18,
       <1>19, <1>20, <1>21, <1>22

\* What the steps that write do: they leave other rows alone, bring no record
\* to importing, and one to importPending only if its announcement is to come.
LEMMA WritingStep ==
  ASSUME TypeInv, NEW t \in Ticks, NEW id \in Ids, CopyFits(t, id),
         \/ StartCas(t, id) \/ StartPersist(t, id) \/ PollProgress(t, id)
         \/ PollComplete(t, id) \/ PollFilePath(t, id) \/ PollAnnounce(t, id)
         \/ FailCas(t, id) \/ FailWrite(t, id) \/ ScanWrite(t, id)
  PROVE  /\ \A i \in Ids : i # id => rec'[i] = rec[i] /\ bus'[i] = bus[i]
         /\ CopyFits(t, id)'
         /\ rec'[id].state = "importing" => rec[id].state = "importing"
         /\ \/ /\ bus' = bus /\ ~At(t, id, "filePath") /\ ~At(t, id, "announce")
               /\ rec'[id].state = "importPending" => rec[id].state = "importPending"
            \/ bus'[id] > 0
            \/ At(t, id, "filePath")' \/ At(t, id, "announce")'
  <1>1. task[t][id] \in Frame /\ rec \in [Ids -> Row] /\ bus \in [Ids -> Nat]
    BY DEF TypeInv, TypeOK, StoreTypeOK, MonitorTypeOK
  <1>2. rec[id] \in Row /\ task[t][id].row \in Row
    BY <1>1 DEF Frame
  <1>3. ASSUME NEW pc, Go(t, id, pc) PROVE task'[t][id].pc = pc
    <2>1. task'[t][id] = [task[t][id] EXCEPT !.pc = pc]
      BY <1>3, SetTask DEF Go
    <2> QED
      BY <1>1, <2>1 DEF Frame
  <1>4. ASSUME NEW then, Exit(t, id, then) PROVE task'[t][id].pc = "exit"
    <2>1. task'[t][id] = [task[t][id] EXCEPT !.pc = "exit", !.then = then]
      BY <1>4, SetTask DEF Exit
    <2> QED
      BY <1>1, <2>1 DEF Frame
  <1>5. ASSUME NEW then, Fail(t, id, then) PROVE task'[t][id].pc = "failGet"
    <2>1. task'[t][id] = [task[t][id] EXCEPT !.pc = "failGet", !.then = then]
      BY <1>5, SetTask DEF Fail
    <2> QED
      BY <1>1, <2>1 DEF Frame
  <1>6. ASSUME Set(t, id, Idle) PROVE task'[t][id].pc = "idle"
    BY <1>6, SetTask DEF Idle
  <1>7. ASSUME task'[t][id].pc \notin {"persist", "write", "failWrite"} PROVE CopyFits(t, id)'
    BY <1>7 DEF CopyFits, At
  <1>8. ASSUME NEW s, rec' = [rec EXCEPT ![id].state = s]
        PROVE  rec'[id].state = s /\ \A i \in Ids : i # id => rec'[i] = rec[i]
    BY <1>1, <1>2, <1>8 DEF Row
  <1>9. ASSUME NEW r, Update(id, r)
        PROVE  rec'[id] = r /\ \A i \in Ids : i # id => rec'[i] = rec[i]
    BY <1>1, <1>9 DEF Update
  <1>10. CASE StartCas(t, id)
    <2>1. bus' = bus /\ At(t, id, "cas")
      BY <1>10 DEF StartCas
    <2>2. task'[t][id].pc \in {"launch", "exit"}
      BY <1>3, <1>10 DEF StartCas
    <2>3. UNCHANGED rec \/ rec' = [rec EXCEPT ![id].state = "downloading"]
      BY <1>10 DEF StartCas, TransitionState
    <2> QED
      BY <1>7, <1>8, <2>1, <2>2, <2>3 DEF At
  <1>11. CASE StartPersist(t, id)
    <2> DEFINE r == [task[t][id].row EXCEPT !.pid = task[t][id].h]
    <2>1. r.state = "downloading"
      BY <1>2, <1>11 DEF Row, StartPersist, CopyFits
    <2>2. Update(id, r) /\ bus' = bus /\ At(t, id, "persist") /\ task'[t][id].pc = "idle"
      BY <1>6, <1>11 DEF StartPersist
    <2> HIDE DEF r
    <2> QED
      BY <1>7, <1>9, <2>1, <2>2 DEF At
  <1>12. CASE PollProgress(t, id)
    <2>1. bus' = bus /\ At(t, id, "progress") /\ rec' = [rec EXCEPT ![id].state = "downloading"]
      BY <1>12 DEF PollProgress, UpdateProgress
    <2>2. task'[t][id].pc \in {"complete", "failGet", "exit", "idle"}
      BY <1>3, <1>4, <1>5, <1>6, <1>12 DEF PollProgress
    <2> QED
      BY <1>7, <1>8, <2>1, <2>2 DEF At
  <1>13. CASE PollComplete(t, id)
    <2>1. bus' = bus /\ At(t, id, "complete")
      BY <1>13 DEF PollComplete
    <2>2. \/ /\ rec' = [rec EXCEPT ![id].state = "importPending"]
             /\ task'[t][id].pc \in {"filePath", "announce"}
          \/ UNCHANGED rec /\ task'[t][id].pc = "exit"
      BY <1>3, <1>4, <1>13 DEF PollComplete, TransitionState
    <2> QED
      BY <1>7, <1>8, <2>1, <2>2 DEF At
  <1>14. CASE PollFilePath(t, id)
    <2>1. bus' = bus /\ task'[t][id].pc = "announce" /\ rec' = [rec EXCEPT ![id].state = "importPending"]
      BY <1>3, <1>14 DEF PollFilePath, UpdateProgress
    <2> QED
      BY <1>7, <1>8, <2>1 DEF At
  <1>15. CASE PollAnnounce(t, id)
    <2>1. rec' = rec /\ task'[t][id].pc = "exit" /\ bus' = [bus EXCEPT ![id] = bus[id] + 1]
      BY <1>4, <1>15 DEF PollAnnounce
    <2>2. bus'[id] > 0 /\ \A i \in Ids : i # id => bus'[i] = bus[i]
      BY <1>1, <2>1
    <2> QED
      BY <1>7, <2>1, <2>2
  <1>16. CASE FailCas(t, id)
    <2>1. bus' = bus /\ At(t, id, "failCas")
      BY <1>16 DEF FailCas
    <2>2. task'[t][id].pc \in {"failReget", "exit"}
      BY <1>3, <1>16 DEF FailCas
    <2>3. UNCHANGED rec \/ rec' = [rec EXCEPT ![id].state = "failed"]
      BY <1>16 DEF FailCas, TransitionState
    <2> QED
      BY <1>7, <1>8, <2>1, <2>2, <2>3 DEF At
  <1>17. CASE FailWrite(t, id)
    <2>1. Update(id, task[t][id].row) /\ bus' = bus /\ At(t, id, "failWrite") /\ task'[t][id].pc = "exit"
      BY <1>3, <1>17 DEF FailWrite
    <2> QED
      BY <1>7, <1>9, <2>1 DEF At, CopyFits
  <1>18. CASE ScanWrite(t, id)
    <2>1. Update(id, task[t][id].row) /\ bus' = bus /\ At(t, id, "write") /\ task'[t][id].pc = "idle"
      BY <1>6, <1>18 DEF ScanWrite
    <2> QED
      BY <1>7, <1>9, <2>1 DEF At, CopyFits
  <1> QED
    BY <1>10, <1>11, <1>12, <1>13, <1>14, <1>15, <1>16, <1>17, <1>18

LEMMA TaskStepHandover ==
  ASSUME TypeInv, HandoverInv, NEW t \in Ticks, NEW id \in Ids, TaskStep(t, id),
         UNCHANGED <<serviceVars, imp, crashes>>
  PROVE  HandoverInv'
  <1>1. boot' = boot /\ res' = res /\ ret' = ret /\ imp' = imp
    BY TaskStepShared DEF tickVars, serviceVars
  <1>2. \A s \in Ticks, i \in Ids : s # t \/ i # id => task'[s][i] = task[s][i]
    BY TaskStepFrame, SetTask DEF SetsFrame
  <1>3. \A i \in Ids : PendingHandled(i) /\ ImportHandled(i)
    BY HandoverParts
  <1>4. CASE \/ SyncFail(t, id) \/ StartPick(t, id) \/ StartAcquire(t, id)
             \/ StartLaunch(t, id) \/ StartFails(t, id) \/ StartReread(t, id)
             \/ PollBegin(t, id) \/ PollStatus(t, id) \/ CheckGet(t, id) \/ CheckAbort(t, id)
             \/ FailGet(t, id) \/ FailReget(t, id) \/ Leave(t, id) \/ ScanSearch(t, id)
    <2>1. /\ UNCHANGED <<rec, bus>>
          /\ ~At(t, id, "filePath") /\ ~At(t, id, "announce")
          /\ CopyFits(t, id)'
      BY <1>4, ReadingStep
    <2>2. \A i \in Ids : PendingHandled(i)' /\ ImportHandled(i)'
      BY <1>1, <1>2, <1>3, <2>1, StillHandled DEF At
    <2>3. \A s \in Ticks, i \in Ids : CopyFits(s, i)'
      BY <1>2, <2>1, HandoverParts DEF CopyFits, At
    <2> QED
      BY <1>1, <2>2, <2>3, OtherCopiesKept, HandoverNext
  <1>5. CASE \/ StartCas(t, id) \/ StartPersist(t, id) \/ PollProgress(t, id)
             \/ PollComplete(t, id) \/ PollFilePath(t, id) \/ PollAnnounce(t, id)
             \/ FailCas(t, id) \/ FailWrite(t, id) \/ ScanWrite(t, id)
    <2>1. CopyFits(t, id)
      BY HandoverParts
    <2>2. /\ \A i \in Ids : i # id => rec'[i] = rec[i] /\ bus'[i] = bus[i]
          /\ CopyFits(t, id)'
          /\ rec'[id].state = "importing" => rec[id].state = "importing"
          /\ \/ /\ bus' = bus /\ ~At(t, id, "filePath") /\ ~At(t, id, "announce")
                /\ rec'[id].state = "importPending" => rec[id].state = "importPending"
             \/ bus'[id] > 0
             \/ At(t, id, "filePath")' \/ At(t, id, "announce")'
      BY <1>5, <2>1, WritingStep
    <2>3. ASSUME NEW i \in Ids, i # id PROVE PendingHandled(i)' /\ ImportHandled(i)'
      BY <1>1, <1>2, <1>3, <2>2, <2>3, StillHandled DEF At
    <2>4. PendingHandled(id)' /\ ImportHandled(id)'
      <3>1. CASE /\ bus' = bus /\ ~At(t, id, "filePath") /\ ~At(t, id, "announce")
                 /\ rec'[id].state = "importPending" => rec[id].state = "importPending"
        BY <1>1, <1>2, <1>3, <2>2, <3>1, StillHandled DEF At
      <3>2. CASE bus'[id] > 0 \/ At(t, id, "filePath")' \/ At(t, id, "announce")'
        <4>1. Announced(id)'
          BY <3>2 DEF Announced
        <4>2. ImportHandled(id)'
          BY <1>1, <1>3, <2>2 DEF ImportHandled, InChain
        <4> QED
          BY <4>1, <4>2 DEF PendingHandled
      <3> QED
        BY <2>2, <3>1, <3>2
    <2>5. \A s \in Ticks, i \in Ids : CopyFits(s, i)'
      BY <1>2, <2>2, HandoverParts DEF CopyFits, At
    <2> QED
      BY <1>1, <2>3, <2>4, <2>5, OtherCopiesKept, HandoverNext
  <1> QED
    BY <1>4, <1>5 DEF TaskStep

----------------------------------------------------------------------------
(* The steps of a tick as a whole: a phase ends when nobody works in it.   *)

LEMMA TickStepHandover ==
  ASSUME TypeInv, HandoverInv, NEW t \in Ticks, TickStep(t),
         UNCHANGED <<serviceVars, imp, crashes>>
  PROVE  HandoverInv'
  <1>1. UNCHANGED <<rec, bus, boot, res, ret, imp>>
    BY DEF TickStep, TickBegin, SyncList, SyncDrop, StartList, PollList, CheckList, RetryList,
           TickEnd, storeVars, tickVars, serviceVars
  <1>2. task \in [Ticks -> [Ids -> Frame]]
    BY DEF TypeInv, TypeOK, MonitorTypeOK
  <1>3. \A s \in Ticks, i \in Ids :
          \/ task'[s][i] = task[s][i]
          \/ At(s, i, "idle") /\ task'[s][i].pc \in {"idle", "listed", "poll"}
    <2>1. ASSUME NEW frames, task' = [task EXCEPT ![t] = frames], Quiet(t),
                 \A i \in Ids : frames[i].pc \in {"idle", "listed", "poll"}
          PROVE  \A s \in Ticks, i \in Ids :
                   \/ task'[s][i] = task[s][i]
                   \/ At(s, i, "idle") /\ task'[s][i].pc \in {"idle", "listed", "poll"}
      BY <1>2, <2>1 DEF Quiet
    <2>2. CASE TickBegin(t) \/ (\E p \in Providers : SyncList(t, p)) \/ TickEnd(t)
      BY <2>2 DEF TickBegin, SyncList, TickEnd
    <2>3. CASE SyncDrop(t)
      <3> DEFINE lost == {id \in Ids : /\ Tracked(id) /\ active[id].via = tick[t].via
                                       /\ <<id, active[id].h>> \notin tick[t].seen}
      <3> DEFINE frames == [id \in Ids |->
                   IF id \in lost THEN [Idle EXCEPT !.pc = "listed", !.then = "free",
                                                    !.via = tick[t].via, !.h = active[id].h]
                   ELSE Idle]
      <3>1. task' = [task EXCEPT ![t] = frames] /\ Quiet(t)
        BY <2>3 DEF SyncDrop
      <3> HIDE DEF lost
      <3>2. \A i \in Ids : frames[i].pc \in {"idle", "listed", "poll"}
        BY DEF Idle
      <3> HIDE DEF frames
      <3> QED
        BY <2>1, <3>1, <3>2
    <2>4. CASE StartList(t)
      <3> DEFINE frames == [id \in Ids |->
                   IF rec[id].state = "queued" /\ ~IsPendingSource(rec[id]) /\ ~rec[id].wait
                   THEN [Idle EXCEPT !.pc = "listed"] ELSE Idle]
      <3>1. task' = [task EXCEPT ![t] = frames] /\ Quiet(t)
        BY <2>4 DEF StartList, Enter
      <3>2. \A i \in Ids : frames[i].pc \in {"idle", "listed", "poll"}
        BY DEF Idle
      <3> HIDE DEF frames
      <3> QED
        BY <2>1, <3>1, <3>2
    <2>5. CASE PollList(t) \/ CheckList(t)
      <3>1. PICK pc \in {"poll", "listed"} : task' = [task EXCEPT ![t] = Snapshot(pc)] /\ Quiet(t)
        BY <2>5 DEF PollList, CheckList, Enter
      <3>2. \A i \in Ids : Snapshot(pc)[i].pc \in {"idle", "listed", "poll"}
        BY SnapshotTyped
      <3> QED
        BY <2>1, <3>1, <3>2
    <2>6. CASE RetryList(t)
      <3> DEFINE due == sinceRetry + 1 >= RetryEvery
      <3> DEFINE frames == [id \in Ids |->
                   IF due /\ rec[id].state \in Retryable /\ rec[id].tries < MaxRetries /\ ~rec[id].wait
                   THEN [Idle EXCEPT !.pc = "listed", !.row = rec[id]] ELSE Idle]
      <3>1. task' = [task EXCEPT ![t] = frames] /\ Quiet(t)
        BY <2>6 DEF RetryList, Enter
      <3> HIDE DEF due
      <3>2. \A i \in Ids : frames[i].pc \in {"idle", "listed", "poll"}
        BY DEF Idle
      <3> HIDE DEF frames
      <3> QED
        BY <2>1, <3>1, <3>2
    <2> QED
      BY <2>2, <2>3, <2>4, <2>5, <2>6 DEF TickStep
  <1>4. \A s \in Ticks, i \in Ids : CopyFits(s, i)'
    BY <1>3, HandoverParts DEF CopyFits, At
  <1>5. \A i \in Ids : PendingHandled(i)' /\ ImportHandled(i)'
    BY <1>1, <1>3, HandoverParts, StillHandled DEF At
  <1> QED
    BY <1>1, <1>4, <1>5, OtherCopiesKept, HandoverNext

----------------------------------------------------------------------------
(* The service, the resolver, the providers and time.                      *)

\* A step that only writes rows, and only in states without a promise, or
\* leaves their states as they are.
LEMMA OffTickHandover ==
  ASSUME HandoverInv, UNCHANGED <<task, boot, bus, imp>>, ResolverCopies', RetryCopies',
         \A i \in Ids : rec'[i].state \in {"importPending", "importing"}
                         => rec'[i].state = rec[i].state
  PROVE  HandoverInv'
  <1>1. \A i \in Ids : PendingHandled(i)' /\ ImportHandled(i)'
    BY HandoverParts, StillHandled DEF At
  <1> QED
    BY <1>1, OtherCopiesKept, HandoverNext

LEMMA ServiceStepHandover ==
  ASSUME TypeInv, HandoverInv, ServiceStep
  PROVE  HandoverInv'
  <1>1. UNCHANGED <<task, boot, bus, imp, res>>
    BY DEF ServiceStep, ServiceNext, Queue, QueuePending, CancelGet, CancelWrite, CancelProvider,
           RetryGet, RetryWrite, RetrySearch, RetrySubmit, storeVars, monitorVars
  <1>2. rec \in [Ids -> Row] /\ ret \in [Callers -> RetFrame] /\ can \in [Ids -> CanFrame]
    BY DEF TypeInv, TypeOK, StoreTypeOK, ServiceTypeOK
  <1>3. ResolverCopies'
    BY <1>1, OtherCopiesKept
  <1>4. ASSUME NEW id \in Ids, NEW r, Update(id, r), r.state \notin {"importPending", "importing"}
        PROVE  \A i \in Ids : rec'[i].state \in {"importPending", "importing"}
                               => rec'[i].state = rec[i].state
    BY <1>2, <1>4 DEF Update
  <1>5. CASE \E id \in Ids : Queue(id) \/ QueuePending(id)
    <2>1. PICK id \in Ids, r \in Row : Insert(id, r)
      BY <1>5, NoRowTyped, WithSourceTyped DEF Queue, QueuePending
    <2> DEFINE q == [r EXCEPT !.state = "queued", !.tries = 0]
    <2>2. rec' = [rec EXCEPT ![id] = q] /\ q.state = "queued"
      BY <2>1 DEF Insert, Row
    <2>3. ret' = ret
      BY <1>5 DEF Queue, QueuePending, serviceVars
    <2> HIDE DEF q
    <2> QED
      BY <1>1, <1>2, <1>3, <1>4, <2>2, <2>3, OffTickHandover, OtherCopiesKept DEF Update
  <1>6. CASE \E id \in Ids : CancelGet(id) \/ CancelProvider(id)
    <2>1. UNCHANGED <<rec, ret>>
      BY <1>6 DEF CancelGet, CancelProvider, storeVars
    <2> QED
      BY <1>1, <1>3, <2>1, OffTickHandover, OtherCopiesKept
  <1>7. CASE \E id \in Ids : CancelWrite(id)
    <2>1. PICK id \in Ids : CancelWrite(id)
      BY <1>7
    <2> DEFINE r == [can[id].row EXCEPT !.state = "ignored"]
    <2>2. r.state = "ignored"
      BY <1>2 DEF CanFrame, Row
    <2>3. Update(id, r) /\ ret' = ret
      BY <2>1 DEF CancelWrite
    <2> HIDE DEF r
    <2> QED
      BY <1>1, <1>3, <1>4, <2>2, <2>3, OffTickHandover, OtherCopiesKept
  <1>8. CASE \E c \in Callers, id \in Ids : RetryGet(c, id)
    <2>1. PICK c \in Callers, id \in Ids : RetryGet(c, id)
      BY <1>8
    <2> DEFINE fresh == [rec[id] EXCEPT !.state = "queued", !.tries = 0, !.wait = FALSE]
    <2> DEFINE r == IF id \in Untitled THEN fresh ELSE [fresh EXCEPT !.file = FALSE]
    <2>2. r.state = "queued"
      BY <1>2 DEF Row
    <2>3. rec' = rec /\ ret' = [ret EXCEPT ![c] = [pc |-> "write", id |-> id, orig |-> rec[id], row |-> r]]
      BY <2>1 DEF RetryGet, storeVars
    <2> HIDE DEF r
    <2>4. RetryCopies'
      BY <1>2, <2>2, <2>3, HandoverParts DEF RetryCopies
    <2> QED
      BY <1>1, <1>3, <2>3, <2>4, OffTickHandover
  <1>9. CASE \E c \in Callers : RetryWrite(c) \/ RetrySubmit(c)
    <2>1. PICK c \in Callers : RetryWrite(c) \/ RetrySubmit(c)
      BY <1>9
    <2>2. ret[c] \in RetFrame
      BY <1>2
    <2>3. /\ Update(ret[c].id, ret[c].row) /\ ret[c].id \in Ids
          /\ ret[c].row.state \in {"queued", "failed"}
      BY <2>1, <2>2, HandoverParts DEF RetryWrite, RetrySubmit, RetryCopies, RetFrame
    <2>4. RetryCopies'
      <3> DEFINE f == [ret[c] EXCEPT !.pc = "search"]
      <3>1. f.row = ret[c].row
        BY <2>2 DEF RetFrame
      <3>2. ret' = [ret EXCEPT ![c] = NoRet] \/ ret' = [ret EXCEPT ![c] = f]
        BY <2>1 DEF RetryWrite, RetrySubmit
      <3> HIDE DEF f
      <3> QED
        BY <1>2, <2>3, <3>1, <3>2, HandoverParts DEF RetryCopies, NoRet
    <2> QED
      BY <1>1, <1>3, <1>4, <2>3, <2>4, OffTickHandover
  <1>10. CASE \E c \in Callers : RetrySearch(c)
    <2>1. PICK c \in Callers : RetrySearch(c)
      BY <1>10
    <2>2. ret[c] \in RetFrame /\ ret[c].row \in Row
      BY <1>2 DEF RetFrame
    <2> DEFINE f(r) == [ret[c] EXCEPT !.pc = "submit", !.row = r]
    <2>3. ASSUME NEW r PROVE f(r).row = r
      BY <2>2 DEF RetFrame
    <2>4. \E r : ret' = [ret EXCEPT ![c] = f(r)] /\ r.state \in {"queued", "failed"}
      <3>1. ret[c].row.state \in {"queued", "failed"}
        BY <2>1, HandoverParts DEF RetrySearch, RetryCopies
      <3>2. GivenUp(ret[c]).state = "failed"
        BY <2>2 DEF GivenUp, Row
      <3>3. \A p : WithSource(ret[c].row, p).state = ret[c].row.state
        BY <2>2 DEF WithSource, Row
      <3>4. \/ \E p \in Providers \ {Client} : ret' = [ret EXCEPT ![c] = f(WithSource(ret[c].row, p))]
            \/ ret' = [ret EXCEPT ![c] = f(GivenUp(ret[c]))]
        BY <2>1 DEF RetrySearch
      <3> HIDE DEF f
      <3> QED
        BY <3>1, <3>2, <3>3, <3>4
    <2> HIDE DEF f
    <2>5. RetryCopies'
      BY <1>2, <2>3, <2>4, HandoverParts DEF RetryCopies
    <2>6. rec' = rec
      BY <2>1 DEF RetrySearch, storeVars
    <2> QED
      BY <1>1, <1>3, <2>5, <2>6, OffTickHandover
  <1> QED
    BY <1>5, <1>6, <1>7, <1>8, <1>9, <1>10 DEF ServiceStep, ServiceNext

LEMMA ResolverStepHandover ==
  ASSUME TypeInv, HandoverInv, ResolverStep, UNCHANGED <<serviceVars, imp, crashes>>
  PROVE  HandoverInv'
  <1>1. UNCHANGED <<task, boot, bus, imp, ret>>
    BY DEF ResolverStep, ResolveList, ResolveEnd, ResolveSearch, ResolveWrite, storeVars, serviceVars
  <1>2. rec \in [Ids -> Row] /\ res \in [Ids -> ResFrame]
    BY DEF TypeInv, TypeOK, StoreTypeOK, MonitorTypeOK
  <1>3. RetryCopies'
    BY <1>1, OtherCopiesKept
  <1>4. CASE ResolveList \/ ResolveEnd
    <2>1. rec' = rec
      BY <1>4 DEF ResolveList, ResolveEnd, storeVars
    <2>2. ResolverCopies'
      BY <1>4, OtherCopiesKept DEF ResolveList, ResolveEnd, ResolverCopies, NoRes
    <2> QED
      BY <1>1, <1>3, <2>1, <2>2, OffTickHandover
  <1>5. CASE \E id \in Ids : ResolveSearch(id)
    <2>1. PICK id \in Ids : ResolveSearch(id)
      BY <1>5
    <2>2. res[id].row \in Row
      BY <1>2 DEF ResFrame
    <2> DEFINE f(r) == [pc |-> "write", row |-> r]
    <2> DEFINE lost == [res[id].row EXCEPT !.state = "failedPending", !.tries = 1, !.wait = TRUE]
    <2>3. lost.state = "failedPending"
      BY <2>2 DEF Row
    <2>4. \A p : WithSource(res[id].row, p).state = res[id].row.state
      BY <2>2 DEF WithSource, Row
    <2>5. \/ \E p \in Providers \ {Client} : res' = [res EXCEPT ![id] = f(WithSource(res[id].row, p))]
          \/ res' = [res EXCEPT ![id] = f(lost)]
      BY <2>1 DEF ResolveSearch
    <2>6. res[id].row.state \in {"queued", "failedPending"}
      BY <2>1, HandoverParts DEF ResolveSearch, ResolverCopies
    <2> HIDE DEF lost
    <2>7. ResolverCopies'
      BY <1>2, <2>3, <2>4, <2>5, <2>6, HandoverParts DEF ResolverCopies
    <2>8. rec' = rec
      BY <2>1 DEF ResolveSearch, storeVars
    <2> QED
      BY <1>1, <1>3, <2>7, <2>8, OffTickHandover
  <1>6. CASE \E id \in Ids : ResolveWrite(id)
    <2>1. PICK id \in Ids : ResolveWrite(id)
      BY <1>6
    <2>2. Update(id, res[id].row) /\ res[id].row.state \in {"queued", "failedPending"}
      BY <2>1, HandoverParts DEF ResolveWrite, ResolverCopies
    <2>3. ResolverCopies'
      BY <1>2, <2>1, HandoverParts DEF ResolveWrite, ResolverCopies, NoRes
    <2>4. \A i \in Ids : rec'[i].state \in {"importPending", "importing"}
                         => rec'[i].state = rec[i].state
      BY <1>2, <2>2 DEF Update
    <2> QED
      BY <1>1, <1>3, <2>3, <2>4, OffTickHandover
  <1> QED
    BY <1>4, <1>5, <1>6 DEF ResolverStep

LEMMA BootStepHandover ==
  ASSUME TypeInv, HandoverInv, BootStep, UNCHANGED <<serviceVars, imp, crashes>>
  PROVE  HandoverInv'
  <1>1. UNCHANGED <<task, res, ret, imp>>
    BY DEF BootStep, Start, Recover, Revisit, storeVars, serviceVars
  <1>2. rec \in [Ids -> Row] /\ bus \in [Ids -> Nat]
    BY DEF TypeInv, TypeOK, StoreTypeOK
  <1>3. CASE Start
    BY <1>1, <1>3, OffTickHandover, OtherCopiesKept DEF Start, storeVars
  <1>4. CASE \E id \in Ids : Recover(id)
    <2>1. PICK id \in Ids : Recover(id)
      BY <1>4
    <2>2. boot' = boot \ {id}
      BY <2>1 DEF Recover, Revisit
    <2>3. /\ \A i \in Ids : i # id => rec'[i] = rec[i]
          /\ rec[id].state \in {"downloading", "importing"} => rec'[id].state = "failed"
          /\ rec[id].state \notin {"downloading", "importing"} => rec' = rec
      BY <1>2, <2>1 DEF Recover, UpdateProgress, Row
    <2>4. /\ \A i \in Ids : i # id => bus'[i] = bus[i]
          /\ rec[id].state = "importPending" => bus'[id] > 0
      BY <1>2, <2>1 DEF Recover
    <2>5. ASSUME NEW i \in Ids, i # id PROVE PendingHandled(i)' /\ ImportHandled(i)'
      BY <1>1, <2>2, <2>3, <2>4, <2>5, HandoverParts
      DEF PendingHandled, ImportHandled, Announced, InChain, ImpAt, At
    <2>6. PendingHandled(id)'
      BY <2>3, <2>4 DEF PendingHandled, Announced
    <2>7. ImportHandled(id)'
      BY <2>3 DEF ImportHandled
    <2> QED
      BY <1>1, <2>5, <2>6, <2>7, OtherCopiesKept, HandoverNext
  <1> QED
    BY <1>3, <1>4 DEF BootStep

LEMMA OutsideStepHandover ==
  ASSUME TypeInv, HandoverInv,
         \/ ProviderStep
         \/ TimeStep /\ UNCHANGED <<serviceVars, imp, crashes>>
  PROVE  HandoverInv'
  <1>1. UNCHANGED <<task, boot, bus, imp, res, ret>>
    BY DEF ProviderStep, JobEnds, JobLost, JobCancelled, TimeStep, BackoffElapses,
           DeadlinePasses, storeVars, serviceVars, monitorVars, tickVars
  <1>2. rec \in [Ids -> Row]
    BY DEF TypeInv, TypeOK, StoreTypeOK
  <1>3. rec' = rec \/ \E id \in Ids : rec' = [rec EXCEPT ![id].wait = FALSE]
    BY DEF ProviderStep, JobEnds, JobLost, JobCancelled, TimeStep, BackoffElapses,
           DeadlinePasses, storeVars
  <1>4. \A i \in Ids : rec'[i].state = rec[i].state
    BY <1>2, <1>3 DEF Row
  <1> QED
    BY <1>1, <1>4, OffTickHandover, OtherCopiesKept

----------------------------------------------------------------------------
(* The importer, and a restart.                                            *)

\* A goroutine of the chain that goes on, or stops with the row at rest.
LEMMA ImporterStepHandover ==
  ASSUME TypeInv, HandoverInv, ImporterStep
  PROVE  HandoverInv'
  <1>1. UNCHANGED <<task, boot, res, ret>>
    BY DEF ImporterStep, serviceVars, monitorVars
  <1>2. /\ rec \in [Ids -> Row] /\ bus \in [Ids -> Nat]
        /\ imp \in [Ids -> [Workers -> ImpFrame]]
    BY DEF TypeInv, TypeOK, StoreTypeOK, ImporterTypeOK
  <1>3. PICK id \in Ids, w \in Workers : ImpStep(id, w)
    BY DEF ImporterStep
  <1>4. imp[id][w] \in ImpFrame /\ imp[id][w].row \in Row /\ rec[id] \in Row
    BY <1>2 DEF ImpFrame
  <1>5. imp[id][w].pc \in Chain => imp[id][w].row.state = "importing"
    BY HandoverParts DEF ChainCopies
  <1>6. ASSUME NEW f, ImpSet(id, w, f)
        PROVE  /\ imp'[id][w] = f
               /\ \A i \in Ids, v \in Workers : i # id \/ v # w => imp'[i][v] = imp[i][v]
    BY <1>2, <1>6 DEF ImpSet
  <1>7. ASSUME NEW pc, ImpGo(id, w, pc)
        PROVE  /\ imp'[id][w].pc = pc /\ imp'[id][w].row = imp[id][w].row
               /\ \A i \in Ids, v \in Workers : i # id \/ v # w => imp'[i][v] = imp[i][v]
    <2> DEFINE f == [imp[id][w] EXCEPT !.pc = pc]
    <2>1. f.pc = pc /\ f.row = imp[id][w].row
      BY <1>4 DEF ImpFrame
    <2>2. ImpSet(id, w, f)
      BY <1>7 DEF ImpGo
    <2> HIDE DEF f
    <2> QED
      BY <1>6, <2>1, <2>2
  <1>8. ASSUME NEW r, Update(id, r)
        PROVE  rec'[id] = r /\ \A i \in Ids : i # id => rec'[i] = rec[i]
    BY <1>2, <1>8 DEF Update
  \* What remains to be shown of each step, of its own id and of the others.
  <1>9. ASSUME \A i \in Ids : i # id => rec'[i] = rec[i] /\ bus'[i] = bus[i],
               \A i \in Ids, v \in Workers : i # id \/ v # w => imp'[i][v] = imp[i][v],
               imp'[id][w].pc \in Chain => imp'[id][w].row.state = "importing",
               PendingHandled(id)', ImportHandled(id)'
        PROVE  HandoverInv'
    <2>1. ChainCopies'
      BY <1>9, HandoverParts DEF ChainCopies
    <2>2. ASSUME NEW i \in Ids, i # id PROVE PendingHandled(i)' /\ ImportHandled(i)'
      BY <1>1, <1>9, <2>2, HandoverParts
      DEF PendingHandled, ImportHandled, Announced, InChain, ImpAt, At
    <2> QED
      BY <1>1, <1>9, <2>1, <2>2, OtherCopiesKept, HandoverNext
  <1>10. CASE ImpBegin(id, w)
    <2>1. /\ rec' = rec /\ \A i \in Ids : i # id => bus'[i] = bus[i]
          /\ imp[id][w].pc = "idle"
      BY <1>2, <1>10 DEF ImpBegin, ImpAt
    <2>2. CASE rec[id].state = "importPending"
      <3>1. /\ imp'[id][w].pc = "cas"
            /\ \A i \in Ids, v \in Workers : i # id \/ v # w => imp'[i][v] = imp[i][v]
        BY <1>6, <1>10, <2>2 DEF ImpBegin
      <3>2. PendingHandled(id)' /\ ImportHandled(id)'
        BY <2>1, <2>2, <3>1 DEF PendingHandled, ImportHandled, Announced, ImpAt
      <3> QED
        BY <1>9, <2>1, <3>1, <3>2 DEF Chain
    <2>3. CASE rec[id].state # "importPending"
      <3>1. imp' = imp
        BY <1>10, <2>3 DEF ImpBegin
      <3>2. PendingHandled(id)' /\ ImportHandled(id)'
        BY <1>1, <2>1, <2>3, <3>1, HandoverParts DEF PendingHandled, ImportHandled, InChain
      <3> QED
        BY <1>5, <1>9, <2>1, <3>1, <3>2
    <2> QED
      BY <2>2, <2>3
  <1>11. CASE ImpCas(id, w)
    <2>1. bus' = bus /\ imp[id][w].pc = "cas"
      BY <1>11 DEF ImpCas, ImpAt
    <2>2. CASE TransitionState(id, "importPending", "importing")
      <3>1. /\ rec'[id].state = "importing"
            /\ \A i \in Ids : i # id => rec'[i] = rec[i]
        BY <1>2, <2>2 DEF TransitionState, Row
      <3> DEFINE r == [imp[id][w].row EXCEPT !.state = "importing"]
      <3> DEFINE f == [pc |-> IF id \in Albums THEN "album" ELSE "check", row |-> r]
      <3>2. r.state = "importing"
        BY <1>4 DEF Row
      <3>3. ImpSet(id, w, f)
        BY <1>11, <2>2 DEF ImpCas, TransitionState, Matches
      <3> HIDE DEF r
      <3>4. f.pc \in Chain /\ f.row.state = "importing"
        BY <3>2 DEF Chain
      <3> HIDE DEF f
      <3>5. /\ imp'[id][w] = f
            /\ \A i \in Ids, v \in Workers : i # id \/ v # w => imp'[i][v] = imp[i][v]
        BY <1>6, <3>3
      <3>6. PendingHandled(id)' /\ ImportHandled(id)'
        BY <3>1, <3>4, <3>5 DEF PendingHandled, ImportHandled, InChain
      <3> QED
        BY <1>9, <2>1, <3>1, <3>4, <3>5, <3>6
    <2>3. CASE ~Matches(id, "importPending")
      <3>1. rec' = rec /\ ImpSet(id, w, NoImp) /\ rec[id].state # "importPending"
        BY <1>11, <2>3 DEF ImpCas, ImpStop, TransitionState, Matches
      <3>2. /\ imp'[id][w].pc = "idle"
            /\ \A i \in Ids, v \in Workers : i # id \/ v # w => imp'[i][v] = imp[i][v]
        BY <1>6, <3>1 DEF NoImp
      <3>3. ImportHandled(id)'
        BY <1>1, <2>1, <3>1, <3>2, HandoverParts DEF ImportHandled, InChain, Chain
      <3> QED
        BY <1>9, <2>1, <3>1, <3>2, <3>3 DEF PendingHandled, Chain
    <2> QED
      BY <1>11, <2>2, <2>3 DEF ImpCas
  \* A step inside the chain: the goroutine stays in it, and the row is left
  \* alone or written from the goroutine's copy, in state importing.
  <1>12. ASSUME NEW pc \in Chain, ImpGo(id, w, pc), imp[id][w].pc \in Chain, bus' = bus,
                rec' = rec \/ Update(id, imp[id][w].row)
         PROVE  HandoverInv'
    <2>1. /\ imp'[id][w].pc \in Chain /\ imp'[id][w].row.state = "importing"
          /\ \A i \in Ids, v \in Workers : i # id \/ v # w => imp'[i][v] = imp[i][v]
      BY <1>5, <1>7, <1>12
    <2>2. \A i \in Ids : i # id => rec'[i] = rec[i]
      BY <1>8, <1>12
    <2>3. ImportHandled(id)'
      BY <2>1 DEF ImportHandled, InChain
    <2>4. PendingHandled(id)'
      <3>1. CASE rec' = rec
        <4>1. rec[id].state = "importPending" => Announced(id)'
          BY <1>1, <1>12, <2>1, HandoverParts DEF PendingHandled, Announced, ImpAt, At, Chain
        <4> QED
          BY <3>1, <4>1 DEF PendingHandled
      <3>2. CASE Update(id, imp[id][w].row)
        BY <1>5, <1>8, <1>12, <3>2 DEF PendingHandled
      <3> QED
        BY <1>12, <3>1, <3>2
    <2> QED
      BY <1>9, <1>12, <2>1, <2>2, <2>3, <2>4
  \* The end of the chain: the row is left at rest.
  <1>13. ASSUME ImpStop(id, w), bus' = bus, \A i \in Ids : i # id => rec'[i] = rec[i],
                rec'[id].state \in Terminal
         PROVE  HandoverInv'
    <2>1. /\ imp'[id][w].pc = "idle"
          /\ \A i \in Ids, v \in Workers : i # id \/ v # w => imp'[i][v] = imp[i][v]
      BY <1>6, <1>13 DEF ImpStop, NoImp
    <2> QED
      BY <1>9, <1>13, <2>1 DEF PendingHandled, ImportHandled, Terminal, Chain
  <1>14. CASE ImpCheck(id, w)
    <2>1. rec' = rec /\ bus' = bus /\ imp[id][w].pc \in Chain
      BY <1>14 DEF ImpCheck, storeVars, ImpAt, Chain
    <2>2. \/ ImpStop(id, w) /\ rec[id].state \in Terminal
          \/ ImpGo(id, w, "rename") \/ ImpGo(id, w, "rest")
      BY <1>14 DEF ImpCheck
    <2> QED
      BY <1>12, <1>13, <2>1, <2>2 DEF Chain
  <1>15. CASE ImpRename(id, w) \/ ImpRest(id, w) \/ ImpAlbum(id, w)
    <2>1. bus' = bus /\ imp[id][w].pc \in Chain
      BY <1>15 DEF ImpRename, ImpRest, ImpAlbum, storeVars, ImpAt, Chain
    <2>2. rec' = rec \/ Update(id, imp[id][w].row)
      BY <1>15 DEF ImpRename, ImpRest, ImpAlbum, storeVars
    <2>3. ImpGo(id, w, "recheck") \/ ImpGo(id, w, "final") \/ ImpGo(id, w, "fail")
      BY <1>15 DEF ImpRename, ImpRest, ImpAlbum
    <2> QED
      BY <1>12, <2>1, <2>2, <2>3 DEF Chain
  <1>16. CASE ImpFinal(id, w) \/ ImpFail(id, w)
    <2> DEFINE r(s) == [imp[id][w].row EXCEPT !.state = s]
    <2>1. \A s : r(s).state = s
      BY <1>4 DEF Row
    <2>2. PICK s \in {"imported", "failed"} : Update(id, r(s))
      BY <1>16 DEF ImpFinal, ImpFail
    <2>3. bus' = bus /\ ImpStop(id, w)
      BY <1>16 DEF ImpFinal, ImpFail
    <2> HIDE DEF r
    <2> QED
      BY <1>8, <1>13, <2>1, <2>2, <2>3 DEF Terminal
  <1> QED
    BY <1>3, <1>10, <1>11, <1>14, <1>15, <1>16 DEF ImpStep

\* A restart forgets everybody at work, but puts every row before recovery.
LEMMA CrashHandover ==
  ASSUME TypeInv, HandoverInv, Crash
  PROVE  HandoverInv'
  <1>1. /\ rec' = rec /\ boot' = {id \in Ids : rec[id].state # "absent"}
        /\ res' = NothingResolving /\ imp' = NothingImporting
        /\ task' = NoTask /\ ret' = [c \in Callers |-> NoRet]
    BY DEF Crash, MonitorReset
  <1>2. \A t \in Ticks, id \in Ids : CopyFits(t, id)'
    BY <1>1 DEF CopyFits, At, NoTask, Idle
  <1>3. ResolverCopies' /\ RetryCopies' /\ ChainCopies'
    BY <1>1 DEF ResolverCopies, RetryCopies, ChainCopies, NothingResolving, NoRes, NoRet,
               NothingImporting, NoImp, Chain
  <1>4. \A id \in Ids : PendingHandled(id)' /\ ImportHandled(id)'
    BY <1>1 DEF PendingHandled, ImportHandled, Announced
  <1> QED
    BY <1>2, <1>3, <1>4, HandoverNext

LEMMA HandoverInit ==
  ASSUME Init
  PROVE  HandoverInv
  <1>1. /\ rec = [id \in Ids |-> NoRow] /\ res = NothingResolving /\ imp = NothingImporting
        /\ task = NoTask /\ ret = [c \in Callers |-> NoRet]
    BY DEF Init, StoreInit, ServiceInit, MonitorInit, ImporterInit
  <1>2. \A t \in Ticks, id \in Ids : CopyFits(t, id)
    BY <1>1 DEF CopyFits, At, NoTask, Idle
  <1>3. ResolverCopies /\ RetryCopies /\ ChainCopies
    BY <1>1 DEF ResolverCopies, RetryCopies, ChainCopies, NothingResolving, NoRes, NoRet,
               NothingImporting, NoImp, Chain
  <1>4. \A id \in Ids : PendingHandled(id) /\ ImportHandled(id)
    BY <1>1 DEF PendingHandled, ImportHandled, NoRow
  <1> QED
    BY <1>2, <1>3, <1>4, HandoverParts

LEMMA HandoverStep ==
  ASSUME TypeInv, HandoverInv, [Next]_vars
  PROVE  HandoverInv'
  <1>1. CASE ServiceStep
    BY <1>1, ServiceStepHandover
  <1>2. CASE MonitorStep
    BY <1>2, TickStepHandover, TaskStepHandover, ResolverStepHandover, BootStepHandover,
       OutsideStepHandover
    DEF MonitorStep, MonitorNext
  <1>3. CASE ImporterStep
    BY <1>3, ImporterStepHandover
  <1>4. CASE ProviderStep
    BY <1>4, OutsideStepHandover
  <1>5. CASE Crash
    BY <1>5, CrashHandover
  <1>6. CASE UNCHANGED vars
    BY <1>6, OffTickHandover, OtherCopiesKept DEF vars, storeVars, serviceVars, monitorVars
  <1> QED
    BY <1>1, <1>2, <1>3, <1>4, <1>5, <1>6 DEF Next

\* The inductive invariant.  No stale copy of a row can bring importPending or
\* importing back, and a record in one of the two has somebody at work on it.
THEOREM HandoverHolds == Spec => []HandoverInv
  <1>1. Init => HandoverInv
    BY HandoverInit
  <1>2. TypeInv /\ HandoverInv /\ [Next]_vars => HandoverInv'
    BY HandoverStep
  <1> QED
    BY <1>1, <1>2, TypeCorrect, PTL DEF Spec

\* Whatever is cancelled, retried or restarted, and even when ticks overlap, a
\* file that handleProviderState found complete is announced, is about to be,
\* or is about to be taken by onDownloadCompleted.
THEOREM PendingIsHandled == Spec => []ImportPendingHandled
  <1>1. HandoverInv => ImportPendingHandled
    BY DEF HandoverInv
  <1> QED
    BY <1>1, HandoverHolds, PTL

\* Likewise no record is left behind in importing: an import chain runs for it,
\* or recoverOrphans is going to fail it.
THEOREM ImportingIsHandled == Spec => []ImportingHandled
  <1>1. HandoverInv => ImportingHandled
    BY DEF HandoverInv
  <1> QED
    BY <1>1, HandoverHolds, PTL
=============================================================================
