--------------------------- MODULE ServicesProofs ---------------------------
(***************************************************************************)
(* Proofs about the services around the download pipeline, one component   *)
(* after the other.  A component's invariant is shown to hold of its own   *)
(* steps; the composition of the services takes a step of one component at *)
(* a time, so that it holds there as well.                                 *)
(***************************************************************************)
EXTENDS MCServices, FiniteSetTheorems, WellFoundedInduction, TLAPS

----------------------------------------------------------------------------
(* A step of the composition is a step of one component *)

LEMMA ScenesAreSteps ==
  ASSUME [ServicesNext]_<<scene, services>>
  PROVE  /\ [HubNext]_hubVars /\ [JobNext]_jobVars /\ [TrackNext]_trackVars
         /\ [AccountNext]_accountVars /\ [ListNext]_listVars /\ [SearchNext]_searchVars
         /\ [SettingsNext]_settingsVars /\ [ZipNext]_zipVars
  BY DEF ServicesNext, services, HubScene, JobsScene, TrackingScene, AccountsScene,
         PlaylistScene, SearchScene, SettingsScene, ZipScene

----------------------------------------------------------------------------
(* The event hub *)

\* A registered client's channel is open and nobody owes its closing; one that
\* was taken out is closed once, now or later; one that never came is untouched.
HubInv ==
  /\ clients \subseteq Clients /\ owedClose \subseteq Clients
  /\ loop \in [Clients -> {"off", "on", "left"}]
  /\ closes \in [Clients -> Nat]
  /\ clients \cap owedClose = {}
  /\ \A c \in Clients : loop[c] = "off" => c \notin clients \cup owedClose /\ closes[c] = 0
  /\ \A c \in clients \cup owedClose : closes[c] = 0
  /\ \A c \in Clients : closes[c] <= 1

LEMMA HubInvInit == HubInit => HubInv
  BY DEF HubInit, HubInv

LEMMA HubInvStep == HubInv /\ [HubNext]_hubVars => HubInv'
<1> SUFFICES ASSUME HubInv, [HubNext]_hubVars PROVE HubInv'
  OBVIOUS
<1>1. ASSUME NEW c \in Clients, Register(c) PROVE HubInv'
  BY <1>1 DEF Register, HubInv
<1>2. ASSUME NEW c \in Clients, Unregister(c) PROVE HubInv'
  BY <1>2 DEF Unregister, TakeOut, HubInv
<1>3. ASSUME NEW c \in Clients, CloseTaken(c) PROVE HubInv'
  BY <1>3 DEF CloseTaken, HubInv
<1>4. ASSUME NEW c \in Clients, ServeEvent(c) PROVE HubInv'
  BY <1>4 DEF ServeEvent, HubInv
<1>5. ASSUME NEW c \in Clients, UnregisterByUserID(UserOf[c]) PROVE HubInv'
  BY <1>5 DEF UnregisterByUserID, TakeOut, HubInv
<1>6. ASSUME NEW t \in EventTypes, Broadcast(t) PROVE HubInv'
  BY <1>6 DEF Broadcast, HubInv
<1>7. CASE HubShutdown
  BY <1>7 DEF HubShutdown, HubInv
<1>8. CASE UNCHANGED hubVars
  BY <1>8 DEF hubVars, HubInv
<1> QED BY <1>1, <1>2, <1>3, <1>4, <1>5, <1>6, <1>7, <1>8 DEF HubNext

LEMMA HubInvHolds == ServicesSpec => []HubInv
<1>1. ServicesInit => HubInv
  BY HubInvInit DEF ServicesInit
<1>2. HubInv /\ [ServicesNext]_<<scene, services>> => HubInv'
  BY HubInvStep, ScenesAreSteps
<1> QED BY <1>1, <1>2, PTL DEF ServicesSpec

LEMMA HubCloses == ServicesSpec => []ChannelClosedOnce
<1>1. HubInv => ChannelClosedOnce
  BY DEF HubInv, ChannelClosedOnce
<1> QED BY <1>1, HubInvHolds, PTL

----------------------------------------------------------------------------
(* The job manager *)

FinalStates == {"completed", "cancelled", "failed"}
WorkOf == [left : 0 .. MaxItems, failed : BOOLEAN, err : {"nil", "canceled", "failed"}, gap : BOOLEAN]
Phases == {"idle", "announce", "save", "begin", "repair", "work", "return", "finish"}

\* What job.json may hold.
Saved == [kind : {TypeOf(k) : k \in JobKinds} \cup {"none"},
          state : {"none", "running", "interrupted"} \cup FinalStates]

\* Cancel reaches the running job, and a job that is about to finish has saved
\* how it ended.
JobSaved ==
  /\ job.state = "running" => cancelOf = job.num
  /\ phase = "finish" =>
       job.kind # "merge" /\ savedJob = [kind |-> TypeOf(job.kind), state |-> StateFor(work.err)]
  /\ OutcomeSaved

\* A row that is not where its file is stands in the middle of a move, or is one
\* an interrupted organize left, of which job.json told this process; a scan
\* that adds rows has none left.
JobFiles ==
  /\ work.gap => phase = "work" /\ Moves(job.kind) /\ rows = {"old"} /\ disk = "new"
  /\ ~lost => \/ rows = {disk}
              \/ /\ rows = {"old"} /\ disk = "new"
                 /\ work.gap \/ OrganizeDivergencePossible
  /\ ~lost /\ phase = "work" /\ job.kind = "scan" => rows = {disk}

\* A runner's state is sound: with a file moved, its item is still to be done.
WorkSound(w) == w \in WorkOf /\ (w.gap => w.left > 0)

JobTyped ==
  /\ job \in [num : 0 .. MaxJobs, kind : JobKinds \cup {"none"}, state : {"none", "running"} \cup FinalStates]
  /\ cancelOf \in 0 .. MaxJobs
  /\ phase \in Phases /\ WorkSound(work)
  /\ disk \in {"old", "new"} /\ rows \in (SUBSET {"old", "new"}) \ {{}}
  /\ savedJob \in Saved /\ bootJob \in Saved

JobInv == JobTyped /\ JobSaved /\ JobFiles

LEMMA Outcomes == \A w : WorkSound(w) => StateFor(w.err) \in FinalStates
  BY DEF WorkOf, StateFor, FinalStates, WorkSound

\* What a step makes of the runner's state is sound again.
LEMMA NewWork ==
  /\ WorkSound(NoWork) /\ ~NoWork.gap
  /\ \A n \in 0 .. MaxItems : WorkSound([NoWork EXCEPT !.left = n]) /\ ~[NoWork EXCEPT !.left = n].gap
  /\ WorkSound([NoWork EXCEPT !.err = "failed"]) /\ ~[NoWork EXCEPT !.err = "failed"].gap
<1>1. NoWork \in WorkOf /\ ~NoWork.gap
  BY JobAssumption DEF NoWork, WorkOf
<1> QED BY <1>1 DEF WorkOf, WorkSound

LEMMA WorkEdits ==
  ASSUME NEW w, WorkSound(w)
  PROVE  /\ \A e \in {"nil", "canceled", "failed"} :
              WorkSound([w EXCEPT !.err = e]) /\ [w EXCEPT !.err = e].gap = w.gap
         /\ ~w.gap => WorkSound([w EXCEPT !.left = 0]) /\ [w EXCEPT !.left = 0].gap = w.gap
         /\ w.left > 0 => WorkSound([w EXCEPT !.gap = TRUE])
<1> USE JobAssumption DEF WorkOf, WorkSound
<1>1. \A e \in {"nil", "canceled", "failed"} :
        WorkSound([w EXCEPT !.err = e]) /\ [w EXCEPT !.err = e].gap = w.gap
  OBVIOUS
<1>2. ~w.gap => WorkSound([w EXCEPT !.left = 0]) /\ [w EXCEPT !.left = 0].gap = w.gap
  OBVIOUS
<1>3. w.left > 0 => WorkSound([w EXCEPT !.gap = TRUE])
  OBVIOUS
<1> QED BY <1>1, <1>2, <1>3

\* An item that is done, with or without a failure, or whose move is over.
LEMMA WorkDone ==
  ASSUME NEW w, WorkSound(w), w.left > 0
  PROVE  /\ ~w.gap => /\ WorkSound([w EXCEPT !.left = @ - 1]) /\ ~[w EXCEPT !.left = @ - 1].gap
                      /\ WorkSound([w EXCEPT !.left = @ - 1, !.failed = TRUE])
                      /\ ~[w EXCEPT !.left = @ - 1, !.failed = TRUE].gap
         /\ WorkSound([w EXCEPT !.left = @ - 1, !.gap = FALSE])
         /\ [w EXCEPT !.left = @ - 1, !.gap = FALSE].gap = FALSE
<1>1. w.left - 1 \in 0 .. MaxItems
  BY JobAssumption DEF WorkOf, WorkSound
<1>2. \A n \in 0 .. MaxItems :
        /\ ~w.gap => /\ WorkSound([w EXCEPT !.left = n]) /\ ~[w EXCEPT !.left = n].gap
                     /\ WorkSound([w EXCEPT !.left = n, !.failed = TRUE])
                     /\ ~[w EXCEPT !.left = n, !.failed = TRUE].gap
        /\ WorkSound([w EXCEPT !.left = n, !.gap = FALSE])
        /\ [w EXCEPT !.left = n, !.gap = FALSE].gap = FALSE
  BY DEF WorkOf, WorkSound
<1> QED BY <1>1, <1>2

LEMMA JobTypedStep ==
  ASSUME JobTyped, JobNext
  PROVE  JobTyped'
<1> USE JobAssumption
<1>w. WorkSound(work) /\ phase \in Phases
  BY DEF JobTyped
<1>r. work.left \in Nat
  BY <1>w DEF WorkSound, WorkOf
<1>1. ASSUME NEW k \in JobKinds, Start(k) PROVE JobTyped'
  <2>1. job'.num \in 0 .. MaxJobs /\ cancelOf' = job'.num
    BY <1>1 DEF Start, JobTyped
  <2>2. job' \in [num : 0 .. MaxJobs, kind : JobKinds \cup {"none"}, state : {"none", "running"} \cup FinalStates]
    BY <1>1, <2>1 DEF Start
  <2> QED BY <1>1, <2>1, <2>2, NewWork DEF Start, JobTyped, Phases, Files, Restless
<1>2. CASE Launch
  BY <1>2 DEF Launch, JobTyped, Phases, Files, Restless
<1>3. CASE SaveRunning
  <2>1. savedJob' \in Saved
    <3>1. CASE job.kind \in JobKinds
      BY <1>3, <3>1 DEF SaveRunning, Saved
    <3>2. CASE job.kind = "none"
      BY <1>3, <3>2 DEF SaveRunning, Saved, TypeOf
    <3> QED BY <3>1, <3>2 DEF JobTyped
  <2> QED BY <1>3, <2>1 DEF SaveRunning, JobTyped, Phases, Files, Restless
<1>4. CASE Begin
  <2>1. WorkSound(work') /\ phase' \in Phases
    <3>1. \A n \in IF RunnerOf(job.kind).many THEN 0 .. MaxItems ELSE {1} : n \in 0 .. MaxItems
      OBVIOUS
    <3> QED BY <1>4, <3>1, NewWork DEF Begin, Phases
  <2> QED BY <1>4, <2>1 DEF Begin, JobTyped, Files, Restless
<1>5. CASE Repair
  <2>1. WorkSound([work EXCEPT !.err = "canceled"])
    BY <1>w, WorkEdits
  <2>2. WorkSound(work') /\ phase' \in Phases
    BY <1>5, <2>1, <1>w DEF Repair, Phases
  <2>3. rows' \in (SUBSET {"old", "new"}) \ {{}}
    BY <1>5 DEF Repair, JobTyped
  <2> QED BY <1>5, <2>2, <2>3 DEF Repair, JobTyped, Restless
<1>6. CASE StopAtItem
  <2>1. WorkSound([work EXCEPT !.err = "canceled"])
    BY <1>w, WorkEdits
  <2> QED BY <1>6, <2>1 DEF StopAtItem, JobTyped, Files, Restless, Phases
<1>7. CASE Item
  <2>1. WorkSound([work EXCEPT !.err = "canceled"])
    BY <1>w, WorkEdits
  <2>2. work.left > 0 /\ ~work.gap
    BY <1>7 DEF Item, Ready
  <2>3. /\ WorkSound([work EXCEPT !.left = @ - 1])
        /\ WorkSound([work EXCEPT !.left = @ - 1, !.failed = TRUE])
    BY <1>w, <2>2, WorkDone
  <2> QED BY <1>7, <1>w, <2>1, <2>3 DEF Item, JobTyped, Files, Restless, Phases
<1>8. CASE ScanItem
  <2>1. WorkSound([work EXCEPT !.left = 0])
    BY <1>w, <1>8, WorkEdits DEF ScanItem, Ready
  <2> QED BY <1>8, <2>1 DEF ScanItem, JobTyped, Restless
<1>9. CASE MoveFile
  <2>1. work.left > 0 /\ ~work.gap
    BY <1>9 DEF MoveFile, Ready
  <2>2. WorkSound([work EXCEPT !.gap = TRUE]) /\ WorkSound([work EXCEPT !.left = @ - 1])
    BY <1>w, <2>1, WorkDone, WorkEdits
  <2> QED BY <1>9, <2>2 DEF MoveFile, JobTyped, Restless
<1>10. CASE UpsertMoved
  <2>1. work.left > 0
    BY <1>10, <1>w DEF UpsertMoved, WorkSound
  <2>2. WorkSound([work EXCEPT !.left = @ - 1, !.gap = FALSE])
    BY <1>w, <2>1, WorkDone
  <2> QED BY <1>10, <2>2 DEF UpsertMoved, JobTyped, Restless
<1>11. CASE Done
  <2>1. \A e \in {"nil", "canceled", "failed"} : WorkSound([work EXCEPT !.err = e])
    BY <1>w, WorkEdits
  <2>2. WorkSound(work')
    BY <1>11, <2>1 DEF Done
  <2> QED BY <1>11, <2>2 DEF Done, JobTyped, Files, Restless, Phases
<1>12. CASE saveJobState
  <2>1. StateFor(work.err) \in FinalStates /\ phase' \in Phases
    BY <1>12, <1>w, Outcomes DEF saveJobState, Phases
  <2>2. savedJob' \in Saved
    <3>1. CASE job.kind \in JobKinds
      BY <1>12, <2>1, <3>1 DEF saveJobState, Saved
    <3>2. CASE job.kind = "none"
      BY <1>12, <2>1, <3>2 DEF saveJobState, Saved, TypeOf
    <3> QED BY <3>1, <3>2 DEF JobTyped
  <2> QED BY <1>12, <2>1, <2>2 DEF saveJobState, JobTyped, Files, Restless
<1>13. CASE finish
  <2>1. StateFor(work.err) \in FinalStates /\ phase' \in Phases
    BY <1>13, <1>w, Outcomes DEF finish, Phases
  <2> QED BY <1>13, <2>1 DEF finish, JobTyped, Files, Restless
<1>14. CASE Cancel \/ Shutdown \/ \E n \in endings : broadcastEnd(n)
  BY <1>14 DEF Cancel, Shutdown, broadcastEnd, JobTyped, Files, Restless
<1>15. CASE restoreInterruptedJob
  <2>1. [savedJob EXCEPT !.state = "interrupted"] \in Saved
    BY DEF JobTyped, Saved
  <2>2. savedJob' \in Saved /\ bootJob' \in Saved
    BY <1>15, <2>1 DEF restoreInterruptedJob, JobTyped
  <2>3. job' \in [num : 0 .. MaxJobs, kind : JobKinds \cup {"none"}, state : {"none", "running"} \cup FinalStates]
    BY <1>15 DEF restoreInterruptedJob, JobTyped, NoJob
  <2> QED BY <1>15, <2>2, <2>3, NewWork DEF restoreInterruptedJob, JobTyped, Phases
<1> QED BY <1>1, <1>2, <1>3, <1>4, <1>5, <1>6, <1>7, <1>8, <1>9, <1>10, <1>11, <1>12, <1>13,
           <1>14, <1>15 DEF JobNext

LEMMA JobSavedStep ==
  ASSUME JobTyped, JobSaved, JobNext
  PROVE  JobSaved'
<1> USE DEF JobSaved, OutcomeSaved
<1>w. WorkSound(work)
  BY DEF JobTyped
<1>1. ASSUME NEW k \in JobKinds, Start(k) PROVE JobSaved'
  BY <1>1 DEF Start
<1>2. CASE Launch \/ SaveRunning \/ Begin
  BY <1>2 DEF Launch, SaveRunning, Begin
<1>3. CASE Repair
  BY <1>3 DEF Repair
<1>4. CASE StopAtItem \/ Item \/ ScanItem \/ MoveFile \/ UpsertMoved \/ Done
  BY <1>4 DEF StopAtItem, Item, Ready, ScanItem, MoveFile, UpsertMoved, Done
<1>5. CASE saveJobState
  BY <1>5 DEF saveJobState, runPersistedJob
<1>6. CASE finish
  <2>1. StateFor(work.err) \in FinalStates
    BY <1>w, Outcomes
  <2>2. /\ job'.kind = job.kind /\ job'.num = job.num /\ job'.state = StateFor(work.err)
        /\ job'.state # "running"
    BY <1>6, <2>1 DEF finish, JobTyped, FinalStates
  <2>3. CASE phase = "finish"
    BY <1>6, <2>2, <2>3 DEF finish
  <2>4. CASE phase = "return" /\ job.kind = "merge"
    BY <1>6, <2>2, <2>4 DEF finish
  <2> QED BY <1>6, <2>3, <2>4 DEF finish, runPersistedJob
<1>7. CASE Cancel \/ Shutdown
  BY <1>7 DEF Cancel, Shutdown
<1>8. ASSUME NEW n \in endings, broadcastEnd(n) PROVE JobSaved'
  BY <1>8 DEF broadcastEnd
<1>9. CASE restoreInterruptedJob
  BY <1>9 DEF restoreInterruptedJob, NoJob
<1> QED BY <1>1, <1>2, <1>3, <1>4, <1>5, <1>6, <1>7, <1>8, <1>9 DEF JobNext

LEMMA JobFilesStep ==
  ASSUME JobTyped, JobFiles, JobNext
  PROVE  JobFiles'
<1> USE DEF JobFiles, OrganizeDivergencePossible, Files, Restless
<1>w. WorkSound(work) /\ work.left \in Nat
  BY DEF JobTyped, WorkSound, WorkOf
<1>f. disk \in {"old", "new"} /\ rows \in (SUBSET {"old", "new"}) \ {{}}
  BY DEF JobTyped
<1>1. ASSUME NEW k \in JobKinds, Start(k) PROVE JobFiles'
  BY <1>1, NewWork DEF Start
<1>2. CASE Launch \/ SaveRunning
  BY <1>2 DEF Launch, SaveRunning
<1>3. CASE Begin
  <2>1. ~work'.gap
    <3>1. \A n \in IF RunnerOf(job.kind).many THEN 0 .. MaxItems ELSE {1} : n \in 0 .. MaxItems
      BY JobAssumption
    <3> QED BY <1>3, <3>1, NewWork DEF Begin
  <2>2. ~work.gap
    BY <1>3 DEF Begin
  <2>3. phase' = "work" => ~MustRepair(job.kind)
    BY <1>3 DEF Begin
  <2> QED BY <1>3, <2>1, <2>2, <2>3 DEF Begin, MustRepair
<1>4. CASE Repair
  <2>1. ~work.gap /\ ~work'.gap
    BY <1>4, <1>w, WorkEdits DEF Repair
  <2>2. ~lost => rows = {disk} \/ (rows = {"old"} /\ disk = "new")
    BY <2>1
  <2> QED BY <1>4, <2>1, <2>2, <1>f DEF Repair
<1>5. CASE StopAtItem \/ Done
  <2>1. ~work.gap /\ ~work'.gap
    <3>1. CASE StopAtItem
      BY <1>w, <3>1, WorkEdits DEF StopAtItem
    <3>2. CASE Done
      <4>1. ~work.gap
        BY <1>w, <3>2 DEF Done, WorkSound
      <4>2. \A e \in {"nil", "canceled", "failed"} : ~[work EXCEPT !.err = e].gap
        BY <1>w, <4>1, WorkEdits
      <4> QED BY <3>2, <4>1, <4>2 DEF Done
    <3> QED BY <1>5, <3>1, <3>2
  <2> QED BY <1>5, <2>1 DEF StopAtItem, Done
<1>6. CASE Item
  <2>1. ~work.gap /\ work.left > 0
    BY <1>6 DEF Item, Ready
  <2>2. ~[work EXCEPT !.err = "canceled"].gap
    BY <1>w, <2>1, WorkEdits
  <2>3. ~[work EXCEPT !.left = @ - 1].gap /\ ~[work EXCEPT !.left = @ - 1, !.failed = TRUE].gap
    BY <1>w, <2>1, WorkDone
  <2>4. ~work'.gap
    BY <1>6, <2>2, <2>3 DEF Item
  <2> QED BY <1>6, <2>1, <2>4 DEF Item, Ready
<1>7. CASE ScanItem
  <2>1. ~work.gap /\ ~work'.gap
    BY <1>7, <1>w, WorkEdits DEF ScanItem, Ready
  <2> QED BY <1>7, <2>1 DEF ScanItem, Ready
<1>8. CASE MoveFile
  <2>1. ~work.gap /\ work.left > 0 /\ phase = "work" /\ Moves(job.kind) /\ job.kind # "scan"
    BY <1>8 DEF MoveFile, Ready, Moves
  <2>2. ~[work EXCEPT !.left = @ - 1].gap
    BY <1>w, <2>1, WorkDone
  <2>3. \/ rows = {"old"} /\ disk' = "new"
        \/ ~work'.gap /\ disk' = disk
    BY <1>8, <2>2 DEF MoveFile
  <2>4. /\ job' = job /\ phase' = phase /\ rows' = rows /\ lost' = lost /\ repaired' = repaired
        /\ bootJob' = bootJob
    BY <1>8 DEF MoveFile
  <2>5. CASE rows = {"old"} /\ disk' = "new" /\ work'.gap
    BY <2>1, <2>4, <2>5
  <2>6. CASE ~work'.gap /\ disk' = disk
    BY <2>1, <2>4, <2>6
  <2> QED BY <1>8, <2>2, <2>5, <2>6, <1>w DEF MoveFile, WorkSound, WorkOf
<1>9. CASE UpsertMoved
  <2>1. work.gap /\ phase = "work" /\ Moves(job.kind) /\ job.kind # "scan" /\ rows = {"old"} /\ disk = "new"
    BY <1>9 DEF UpsertMoved, Moves
  <2>2. ~work'.gap
    BY <1>9, <1>w, <2>1, WorkDone DEF UpsertMoved, WorkSound
  <2> QED BY <1>9, <2>1, <2>2 DEF UpsertMoved
<1>10. CASE saveJobState \/ finish
  <2>1. job.kind = job'.kind
    BY <1>10 DEF saveJobState, finish, JobTyped
  <2> QED BY <1>10, <2>1 DEF saveJobState, finish
<1>11. CASE Cancel \/ Shutdown
  BY <1>11 DEF Cancel, Shutdown
<1>12. ASSUME NEW n \in endings, broadcastEnd(n) PROVE JobFiles'
  BY <1>12 DEF broadcastEnd
<1>13. CASE restoreInterruptedJob
  <2>1. /\ ~work'.gap /\ phase' = "idle" /\ disk' = disk /\ rows' = rows /\ repaired' = FALSE
    BY <1>13, NewWork DEF restoreInterruptedJob
  <2>2. ~lost' => ~lost /\ (rows = {disk} \/ bootJob' = [kind |-> "organize", state |-> "interrupted"])
    BY <1>13 DEF restoreInterruptedJob
  <2> QED BY <2>1, <2>2
<1> QED BY <1>1, <1>2, <1>3, <1>4, <1>5, <1>6, <1>7, <1>8, <1>9, <1>10, <1>11, <1>12, <1>13 DEF JobNext

LEMMA JobInvHolds == ServicesSpec => []JobInv
<1>1. ServicesInit => JobInv
  <2> SUFFICES ASSUME JobInit PROVE JobInv
    BY DEF ServicesInit
  <2>1. JobTyped
    BY NewWork, JobAssumption DEF JobInit, JobTyped, NoJob, NoSave, Phases, Saved
  <2>2. JobSaved
    BY DEF JobInit, JobSaved, OutcomeSaved, NoJob
  <2>3. JobFiles
    BY NewWork DEF JobInit, JobFiles
  <2> QED BY <2>1, <2>2, <2>3 DEF JobInv
<1>2. JobInv /\ [ServicesNext]_<<scene, services>> => JobInv'
  <2> SUFFICES ASSUME JobInv, [JobNext]_jobVars PROVE JobInv'
    BY ScenesAreSteps
  <2>1. CASE JobNext
    BY <2>1, JobTypedStep, JobSavedStep, JobFilesStep DEF JobInv
  <2>2. CASE UNCHANGED jobVars
    BY <2>2 DEF jobVars, JobInv, JobTyped, JobSaved, OutcomeSaved, JobFiles, OrganizeDivergencePossible
  <2> QED BY <2>1, <2>2
<1> QED BY <1>1, <1>2, PTL DEF ServicesSpec

\* Cancel and Shutdown reach the running job and no other, and a job that has
\* ended is in job.json as the manager has it (api/jobmanager.go, jobstate.go).
THEOREM JobsAlwaysKept == ServicesSpec => []JobsKept
<1>1. JobInv => JobsKept
  BY DEF JobInv, JobSaved, JobsKept, CancelReaches
<1> QED BY <1>1, JobInvHolds, PTL

\* A track whose organize run was cut off between the move of the file and the
\* row never has a second row, unless job.json no longer told of the run or the
\* repair failed (handlers_jobs.go, library/organize.go).
THEOREM DivergenceAlwaysRepaired == ServicesSpec => []DivergenceRepaired
<1>1. JobInv => DivergenceRepaired
  <2> SUFFICES ASSUME JobInv, ~lost PROVE ~(Cardinality(rows) > 1)
    BY DEF DivergenceRepaired
  <2>1. \E f : rows = {f}
    BY DEF JobInv, JobFiles
  <2> QED BY <2>1, FS_Singleton
<1> QED BY <1>1, JobInvHolds, PTL

----------------------------------------------------------------------------
(* The playlist *)

Flags == [there : BOOLEAN, mode : {"mirror", "append"}, auto : BOOLEAN]
Rows == [song : Songs, linked : BOOLEAN] \cup {NoRow}
Records == {"none", "queued", "completed", "pending", "spent", "exhausted", "ignored"}

\* What a goroutine holds; a sync that is about to replace the rows has others.
RunOk(r) ==
  /\ DOMAIN r = DOMAIN Off
  /\ r.copy \in Flags /\ r.answer \in Seq(Songs) /\ r.rows \in [Positions -> Rows]
  /\ r.next \in Nat \ {0}
  /\ r.kind = "sync" /\ r.at = "clear" => r.answer # <<>>

Inside(r) == r.kind = "sync" /\ r.at # "enter"

RunInv ==
  /\ DOMAIN run = Runners /\ (\A w \in Runners : RunOk(run[w])) /\ syncing \in BOOLEAN
  /\ \A v, w \in Runners : Inside(run[v]) /\ Inside(run[w]) => v = w
  /\ syncing <=> \E w \in Runners : Inside(run[w])

\* A goroutine goes on, enters the guarded sync while nobody is in it, or
\* leaves it.
Onward(w, r) == run' = [run EXCEPT ![w] = r] /\ RunOk(r)
Passes(w, r) ==
  \/ (Inside(r) <=> Inside(run[w])) /\ syncing' = syncing
  \/ ~syncing /\ Inside(r) /\ syncing' = TRUE
  \/ Inside(run[w]) /\ ~Inside(r) /\ syncing' = FALSE

LEMMA OneSync ==
  ASSUME RunInv, NEW w \in Runners, NEW r, Onward(w, r), Passes(w, r)
  PROVE  RunInv'
<1>1. /\ DOMAIN run' = Runners /\ run'[w] = r
      /\ \A v \in Runners \ {w} : run'[v] = run[v]
  BY DEF RunInv, Onward
<1>2. (\A v \in Runners : RunOk(run[v]))'
  <2> SUFFICES ASSUME NEW v \in Runners PROVE RunOk(run[v])'
    OBVIOUS
  <2>1. PICK q : q = run'[v] /\ RunOk(q)
    BY <1>1 DEF RunInv, Onward
  <2> QED BY <2>1 DEF RunOk
<1>3. (\A u, v \in Runners : Inside(run[u]) /\ Inside(run[v]) => u = v)'
  <2> SUFFICES ASSUME NEW u \in Runners, NEW v \in Runners, Inside(run'[u]), Inside(run'[v]), u # v PROVE FALSE
    BY DEF Inside
  <2>1. PICK t \in Runners : t # w /\ Inside(run'[t]) /\ Inside(run'[w])
    BY <1>1 DEF RunInv
  <2>2. Inside(run[t]) /\ syncing /\ Inside(r)
    BY <1>1, <2>1 DEF RunInv
  <2>3. Inside(run[w])
    BY <2>2 DEF Passes
  <2> QED BY <2>1, <2>2, <2>3 DEF RunInv
<1>4. syncing' \in BOOLEAN /\ (syncing' <=> \E v \in Runners : Inside(run'[v]))
  <2>1. CASE (Inside(r) <=> Inside(run[w])) /\ syncing' = syncing
    BY <1>1, <2>1 DEF RunInv
  <2>2. CASE ~syncing /\ Inside(r) /\ syncing' = TRUE
    BY <1>1, <2>2
  <2>3. CASE Inside(run[w]) /\ ~Inside(r) /\ syncing' = FALSE
    BY <1>1, <2>3 DEF RunInv
  <2> QED BY <2>1, <2>2, <2>3 DEF Passes
<1>5. (syncing \in BOOLEAN /\ (syncing <=> \E v \in Runners : Inside(run[v])))'
  BY <1>4 DEF Inside
<1> QED BY <1>1, <1>2, <1>3, <1>5 DEF RunInv

\* What replacing some fields gives.
LEMMA WithFields ==
  ASSUME NEW r, RunOk(r), NEW f, DOMAIN f \subseteq DOMAIN Off
  PROVE  /\ DOMAIN With(r, f) = DOMAIN Off
         /\ \A x \in DOMAIN f : With(r, f)[x] = f[x]
         /\ \A x \in DOMAIN Off \ DOMAIN f : With(r, f)[x] = r[x]
  BY DEF With, RunOk

LEMMA OffOk == /\ RunOk(Off) /\ ~Inside(Off)
               /\ \A k : /\ DOMAIN [Off EXCEPT !.kind = k] = DOMAIN Off
                         /\ [Off EXCEPT !.kind = k].kind = k
                         /\ RunOk([Off EXCEPT !.kind = k])
<1>1. Off.copy \in Flags /\ Off.rows \in [Positions -> Rows]
  BY DEF Off, NoPlaylist, Flags, NoRows, NoRow, Rows
<1> QED BY <1>1 DEF Off, RunOk, Inside

\* The goroutine that read `listing` and `playlist` read them whole.
ListTyped ==
  /\ playlist \in Flags /\ listing \in [Positions -> Rows]
  /\ record \in [Songs -> Records] /\ held \subseteq Songs
  /\ folder \subseteq Positions \X Songs /\ worker \subseteq Songs

LEMMA RunSteps ==
  ASSUME RunInv, ListTyped, ListNext
  PROVE  RunInv'
<1> USE ListAssumption
<1>w. \A w \in Runners : RunOk(run[w])
  BY DEF RunInv
<1>u. ASSUME UNCHANGED <<run, syncing>> PROVE RunInv'
  BY <1>u DEF RunInv
<1>o. ASSUME NEW w \in Runners, run' = [run EXCEPT ![w] = Off],
             IF Inside(run[w]) THEN syncing' = FALSE ELSE syncing' = syncing
      PROVE  RunInv'
  <2>1. Onward(w, Off) /\ Passes(w, Off)
    BY <1>o, OffOk DEF Onward, Passes
  <2> QED BY <2>1, OneSync
<1>1. ASSUME NEW w \in Runners, handleImportPlaylist(w) PROVE RunInv'
  <2>1. PICK r : r = With(run[w], [kind |-> "import", at |-> "fetch"])
    OBVIOUS
  <2>2. /\ DOMAIN r = DOMAIN Off /\ r.kind = "import" /\ r.at = "fetch"
       /\ \A x \in {"copy", "answer", "rows", "next"} : r[x] = run[w][x]
    BY <1>w, <2>1, WithFields DEF Off
  <2>3. RunOk(r)
    BY <1>w, <2>2, <1>1 DEF RunOk, handleImportPlaylist, At, Off
  <2>4. Onward(w, r) /\ Passes(w, r)
    BY <2>1, <2>2, <2>3, <1>1 DEF handleImportPlaylist, At, Goes, Onward, Passes, Inside
  <2> QED BY <2>4, OneSync
<1>2. ASSUME NEW w \in Runners, ImportFetched(w) PROVE RunInv'
  <2>1. CASE run' = [run EXCEPT ![w] = Off]
    BY <1>2, <1>o, <2>1 DEF ImportFetched, At, Inside
  <2>2. ASSUME NEW answer \in Answers, Goes(w, [at |-> "clear", answer |-> answer]) PROVE RunInv'
    <3>1. PICK r : r = With(run[w], [at |-> "clear", answer |-> answer])
      OBVIOUS
    <3>2. /\ DOMAIN r = DOMAIN Off /\ r.at = "clear" /\ r.answer = answer
         /\ \A x \in {"kind", "copy", "rows", "next"} : r[x] = run[w][x]
      BY <1>w, <3>1, WithFields DEF Off
    <3>3. RunOk(r)
      BY <1>w, <3>2, <1>2, <2>2 DEF RunOk, ImportFetched, At
    <3>4. Onward(w, r) /\ Passes(w, r)
      BY <3>1, <3>2, <3>3, <1>2, <2>2 DEF ImportFetched, At, Goes, Onward, Passes, Inside
    <3> QED BY <3>4, OneSync
  <2> QED BY <1>2, <2>1, <2>2 DEF ImportFetched
<1>3. ASSUME NEW w \in Runners, DeletePlaylistTracks(w) PROVE RunInv'
  <2>1. PICK r : r = With(run[w], [at |-> "write", next |-> 1, unmatched |-> FALSE])
    OBVIOUS
  <2>2. /\ DOMAIN r = DOMAIN Off /\ r.at = "write" /\ r.next = 1
       /\ \A x \in {"kind", "copy", "answer", "rows"} : r[x] = run[w][x]
    BY <1>w, <2>1, WithFields DEF Off
  <2>3. RunOk(r)
    BY <1>w, <2>2, <1>3 DEF RunOk, DeletePlaylistTracks, At
  <2>4. Onward(w, r) /\ Passes(w, r)
    BY <2>1, <2>2, <2>3, <1>3 DEF DeletePlaylistTracks, At, Goes, Onward, Passes, Inside
  <2> QED BY <2>4, OneSync
<1>4. ASSUME NEW w \in Runners, WriteTrack(w) PROVE RunInv'
  <2>u. PICK u : run' = [run EXCEPT ![w] = With(run[w], [next |-> run[w].next + 1, unmatched |-> u])]
    BY <1>4 DEF WriteTrack, Goes
  <2>1. PICK r : r = With(run[w], [next |-> run[w].next + 1, unmatched |-> u])
    OBVIOUS
  <2>2. /\ DOMAIN r = DOMAIN Off /\ r.next = run[w].next + 1
       /\ \A x \in {"kind", "at", "copy", "answer", "rows"} : r[x] = run[w][x]
    BY <1>w, <2>1, WithFields DEF Off
  <2>3. RunOk(r)
    BY <1>w, <2>2, <1>4, <2>u DEF RunOk, WriteTrack, At
  <2>4. Onward(w, r) /\ Passes(w, r)
    BY <2>1, <2>2, <2>3, <1>4, <2>u DEF WriteTrack, At, Goes, Onward, Passes, Inside
  <2> QED BY <2>4, OneSync
<1>5. ASSUME NEW w \in Runners, Imported(w) PROVE RunInv'
  BY <1>5, <1>o DEF Imported, At, Inside
<1>6. ASSUME NEW w \in Runners, handleSyncPlaylist(w) PROVE RunInv'
  <2>1. PICK r : r = With(run[w], [kind |-> "sync", at |-> "enter"])
    OBVIOUS
  <2>2. /\ DOMAIN r = DOMAIN Off /\ r.kind = "sync" /\ r.at = "enter"
       /\ \A x \in {"copy", "answer", "rows", "next"} : r[x] = run[w][x]
    BY <1>w, <2>1, WithFields DEF Off
  <2>3. RunOk(r)
    BY <1>w, <2>2, <1>6 DEF RunOk, handleSyncPlaylist, At, AskSync
  <2>4. Onward(w, r) /\ Passes(w, r)
    BY <2>1, <2>2, <2>3, <1>6 DEF handleSyncPlaylist, AskSync, At, Goes, Onward, Passes, Inside
  <2> QED BY <2>4, OneSync
<1>7. ASSUME NEW w \in Runners, NEW k, NEW a, Take(w, k, a), k = "sync" => a = "enter", a # "clear" PROVE RunInv'
  <2>1. PICK r : r = With(run[w], [kind |-> k, at |-> a])
    OBVIOUS
  <2>2. /\ DOMAIN r = DOMAIN Off /\ r.kind = k /\ r.at = a
       /\ \A x \in {"copy", "answer", "rows", "next"} : r[x] = run[w][x]
    BY <1>w, <2>1, WithFields DEF Off
  <2>3. RunOk(r)
    BY <1>w, <2>2, <1>7 DEF RunOk, Take, At
  <2>4. Onward(w, r) /\ Passes(w, r)
    BY <2>1, <2>2, <2>3, <1>7 DEF Take, At, Goes, Onward, Passes, Inside
  <2> QED BY <2>4, OneSync
<1>8. ASSUME NEW w \in Runners, EnterSync(w) PROVE RunInv'
  <2>1. CASE syncing
    BY <1>8, <1>o, <2>1 DEF EnterSync, At, Inside, RunInv
  <2>2. CASE ~syncing
    <3>1. PICK r : r = With(run[w], [at |-> "begin"])
      OBVIOUS
    <3>2. /\ DOMAIN r = DOMAIN Off /\ r.at = "begin"
         /\ \A x \in {"kind", "copy", "answer", "rows", "next"} : r[x] = run[w][x]
      BY <1>w, <3>1, WithFields DEF Off
    <3>3. RunOk(r)
      BY <1>w, <3>2, <1>8, <2>2 DEF RunOk, EnterSync, At
    <3>4. Onward(w, r) /\ Passes(w, r)
      BY <3>1, <3>2, <3>3, <1>8, <2>2 DEF EnterSync, At, Goes, Onward, Passes, Inside
    <3> QED BY <3>4, OneSync
  <2> QED BY <2>1, <2>2
<1>9. ASSUME NEW w \in Runners, BeginSync(w) PROVE RunInv'
  <2>1. CASE ~playlist.there
    BY <1>9, <1>o, <2>1 DEF BeginSync, LeaveSync, At, Inside
  <2>2. CASE playlist.there
    <3>1. PICK r : r = With(run[w], [at |-> "wait", copy |-> playlist])
      OBVIOUS
    <3>2. /\ DOMAIN r = DOMAIN Off /\ r.at = "wait" /\ r.copy = playlist
         /\ \A x \in {"kind", "answer", "rows", "next"} : r[x] = run[w][x]
      BY <1>w, <3>1, WithFields DEF Off
    <3>3. RunOk(r)
      BY <1>w, <3>2, <1>9, <2>2 DEF RunOk, BeginSync, At, ListTyped
    <3>4. Onward(w, r) /\ Passes(w, r)
      BY <3>1, <3>2, <3>3, <1>9, <2>2 DEF BeginSync, At, Goes, Onward, Passes, Inside
    <3> QED BY <3>4, OneSync
  <2> QED BY <2>1, <2>2
<1>11. ASSUME NEW w \in Runners, SyncFetched(w) PROVE RunInv'
  <2>1. CASE Goes(w, [at |-> "relink"])
    <3>1. PICK r : r = With(run[w], [at |-> "relink"])
      OBVIOUS
    <3>2. /\ DOMAIN r = DOMAIN Off /\ r.at = "relink"
         /\ \A x \in {"kind", "copy", "answer", "rows", "next"} : r[x] = run[w][x]
      BY <1>w, <3>1, WithFields DEF Off
    <3>3. RunOk(r)
      BY <1>w, <3>2, <1>11, <2>1 DEF RunOk, SyncFetched, At
    <3>4. Onward(w, r) /\ Passes(w, r)
      BY <3>1, <3>2, <3>3, <1>11, <2>1 DEF SyncFetched, At, Goes, Onward, Passes, Inside
    <3> QED BY <3>4, OneSync
  <2>2. ASSUME NEW answer \in Answers, answer # <<>>, Goes(w, [at |-> "clear", answer |-> answer]) PROVE RunInv'
    <3>1. PICK r : r = With(run[w], [at |-> "clear", answer |-> answer])
      OBVIOUS
    <3>2. /\ DOMAIN r = DOMAIN Off /\ r.at = "clear" /\ r.answer = answer
         /\ \A x \in {"kind", "copy", "rows", "next"} : r[x] = run[w][x]
      BY <1>w, <3>1, WithFields DEF Off
    <3>3. RunOk(r)
      BY <1>w, <3>2, <1>11, <2>2 DEF RunOk, SyncFetched, At
    <3>4. Onward(w, r) /\ Passes(w, r)
      BY <3>1, <3>2, <3>3, <1>11, <2>2 DEF SyncFetched, At, Goes, Onward, Passes, Inside
    <3> QED BY <3>4, OneSync
  <2> QED BY <1>11, <2>1, <2>2 DEF SyncFetched, RebuildFrom
<1>12. ASSUME NEW w \in Runners, Relink(w) PROVE RunInv'
  <2>b. PICK b : b = [Off EXCEPT !.kind = run[w].kind] /\ RunOk(b) /\ b.kind = run[w].kind
    BY OffOk
  <2>1. PICK r : r = With(b, [at |-> "link", rows |-> listing, copy |-> run[w].copy])
    OBVIOUS
  <2>2. /\ DOMAIN r = DOMAIN Off /\ r.at = "link" /\ r.rows = listing /\ r.copy = run[w].copy
       /\ \A x \in {"kind", "answer", "next"} : r[x] = b[x]
    BY <2>b, <2>1, WithFields DEF Off
  <2>3. RunOk(r)
    BY <2>b, <2>2, <1>12, <1>w DEF RunOk, Relink, At, ListTyped
  <2>4. Onward(w, r) /\ Passes(w, r)
    BY <2>1, <2>2, <2>3, <1>12, <1>w, <2>b DEF Relink, At, Afresh, Onward, Passes, Inside
  <2> QED BY <2>4, OneSync
<1>13. ASSUME NEW w \in Runners, LinkRow(w) PROVE RunInv'
  <2>u. PICK u : run' = [run EXCEPT ![w] = With(run[w], [next |-> run[w].next + 1, unmatched |-> u])]
    BY <1>13 DEF LinkRow, Goes
  <2>1. PICK r : r = With(run[w], [next |-> run[w].next + 1, unmatched |-> u])
    OBVIOUS
  <2>2. /\ DOMAIN r = DOMAIN Off /\ r.next = run[w].next + 1
       /\ \A x \in {"kind", "at", "copy", "answer", "rows"} : r[x] = run[w][x]
    BY <1>w, <2>1, WithFields DEF Off
  <2>3. RunOk(r)
    BY <1>w, <2>2, <1>13, <2>u, SMTT(30) DEF RunOk, LinkRow, At
  <2>4. Onward(w, r) /\ Passes(w, r)
    BY <2>1, <2>2, <2>3, <1>13, <2>u DEF LinkRow, At, Goes, Onward, Passes, Inside
  <2> QED BY <2>4, OneSync
<1>14. ASSUME NEW w \in Runners, NEW a \in {"ask", "end"}, run[w].kind = "sync", Inside(run[w]),
             Afresh(w, [at |-> a]), UNCHANGED syncing
       PROVE RunInv'
  <2>b. PICK b : b = [Off EXCEPT !.kind = run[w].kind] /\ RunOk(b) /\ b.kind = run[w].kind
    BY OffOk
  <2>1. PICK r : r = With(b, [at |-> a])
    OBVIOUS
  <2>2. /\ DOMAIN r = DOMAIN Off /\ r.at = a
       /\ \A x \in {"kind", "copy", "answer", "rows", "next"} : r[x] = b[x]
    BY <2>b, <2>1, WithFields DEF Off
  <2>3. RunOk(r)
    BY <2>b, <2>2, <1>14 DEF RunOk, Afresh, At
  <2>4. Onward(w, r) /\ Passes(w, r)
    BY <2>1, <2>2, <2>3, <1>14, <2>b DEF Afresh, At, Goes, Onward, Passes, Inside
  <2> QED BY <2>4, OneSync
<1>15. ASSUME NEW w \in Runners, StampSynced(w) PROVE RunInv'
  <2>1. PICK a \in {"ask", "end"} : a = IF run[w].unmatched THEN "ask" ELSE "end"
    OBVIOUS
  <2> QED BY <1>14, <1>15, <2>1 DEF StampSynced, At, Inside
<1>16. ASSUME NEW w \in Runners, Synced(w) PROVE RunInv'
  BY <1>o, <1>16 DEF Synced, LeaveSync, At, Inside
<1>17. ASSUME NEW w \in Runners, handleDownloadMissing(w) PROVE RunInv'
  <2>1. PICK r : r = With(run[w], [kind |-> "missing", at |-> "ask"])
    OBVIOUS
  <2>2. /\ DOMAIN r = DOMAIN Off /\ r.kind = "missing" /\ r.at = "ask"
       /\ \A x \in {"copy", "answer", "rows", "next"} : r[x] = run[w][x]
    BY <1>w, <2>1, WithFields DEF Off
  <2>3. RunOk(r)
    BY <1>w, <2>2, <1>17 DEF RunOk, handleDownloadMissing, At
  <2>4. Onward(w, r) /\ Passes(w, r)
    BY <2>1, <2>2, <2>3, <1>17 DEF handleDownloadMissing, At, Goes, Onward, Passes, Inside
  <2> QED BY <2>4, OneSync
<1>18. ASSUME NEW w \in Runners, ReadMissing(w) PROVE RunInv'
  <2>b. PICK b : b = [Off EXCEPT !.kind = run[w].kind] /\ RunOk(b) /\ b.kind = run[w].kind
    BY OffOk
  <2>a. PICK al, re : run' = [run EXCEPT ![w] = With(b, [at |-> "queue", rows |-> listing, already |-> al, rearm |-> re])]
    BY <1>18, <2>b DEF ReadMissing, Afresh
  <2>1. PICK r : r = With(b, [at |-> "queue", rows |-> listing, already |-> al, rearm |-> re])
    OBVIOUS
  <2>2. /\ DOMAIN r = DOMAIN Off /\ r.at = "queue" /\ r.rows = listing
       /\ \A x \in {"kind", "copy", "answer", "next"} : r[x] = b[x]
    BY <2>b, <2>1, WithFields DEF Off
  <2>3. RunOk(r)
    BY <2>b, <2>2, <1>18, <2>a, <1>w DEF RunOk, ReadMissing, At, ListTyped
  <2>4. Onward(w, r) /\ Passes(w, r)
    BY <2>1, <2>2, <2>3, <1>18, <2>a, <1>w, <2>b DEF ReadMissing, At, Goes, Onward, Passes, Inside
  <2> QED BY <2>4, OneSync
<1>19. ASSUME NEW w \in Runners, QueueMissing(w) PROVE RunInv'
  <2>u. PICK u : run' = [run EXCEPT ![w] = With(run[w], [next |-> run[w].next + 1, queued |-> u])]
    BY <1>19 DEF QueueMissing, Goes
  <2>1. PICK r : r = With(run[w], [next |-> run[w].next + 1, queued |-> u])
    OBVIOUS
  <2>2. /\ DOMAIN r = DOMAIN Off /\ r.next = run[w].next + 1
       /\ \A x \in {"kind", "at", "copy", "answer", "rows"} : r[x] = run[w][x]
    BY <1>w, <2>1, WithFields DEF Off
  <2>3. RunOk(r)
    BY <1>w, <2>2, <1>19, <2>u, SMTT(30) DEF RunOk, QueueMissing, At
  <2>4. Onward(w, r) /\ Passes(w, r)
    BY <2>1, <2>2, <2>3, <1>19, <2>u DEF QueueMissing, At, Goes, Onward, Passes, Inside
  <2> QED BY <2>4, OneSync
<1>20. ASSUME NEW w \in Runners, MissingDone(w) PROVE RunInv'
  <2>1. CASE run[w].kind = "sync"
    BY <1>14, <1>20, <2>1 DEF MissingDone, At, Inside
  <2>2. CASE run[w].kind # "sync"
    BY <1>20, <1>o, <2>2 DEF MissingDone, At, Inside
  <2> QED BY <2>1, <2>2
<1>21. ASSUME NEW w \in Runners, ReadFolder(w) PROVE RunInv'
  <2>1. CASE ~playlist.there
    BY <1>21, <1>o, <2>1 DEF ReadFolder, At, Inside
  <2>2. CASE playlist.there
    <3>1. PICK r : r = With(run[w], [at |-> "copy", copy |-> playlist, rows |-> listing])
      OBVIOUS
    <3>2. /\ DOMAIN r = DOMAIN Off /\ r.at = "copy" /\ r.copy = playlist /\ r.rows = listing
         /\ \A x \in {"kind", "answer", "next"} : r[x] = run[w][x]
      BY <1>w, <3>1, WithFields DEF Off
    <3>3. RunOk(r)
      BY <1>w, <3>2, <1>21, <2>2 DEF RunOk, ReadFolder, At, ListTyped
    <3>4. Onward(w, r) /\ Passes(w, r)
      BY <3>1, <3>2, <3>3, <1>21, <2>2 DEF ReadFolder, At, Goes, Onward, Passes, Inside
    <3> QED BY <3>4, OneSync
  <2> QED BY <2>1, <2>2
<1>22. ASSUME NEW w \in Runners, CopyFiles(w) PROVE RunInv'
  <2>1. PICK r : r = With(run[w], [at |-> "sweep"])
    OBVIOUS
  <2>2. /\ DOMAIN r = DOMAIN Off /\ r.at = "sweep"
       /\ \A x \in {"kind", "copy", "answer", "rows", "next"} : r[x] = run[w][x]
    BY <1>w, <2>1, WithFields DEF Off
  <2>3. RunOk(r)
    BY <1>w, <2>2, <1>22 DEF RunOk, CopyFiles, At
  <2>4. Onward(w, r) /\ Passes(w, r)
    BY <2>1, <2>2, <2>3, <1>22 DEF CopyFiles, At, Goes, Onward, Passes, Inside
  <2> QED BY <2>4, OneSync
<1>23. ASSUME NEW w \in Runners, SweepFolder(w) PROVE RunInv'
  BY <1>23, <1>o DEF SweepFolder, At, Inside
<1>24. CASE ReadPending \/ (\E s \in Songs : retryPendingDownloads(s)) \/ handleUpdatePlaylist \/ handleDeletePlaylist
  BY <1>24, <1>u DEF ReadPending, retryPendingDownloads, handleUpdatePlaylist, handleDeletePlaylist
<1>25. ASSUME NEW s \in Songs, PipelineTurns(s) PROVE RunInv'
  BY <1>25, <1>u DEF PipelineTurns, Turn
<1> QED BY <1>1, <1>2, <1>3, <1>4, <1>5, <1>6, <1>7, <1>8, <1>9, <1>11, <1>12, <1>13, <1>15, <1>16,
           <1>17, <1>18, <1>19, <1>20, <1>21, <1>22, <1>23, <1>24, <1>25 DEF ListNext, syncAutoPlaylists

\* The rows a goroutine read, and those of the answer it writes, are songs.
LEMMA ListSteps ==
  ASSUME RunInv, ListTyped, ListNext
  PROVE  ListTyped'
<1> USE ListAssumption
<1>w. \A w \in Runners : RunOk(run[w])
  BY DEF RunInv
<1>t. /\ playlist \in Flags /\ listing \in [Positions -> Rows]
      /\ record \in [Songs -> Records] /\ held \subseteq Songs
      /\ folder \subseteq Positions \X Songs /\ worker \subseteq Songs
  BY DEF ListTyped
<1>u. ASSUME UNCHANGED <<playlist, listing, record, held, folder, worker>> PROVE ListTyped'
  BY <1>u DEF ListTyped
<1>0. NoPlaylist \in Flags /\ NoRows \in [Positions -> Rows]
  BY DEF NoPlaylist, Flags, NoRows, NoRow, Rows
<1>1. ASSUME NEW w \in Runners, ImportFetched(w) PROVE ListTyped'
  <2>1. \A m \in {"mirror", "append"} : [playlist EXCEPT !.mode = m] \in Flags
    BY <1>t DEF Flags
  <2>2. \A m \in {"mirror", "append"} : [there |-> TRUE, mode |-> m, auto |-> FALSE] \in Flags
    BY DEF Flags
  <2>3. ASSUME NEW m \in {"mirror", "append"}, upsertPlaylist(m) PROVE playlist' \in Flags
    BY <2>1, <2>2, <2>3 DEF upsertPlaylist
  <2>4. playlist' \in Flags
    BY <1>1, <1>t, <2>3 DEF ImportFetched
  <2> QED BY <1>1, <1>t, <2>4 DEF ImportFetched, ListTyped
<1>2. ASSUME NEW w \in Runners, DeletePlaylistTracks(w) PROVE ListTyped'
  BY <1>2, <1>t, <1>0 DEF DeletePlaylistTracks, ListTyped
<1>3. ASSUME NEW i, NEW s \in Songs, NEW l \in BOOLEAN, UpsertPlaylistTrack(i, s, l) PROVE listing' \in [Positions -> Rows]
  <2>1. [song |-> s, linked |-> l] \in Rows
    BY DEF Rows
  <2>2. PICK row \in Rows : listing' = IF playlist.there THEN [listing EXCEPT ![i] = row] ELSE listing
    BY <1>3, <2>1 DEF UpsertPlaylistTrack
  <2> QED BY <1>t, <2>2
<1>4. ASSUME NEW w \in Runners, WriteTrack(w) PROVE ListTyped'
  <2>1. run[w].answer[run[w].next] \in Songs
    <3>1. run[w].next \in 1 .. Len(run[w].answer) /\ run[w].answer \in Seq(Songs)
      BY <1>4, <1>w DEF WriteTrack, RunOk
    <3> QED BY <3>1
  <2>2. listing' \in [Positions -> Rows]
    <3>1. PICK s \in Songs : s = run[w].answer[run[w].next]
      BY <2>1
    <3>2. listing' = IF playlist.there THEN [listing EXCEPT ![run[w].next] = [song |-> s, linked |-> findInLibrary(s)]]
                     ELSE listing
      BY <1>4, <3>1 DEF WriteTrack, UpsertPlaylistTrack
    <3>3. [song |-> s, linked |-> findInLibrary(s)] \in Rows
      BY DEF Rows, findInLibrary
    <3>4. PICK row \in Rows : row = [song |-> s, linked |-> findInLibrary(s)]
      BY <3>3
    <3>5. listing' = IF playlist.there THEN [listing EXCEPT ![run[w].next] = row] ELSE listing
      BY <3>2, <3>4
    <3> QED BY <1>t, <3>5
  <2> QED BY <1>4, <1>t, <2>2 DEF WriteTrack, ListTyped
<1>5. ASSUME NEW w \in Runners, LinkRow(w) PROVE ListTyped'
  <2>1. PICK row : row = run[w].rows[run[w].next] /\ row \in Rows
    BY <1>5, <1>w DEF LinkRow, RunOk
  <2>2. CASE UNCHANGED listing
    BY <1>5, <2>2, <1>t DEF LinkRow, ListTyped
  <2>3. CASE UpsertPlaylistTrack(run[w].next, row.song, TRUE) /\ row.song \in Songs
    <3>1. listing' \in [Positions -> Rows]
      BY <1>3, <2>3
    <3> QED BY <1>5, <1>t, <3>1 DEF LinkRow, ListTyped
  <2> QED BY <1>5, <1>t, <2>1, <2>2, <2>3 DEF LinkRow, findInLibrary
<1>6. ASSUME NEW w \in Runners, StampSynced(w) PROVE ListTyped'
  <2>1. playlist' \in Flags
    BY <1>6, <1>w, <1>t DEF StampSynced, RunOk
  <2> QED BY <1>6, <1>t, <2>1 DEF StampSynced, ListTyped
<1>7. ASSUME NEW w \in Runners, QueueMissing(w) PROVE ListTyped'
  <2>1. \A s : [record EXCEPT ![s] = "queued"] \in [Songs -> Records]
    BY <1>t DEF Records
  <2>2. record' \in [Songs -> Records]
    BY <1>7, <1>t, <2>1 DEF QueueMissing, Requeued
  <2> QED BY <1>7, <1>t, <2>2 DEF QueueMissing, ListTyped
<1>8. ASSUME NEW w \in Runners, CopyFiles(w) PROVE ListTyped'
  <2>1. run[w].rows \in [Positions -> Rows]
    BY <1>w DEF RunOk
  <2>2. \A j \in Positions : run[w].rows[j] # NoRow => run[w].rows[j].song \in Songs
    BY <2>1 DEF Rows
  <2>3. Wanted(run[w].rows) \subseteq Positions \X Songs
    BY <2>2 DEF Wanted
  <2> QED BY <1>8, <1>t, <2>2, <2>3 DEF CopyFiles, ListTyped
<1>9. ASSUME NEW w \in Runners, SweepFolder(w) PROVE ListTyped'
  BY <1>9, <1>t DEF SweepFolder, ListTyped
<1>10. CASE ReadPending
  BY <1>10, <1>t DEF ReadPending, ListTyped
<1>11. ASSUME NEW s \in Songs, retryPendingDownloads(s) PROVE ListTyped'
  <2>1. \A v \in Records : [record EXCEPT ![s] = v] \in [Songs -> Records]
    BY <1>t
  <2>2. record' \in [Songs -> Records]
    BY <1>11, <1>t, <2>1 DEF retryPendingDownloads, Records
  <2> QED BY <1>11, <1>t, <2>2 DEF retryPendingDownloads, ListTyped
<1>12. ASSUME NEW s \in Songs, NEW from, NEW to \in Records, Turn(s, from, to) PROVE ListTyped'
  <2>1. \A v \in Records : [record EXCEPT ![s] = v] \in [Songs -> Records]
    BY <1>t
  <2> QED BY <1>12, <1>t, <2>1 DEF Turn, ListTyped
<1>13. ASSUME NEW s \in Songs, PipelineTurns(s) PROVE ListTyped'
  <2>1. {"completed", "pending", "queued", "spent", "ignored", "exhausted"} \subseteq Records
    BY DEF Records
  <2> QED BY <1>12, <1>13, <2>1 DEF PipelineTurns
<1>14. CASE handleUpdatePlaylist
  <2>1. /\ \A m \in {"mirror", "append"} : [playlist EXCEPT !.mode = m] \in Flags
        /\ [playlist EXCEPT !.auto = ~@] \in Flags
    BY <1>t DEF Flags
  <2>2. playlist' \in Flags
    BY <1>14, <2>1 DEF handleUpdatePlaylist
  <2> QED BY <1>14, <1>t, <2>2 DEF handleUpdatePlaylist, ListTyped
<1>15. CASE handleDeletePlaylist
  BY <1>15, <1>t, <1>0 DEF handleDeletePlaylist, ListTyped
<1>16. ASSUME NEW w \in Runners,
              \/ handleImportPlaylist(w) \/ Imported(w) \/ handleSyncPlaylist(w)
              \/ \E k, a : Take(w, k, a)
              \/ EnterSync(w) /\ UNCHANGED <<playlist, listing, held, record, folder, owed, worker, begun>>
              \/ BeginSync(w) \/ SyncFetched(w) \/ Relink(w)
              \/ Synced(w) \/ handleDownloadMissing(w) \/ ReadMissing(w) \/ MissingDone(w) \/ ReadFolder(w)
       PROVE  ListTyped'
  BY <1>16, <1>u DEF handleImportPlaylist, Imported, handleSyncPlaylist, AskSync, Take, BeginSync, SyncFetched,
     Relink, Synced, handleDownloadMissing, ReadMissing, MissingDone, ReadFolder
<1> QED BY <1>1, <1>2, <1>4, <1>5, <1>6, <1>7, <1>8, <1>9, <1>10, <1>11, <1>13, <1>14, <1>15, <1>16
        DEF ListNext, syncAutoPlaylists

LEMMA ListInvHolds == ServicesSpec => [](RunInv /\ ListTyped)
<1>1. ServicesInit => RunInv /\ ListTyped
  <2> SUFFICES ASSUME ListInit PROVE RunInv /\ ListTyped
    BY DEF ServicesInit
  <2>1. RunInv
    BY OffOk DEF ListInit, RunInv
  <2>2. PICK s \in Songs : listing = [NoRows EXCEPT ![1] = [song |-> s, linked |-> FALSE]]
    BY DEF ListInit
  <2>3. listing \in [Positions -> Rows]
    <3>1. [song |-> s, linked |-> FALSE] \in Rows /\ NoRows \in [Positions -> Rows]
      BY DEF Rows, NoRows
    <3> QED BY <2>2, <3>1
  <2>4. ListTyped
    BY <2>3 DEF ListInit, ListTyped, Flags, Records
  <2> QED BY <2>1, <2>4
<1>2. RunInv /\ ListTyped /\ [ServicesNext]_<<scene, services>> => (RunInv /\ ListTyped)'
  <2> SUFFICES ASSUME RunInv, ListTyped, [ListNext]_listVars PROVE RunInv' /\ ListTyped'
    BY ScenesAreSteps
  <2>1. CASE ListNext
    BY <2>1, RunSteps, ListSteps
  <2>2. CASE UNCHANGED listVars
    BY <2>2 DEF listVars, RunInv, ListTyped
  <2> QED BY <2>1, <2>2
<1> QED BY <1>1, <1>2, PTL DEF ServicesSpec

\* At most one guarded sync works on the playlist, and `syncing` is up exactly
\* then: an early end never leaves it up (playlist/service.go SyncPlaylistGuarded).
THEOREM OneSyncAtATime == ServicesSpec => []SyncExclusive
<1>1. RunInv => SyncExclusive
  <2> SUFFICES ASSUME RunInv PROVE Cardinality(InSync) = IF syncing THEN 1 ELSE 0
    BY DEF SyncExclusive
  <2>1. InSync = {w \in Runners : Inside(run[w])}
    BY DEF InSync, Inside
  <2>2. CASE syncing
    <3>1. PICK w \in Runners : Inside(run[w])
      BY <2>2 DEF RunInv
    <3>2. InSync = {w}
      BY <2>1, <3>1 DEF RunInv
    <3> QED BY <2>2, <3>2, FS_Singleton
  <2>3. CASE ~syncing
    <3>1. InSync = {}
      BY <2>1, <2>3 DEF RunInv
    <3> QED BY <2>3, <3>1, FS_EmptySet
  <2> QED BY <2>2, <2>3
<1> QED BY <1>1, ListInvHolds, PTL

\* A playlist that stays never loses its rows but to an import, or to a sync that
\* holds the rows it writes next (playlist/service.go SyncPlaylist, ImportPlaylist).
THEOREM RowsOnlyReplaced == ServicesSpec => RowsKept
<1> DEFINE Loss == listing # NoRows /\ listing' = NoRows
                     => ~playlist'.there \/ \E w \in Runners : Replaces(w) /\ run'[w].at = "write"
<1>1. RunInv /\ ListTyped /\ [ServicesNext]_<<scene, services>> => [Loss]_listVars
  <2> SUFFICES ASSUME RunInv, ListTyped, ListNext, listing # NoRows, listing' = NoRows
               PROVE  ~playlist'.there \/ \E w \in Runners : Replaces(w) /\ run'[w].at = "write"
    BY ScenesAreSteps
  <2> USE ListAssumption
  <2>w. DOMAIN run = Runners /\ \A w \in Runners : RunOk(run[w])
    BY DEF RunInv
  <2>t. listing \in [Positions -> Rows]
    BY DEF ListTyped
  <2>1. ASSUME NEW w \in Runners, DeletePlaylistTracks(w) PROVE Replaces(w) /\ run'[w].at = "write"
    <3>1. PICK r : r = With(run[w], [at |-> "write", next |-> 1, unmatched |-> FALSE])
      OBVIOUS
    <3>2. r.at = "write"
      BY <2>w, <3>1, WithFields DEF Off
    <3>3. run'[w] = r
      BY <2>1, <2>w, <3>1 DEF DeletePlaylistTracks, Goes
    <3>4. Replaces(w)
      BY <2>1, <2>w DEF DeletePlaylistTracks, At, Replaces, RunOk
    <3> QED BY <3>2, <3>3, <3>4
  <2>2. ASSUME NEW i, NEW s, NEW l, UpsertPlaylistTrack(i, s, l), s # "none" \/ l PROVE FALSE
    <3>1. i \in Positions
      BY <2>2, <2>t DEF UpsertPlaylistTrack
    <3>2. listing'[i] = [song |-> s, linked |-> l]
      BY <2>2, <2>t, <3>1 DEF UpsertPlaylistTrack
    <3>3. listing'[i] = [song |-> "none", linked |-> FALSE]
      BY <3>1 DEF NoRows, NoRow
    <3> QED BY <2>2, <3>2, <3>3
  <2>3. ASSUME NEW w \in Runners, WriteTrack(w) PROVE FALSE
    <3>1. run[w].next \in 1 .. Len(run[w].answer) /\ run[w].answer \in Seq(Songs)
      BY <2>3, <2>w DEF WriteTrack, RunOk
    <3>2. run[w].answer[run[w].next] \in Songs
      BY <3>1
    <3> QED BY <2>2, <2>3, <3>2 DEF WriteTrack
  <2>4. ASSUME NEW w \in Runners, LinkRow(w) PROVE FALSE
    BY <2>2, <2>4 DEF LinkRow
  <2>5. CASE handleDeletePlaylist
    BY <2>5 DEF handleDeletePlaylist, NoPlaylist
  <2>6. ASSUME UNCHANGED listing PROVE FALSE
    BY <2>6
  <2> QED BY <2>1, <2>3, <2>4, <2>5, <2>6 DEF ListNext, syncAutoPlaylists, handleImportPlaylist, ImportFetched,
          Imported, handleSyncPlaylist, AskSync, Take, EnterSync, BeginSync, SyncFetched, Relink, StampSynced,
          Synced, handleDownloadMissing, ReadMissing, QueueMissing, MissingDone, ReadFolder, CopyFiles,
          SweepFolder, ReadPending, retryPendingDownloads, PipelineTurns, Turn, handleUpdatePlaylist
<1> QED BY <1>1, ListInvHolds, PTL DEF ServicesSpec, RowsKept

----------------------------------------------------------------------------
(* Accounts and sessions *)

Accounts == [there : BOOLEAN, role : {"admin", "user", "deleted"}, disabled : BOOLEAN, password : Nat]
Sessions == [there : BOOLEAN, user : Users \cup {0}, role : {"admin", "user", "deleted"}, password : Nat, expires : Nat]
LoginOf == [at : {"off", "create", "check", "done"}, user : Users \cup {0}, seen : Accounts]
Edits == [at : {"off", "update", "purge"}, user : Users \cup {0}, patch : Accounts, relevant : BOOLEAN]

AccountTyped ==
  /\ day \in 1 .. DayMax
  /\ users \in [Users -> Accounts] /\ sessions \in [Logins -> Sessions]
  /\ login \in [Logins -> LoginOf] /\ edit \in Edits
  /\ visitor \in [count : 0 .. (defaultLoginRate + 1), resetAt : Nat]
  /\ \A l \in Logins : sessions[l].expires <= DayMax + SessionTTL

\* A session speaks for an account as it was read or is.
Speaks(s, u) == u.role = s.role /\ u.password = s.password
Current(s) == users[s.user].there /\ ~users[s.user].disabled /\ Speaks(s, users[s.user])
Purging(u) == edit.at = "purge" /\ edit.user = u

\* Where a login is says what its session may be.
SessionOk(l) ==
  /\ login[l].at \in {"create", "check"} => login[l].user \in Users
  /\ login[l].at = "create" => ~sessions[l].there /\ l \notin gone
  /\ sessions[l].there => l \notin gone /\ sessions[l].user \in Users
  /\ login[l].at = "check" /\ sessions[l].there =>
       sessions[l].user = login[l].user /\ Speaks(sessions[l], login[l].seen)
  /\ login[l].at = "done" /\ sessions[l].there /\ ~Purging(sessions[l].user) => Current(sessions[l])

\* The account that is being edited is there, and a patch that does not matter
\* is the account as it is.
EditOk ==
  /\ edit.at # "off" => edit.user \in Users
  /\ edit.at = "update" => users[edit.user].there /\ (~edit.relevant => edit.patch = users[edit.user])

AccountInv == AccountTyped /\ EditOk /\ \A l \in Logins : SessionOk(l)

LEMMA NoneOk == /\ NoUser \in Accounts /\ Deleted \in Accounts /\ NoSession \in Sessions /\ NoLogin \in LoginOf
                /\ [NoLogin EXCEPT !.at = "done"] \in LoginOf /\ NoEdit \in Edits
                /\ EnsureBootstrapAdmin \in Accounts
                /\ \A r \in {"admin", "user"} : [NoUser EXCEPT !.there = TRUE, !.role = r] \in Accounts
  BY DEF NoUser, Accounts, Deleted, NoSession, Sessions, NoLogin, LoginOf, NoEdit, Edits, EnsureBootstrapAdmin

\* A session of a login that is changed alone leaves the others sound.
LEMMA OthersOk ==
  ASSUME AccountInv, NEW l \in Logins, UNCHANGED <<users, edit>>,
         \A k \in Logins \ {l} : login'[k] = login[k] /\ sessions'[k] = sessions[k],
         \A k \in Logins \ {l} : k \in gone' => k \in gone,
         SessionOk(l)'
  PROVE  \A k \in Logins : SessionOk(k)'
<1> SUFFICES ASSUME NEW k \in Logins \ {l} PROVE SessionOk(k)'
  OBVIOUS
<1> QED BY DEF AccountInv, SessionOk, Purging, Current, Speaks

LEMMA AccountTypes ==
  ASSUME AccountInv, AccountNext
  PROVE  AccountTyped'
<1> USE AccountAssumption DEF AccountTyped
<1>i. AccountTyped /\ EditOk /\ \A l \in Logins : SessionOk(l)
  BY DEF AccountInv
<1>v. Counted \in [count : 0 .. (defaultLoginRate + 1), resetAt : Nat]
  BY <1>i DEF Counted
<1>1. ASSUME NEW l \in Logins, NEW u \in Users, LoginRead(l, u) PROVE AccountTyped'
  <2>1. [at |-> "create", user |-> u, seen |-> users[u]] \in LoginOf
    BY <1>i DEF LoginOf
  <2>2. login' \in [Logins -> LoginOf]
    BY <1>1, <1>i, <2>1 DEF LoginRead
  <2> QED BY <1>1, <1>i, <1>v, <2>2 DEF LoginRead
<1>2. ASSUME NEW l \in Logins, LoginCreate(l) PROVE AccountTyped'
  <2>1. PICK s : s = [there |-> TRUE, user |-> login[l].user, role |-> login[l].seen.role,
                      password |-> login[l].seen.password, expires |-> day + SessionTTL]
    OBVIOUS
  <2>2. s \in Sessions /\ s.expires <= DayMax + SessionTTL
    BY <1>i, <2>1 DEF Sessions, LoginOf, Accounts
  <2>3. [login[l] EXCEPT !.at = "check"] \in LoginOf
    BY <1>i DEF LoginOf
  <2>4. login' \in [Logins -> LoginOf]
    BY <1>2, <1>i, <2>3 DEF LoginCreate
  <2>5. sessions' = [sessions EXCEPT ![l] = s]
    BY <1>2, <2>1 DEF LoginCreate
  <2> QED BY <1>2, <1>i, <2>2, <2>4, <2>5 DEF LoginCreate
<1>n. NoSession.expires <= DayMax + SessionTTL
  BY DEF NoSession
<1>3. ASSUME NEW l \in Logins, LoginCheck(l) PROVE AccountTyped'
  BY <1>3, <1>i, <1>n, NoneOk DEF LoginCheck
<1>4. ASSUME NEW l \in Logins, Validate(l) PROVE AccountTyped'
  BY <1>4, <1>i, <1>n, NoneOk DEF Validate
<1>5. ASSUME NEW l \in Logins, Renew(l) PROVE AccountTyped'
  <2>1. PICK s : s = [sessions[l] EXCEPT !.expires = day + SessionTTL]
    OBVIOUS
  <2>2. s \in Sessions /\ s.expires <= DayMax + SessionTTL
    BY <1>i, <2>1 DEF Sessions
  <2>3. sessions' = sessions \/ sessions' = [sessions EXCEPT ![l] = s]
    BY <1>5, <2>1 DEF Renew
  <2> QED BY <1>5, <1>i, <2>2, <2>3 DEF Renew
<1>6. ASSUME NEW l \in Logins, handleLogout(l) PROVE AccountTyped'
  BY <1>6, <1>i, <1>n, NoneOk DEF handleLogout
<1>7. CASE Prune
  BY <1>7, <1>i, <1>n, NoneOk DEF Prune
<1>8. ASSUME NEW u \in Users, NEW r \in {"admin", "user"}, handleCreateUser(u, r) PROVE AccountTyped'
  BY <1>8, <1>i, NoneOk DEF handleCreateUser
<1>9. ASSUME NEW u \in Users, handleUpdateUser(u) PROVE AccountTyped'
  <2>1. Patches(users[u]) \subseteq Accounts
    <3>1. PICK a \in Accounts : a = users[u]
      BY <1>i
    <3>2. /\ [a EXCEPT !.role = "admin"] \in Accounts /\ [a EXCEPT !.role = "user"] \in Accounts
          /\ [a EXCEPT !.disabled = TRUE] \in Accounts /\ [a EXCEPT !.disabled = FALSE] \in Accounts
      BY DEF Accounts
    <3>3. [a EXCEPT !.disabled = ~@] \in Accounts
      BY <3>2 DEF Accounts
    <3>4. [a EXCEPT !.password = @ + 1] \in Accounts
      BY DEF Accounts
    <3> QED BY <3>1, <3>2, <3>3, <3>4 DEF Patches
  <2>2. PICK p \in Patches(users[u]) : edit' = [at |-> "update", user |-> u, patch |-> p, relevant |-> p # users[u]]
    BY <1>9 DEF handleUpdateUser
  <2>3. edit' \in Edits
    <3>1. p \in Accounts
      BY <2>1, <2>2
    <3>2. (p # users[u]) \in BOOLEAN
      OBVIOUS
    <3> QED BY <2>2, <3>1, <3>2 DEF Edits
  <2> QED BY <1>9, <1>i, <2>3 DEF handleUpdateUser
<1>10. CASE UpdateUserGuarded
  <2>1. [edit EXCEPT !.at = "purge"] \in Edits /\ edit.patch \in Accounts
    BY <1>i DEF Edits
  <2>2. edit' \in Edits /\ users' \in [Users -> Accounts]
    BY <1>10, <1>i, <2>1, NoneOk DEF UpdateUserGuarded
  <2> QED BY <1>10, <1>i, <2>2 DEF UpdateUserGuarded
<1>11. ASSUME NEW u \in Users, handleDeleteUser(u) PROVE AccountTyped'
  <2>1. [NoEdit EXCEPT !.at = "purge", !.user = u] \in Edits
    BY NoneOk DEF NoEdit, Edits
  <2> QED BY <1>11, <1>i, <2>1, NoneOk DEF handleDeleteUser
<1>12. CASE invalidateUserSessions
  BY <1>12, <1>i, <1>n, NoneOk DEF invalidateUserSessions
<1>13. CASE DayPasses
  BY <1>13, <1>i DEF DayPasses
<1> QED BY <1>1, <1>2, <1>3, <1>4, <1>5, <1>6, <1>7, <1>8, <1>9, <1>10, <1>11, <1>12, <1>13 DEF AccountNext

LEMMA AccountSessions ==
  ASSUME AccountInv, AccountNext
  PROVE  EditOk' /\ \A l \in Logins : SessionOk(l)'
<1> USE AccountAssumption
<1>i. AccountTyped /\ EditOk /\ \A l \in Logins : SessionOk(l)
  BY DEF AccountInv
<1>t. /\ users \in [Users -> Accounts] /\ sessions \in [Logins -> Sessions]
      /\ login \in [Logins -> LoginOf] /\ edit \in Edits
  BY <1>i DEF AccountTyped
<1>e. ASSUME UNCHANGED <<users, edit>> PROVE EditOk'
  BY <1>e, <1>i DEF EditOk
<1>1. ASSUME NEW l \in Logins, NEW u \in Users, LoginRead(l, u) PROVE EditOk' /\ \A k \in Logins : SessionOk(k)'
  <2>1. CASE UNCHANGED login
    BY <1>1, <1>e, <1>i, <2>1 DEF LoginRead, SessionOk, Purging, Current, Speaks
  <2>2. CASE login' = [login EXCEPT ![l] = [at |-> "create", user |-> u, seen |-> users[u]]]
    <3>1. SessionOk(l)'
      BY <1>1, <1>t, <2>2 DEF LoginRead, SessionOk
    <3>2. \A k \in Logins \ {l} : login'[k] = login[k] /\ sessions'[k] = sessions[k]
      BY <1>1, <1>t, <2>2 DEF LoginRead
    <3> QED BY <1>1, <1>e, <3>1, <3>2, OthersOk DEF LoginRead
  <2> QED BY <1>1, <2>1, <2>2 DEF LoginRead
<1>2. ASSUME NEW l \in Logins, LoginCreate(l) PROVE EditOk' /\ \A k \in Logins : SessionOk(k)'
  <2>1. /\ login'[l].at = "check" /\ login'[l].user = login[l].user /\ login'[l].seen = login[l].seen
        /\ sessions'[l].there /\ sessions'[l].user = login[l].user
        /\ sessions'[l].role = login[l].seen.role /\ sessions'[l].password = login[l].seen.password
    BY <1>2, <1>t DEF LoginCreate, LoginOf
  <2>2. login[l].user \in Users /\ l \notin gone
    BY <1>2, <1>i DEF LoginCreate, SessionOk
  <2>3. SessionOk(l)'
    BY <1>2, <2>1, <2>2 DEF LoginCreate, SessionOk, Speaks
  <2>4. \A k \in Logins \ {l} : login'[k] = login[k] /\ sessions'[k] = sessions[k]
    BY <1>2, <1>t DEF LoginCreate
  <2> QED BY <1>2, <1>e, <2>3, <2>4, OthersOk DEF LoginCreate
<1>n. ~NoSession.there /\ [NoLogin EXCEPT !.at = "done"].at = "done"
  BY DEF NoSession, NoLogin
<1>3. ASSUME NEW l \in Logins, LoginCheck(l) PROVE EditOk' /\ \A k \in Logins : SessionOk(k)'
  <2>1. login'[l].at = "done"
    BY <1>3, <1>t, <1>n DEF LoginCheck
  <2>2. \A k \in Logins \ {l} : login'[k] = login[k] /\ sessions'[k] = sessions[k]
    BY <1>3, <1>t DEF LoginCheck
  <2>3. SessionOk(l)'
    <3>1. CASE sessions' = [sessions EXCEPT ![l] = NoSession]
      BY <1>n, <1>t, <2>1, <3>1 DEF SessionOk
    <3>2. CASE /\ UNCHANGED <<sessions, gone>>
               /\ LET now == users[login[l].user]
                  IN now.there /\ ~now.disabled /\ now.role = login[l].seen.role
                     /\ now.password = login[l].seen.password
      BY <1>3, <1>i, <2>1, <3>2 DEF LoginCheck, SessionOk, Current, Speaks
    <3> QED BY <1>3, <3>1, <3>2 DEF LoginCheck
  <2> QED BY <1>3, <1>e, <2>2, <2>3, OthersOk DEF LoginCheck
<1>4. ASSUME NEW l \in Logins, Validate(l) \/ Renew(l) \/ handleLogout(l)
      PROVE  EditOk' /\ \A k \in Logins : SessionOk(k)'
  <2>1. \/ (sessions'[l] = NoSession /\ sessions[l].there) \/ UNCHANGED <<sessions, gone>>
        \/ /\ sessions'[l].there = sessions[l].there /\ sessions'[l].user = sessions[l].user
           /\ sessions'[l].role = sessions[l].role /\ sessions'[l].password = sessions[l].password
           /\ gone' = gone
    <3>1. CASE Validate(l)
      BY <1>t, <3>1 DEF Validate
    <3>2. CASE Renew(l)
      BY <1>t, <3>2 DEF Renew, Sessions
    <3>3. CASE handleLogout(l)
      BY <1>t, <3>3 DEF handleLogout
    <3> QED BY <1>4, <3>1, <3>2, <3>3
  <2>2. /\ UNCHANGED <<users, login, edit>>
        /\ \A k \in Logins \ {l} : sessions'[k] = sessions[k] /\ (k \in gone' => k \in gone)
    BY <1>4, <1>t DEF Validate, Renew, handleLogout
  <2>3. SessionOk(l)'
    <3>1. CASE sessions'[l] = NoSession /\ sessions[l].there
      BY <1>i, <1>n, <2>2, <3>1 DEF SessionOk
    <3>2. CASE UNCHANGED <<sessions, gone>>
      BY <1>i, <2>2, <3>2 DEF SessionOk, Current, Purging, Speaks
    <3>3. CASE /\ sessions'[l].there = sessions[l].there /\ sessions'[l].user = sessions[l].user
               /\ sessions'[l].role = sessions[l].role /\ sessions'[l].password = sessions[l].password
               /\ gone' = gone
      BY <1>i, <2>2, <3>3 DEF SessionOk, Current, Purging, Speaks
    <3> QED BY <2>1, <2>2, <3>1, <3>2, <3>3
  <2> QED BY <1>e, <2>2, <2>3, OthersOk
<1>5. CASE Prune
  <2>1. /\ UNCHANGED <<users, login, edit>>
        /\ \A k \in Logins : \/ sessions'[k] = NoSession /\ sessions[k].there
                             \/ sessions'[k] = sessions[k] /\ (k \in gone' <=> k \in gone)
    <3>1. ASSUME NEW k \in Logins
          PROVE  \/ sessions'[k] = NoSession /\ sessions[k].there
                 \/ sessions'[k] = sessions[k] /\ (k \in gone' <=> k \in gone)
      <4>1. CASE k \in Expired
        BY <1>5, <4>1 DEF Prune, Expired
      <4>2. CASE k \notin Expired
        BY <1>5, <4>2 DEF Prune
      <4> QED BY <4>1, <4>2
    <3>2. UNCHANGED <<users, login, edit>>
      BY <1>5 DEF Prune
    <3> QED BY <3>1, <3>2
  <2>2. ASSUME NEW k \in Logins PROVE SessionOk(k)'
    <3>1. CASE sessions'[k] = NoSession /\ sessions[k].there
      BY <1>i, <1>n, <2>1, <3>1 DEF SessionOk
    <3>2. CASE sessions'[k] = sessions[k] /\ (k \in gone' <=> k \in gone)
      BY <1>i, <2>1, <3>2 DEF SessionOk, Current, Purging, Speaks
    <3> QED BY <2>1, <3>1, <3>2
  <2> QED BY <1>e, <2>1, <2>2
<1>6. ASSUME NEW u \in Users, NEW r \in {"admin", "user"}, handleCreateUser(u, r)
      PROVE  EditOk' /\ \A k \in Logins : SessionOk(k)'
  <2>1. /\ UNCHANGED <<sessions, login, edit, gone>> /\ ~users[u].there
        /\ \A v \in Users \ {u} : users'[v] = users[v]
    BY <1>6, <1>t DEF handleCreateUser, NoUser
  <2>2. EditOk'
    BY <1>i, <2>1 DEF EditOk
  <2>3. ASSUME NEW k \in Logins PROVE SessionOk(k)'
    BY <1>i, <2>1 DEF SessionOk, Current, Purging, Speaks
  <2> QED BY <2>2, <2>3
<1>7. ASSUME NEW u \in Users, handleUpdateUser(u) PROVE EditOk' /\ \A k \in Logins : SessionOk(k)'
  <2>1. PICK p : edit' = [at |-> "update", user |-> u, patch |-> p, relevant |-> p # users[u]]
    BY <1>7 DEF handleUpdateUser
  <2>2. EditOk'
    BY <1>7, <2>1 DEF handleUpdateUser, EditOk
  <2>3. ASSUME NEW k \in Logins PROVE SessionOk(k)'
    BY <1>i, <1>7, <2>1 DEF handleUpdateUser, SessionOk, Current, Purging, Speaks
  <2> QED BY <2>2, <2>3
<1>8. CASE UpdateUserGuarded
  <2>1. UNCHANGED <<sessions, login, gone>> /\ edit.at = "update" /\ edit.user \in Users
    BY <1>8, <1>i DEF UpdateUserGuarded, EditOk
  <2>2. CASE users' = users /\ edit' = NoEdit
    <3>1. EditOk'
      BY <2>2 DEF EditOk, NoEdit
    <3>2. ASSUME NEW k \in Logins PROVE SessionOk(k)'
      BY <1>i, <2>1, <2>2 DEF SessionOk, Current, Purging, Speaks
    <3> QED BY <3>1, <3>2
  <2>3. CASE edit.relevant /\ users' = [users EXCEPT ![edit.user] = edit.patch] /\ edit' = [edit EXCEPT !.at = "purge"]
    <3>1. edit'.at = "purge" /\ edit'.user = edit.user /\ \A v \in Users \ {edit.user} : users'[v] = users[v]
      BY <1>t, <2>3 DEF Edits
    <3>2. EditOk'
      BY <2>1, <3>1 DEF EditOk
    <3>3. ASSUME NEW k \in Logins PROVE SessionOk(k)'
      BY <1>i, <2>1, <3>1 DEF SessionOk, Current, Purging, Speaks
    <3> QED BY <3>2, <3>3
  <2>4. CASE ~edit.relevant /\ users' = [users EXCEPT ![edit.user] = edit.patch] /\ edit' = NoEdit
    <3>1. users' = users
      BY <1>i, <1>t, <2>1, <2>4 DEF EditOk
    <3> QED BY <2>2, <2>4, <3>1
  <2> QED BY <1>8, <2>2, <2>3, <2>4 DEF UpdateUserGuarded
<1>9. ASSUME NEW u \in Users, handleDeleteUser(u) PROVE EditOk' /\ \A k \in Logins : SessionOk(k)'
  <2>1. /\ edit'.at = "purge" /\ edit'.user = u /\ edit.at = "off" /\ UNCHANGED <<sessions, login, gone>>
        /\ \A v \in Users \ {u} : users'[v] = users[v]
    BY <1>9, <1>t DEF handleDeleteUser, NoEdit
  <2>2. EditOk'
    BY <2>1 DEF EditOk
  <2>3. ASSUME NEW k \in Logins PROVE SessionOk(k)'
    BY <1>i, <2>1 DEF SessionOk, Current, Purging, Speaks
  <2> QED BY <2>2, <2>3
<1>10. CASE invalidateUserSessions
  <2>1. /\ UNCHANGED <<users, login>> /\ edit' = NoEdit
        /\ \A k \in Logins : \/ sessions[k].user = edit.user /\ sessions'[k] = NoSession
                                 /\ (k \in gone' => k \in gone \/ sessions[k].there)
                             \/ sessions[k].user # edit.user /\ sessions'[k] = sessions[k]
                                 /\ (k \in gone' <=> k \in gone)
    <3>1. ASSUME NEW k \in Logins
          PROVE  \/ sessions[k].user = edit.user /\ sessions'[k] = NoSession
                     /\ (k \in gone' => k \in gone \/ sessions[k].there)
                 \/ sessions[k].user # edit.user /\ sessions'[k] = sessions[k]
                     /\ (k \in gone' <=> k \in gone)
      <4>1. CASE sessions[k].user = edit.user
        BY <1>10, <4>1 DEF invalidateUserSessions
      <4>2. CASE sessions[k].user # edit.user
        BY <1>10, <4>2 DEF invalidateUserSessions
      <4> QED BY <4>1, <4>2
    <3>2. UNCHANGED <<users, login>> /\ edit' = NoEdit
      BY <1>10 DEF invalidateUserSessions
    <3> QED BY <3>1, <3>2
  <2>2. EditOk'
    BY <2>1 DEF EditOk, NoEdit
  <2>3. ASSUME NEW k \in Logins PROVE SessionOk(k)'
    <3>1. CASE sessions[k].user = edit.user /\ sessions'[k] = NoSession /\ (k \in gone' => k \in gone \/ sessions[k].there)
      BY <1>i, <1>n, <2>1, <3>1 DEF SessionOk
    <3>2. CASE sessions[k].user # edit.user /\ sessions'[k] = sessions[k] /\ (k \in gone' <=> k \in gone)
      BY <1>i, <2>1, <3>2 DEF SessionOk, Current, Purging, Speaks
    <3> QED BY <2>1, <3>1, <3>2
  <2> QED BY <2>2, <2>3
<1>11. CASE DayPasses
  BY <1>11, <1>e, <1>i DEF DayPasses, SessionOk, Current, Purging, Speaks
<1> QED BY <1>1, <1>2, <1>3, <1>4, <1>5, <1>6, <1>7, <1>8, <1>9, <1>10, <1>11 DEF AccountNext

LEMMA AccountInvHolds == ServicesSpec => []AccountInv
<1>1. ServicesInit => AccountInv
  <2> SUFFICES ASSUME AccountInit PROVE AccountInv
    BY DEF ServicesInit
  <2> USE AccountAssumption
  <2>1. AccountTyped
    BY NoneOk DEF AccountInit, AccountTyped, NoSession
  <2>2. EditOk /\ \A l \in Logins : SessionOk(l)
    BY DEF AccountInit, EditOk, SessionOk, NoSession, NoLogin, NoEdit
  <2> QED BY <2>1, <2>2 DEF AccountInv
<1>2. AccountInv /\ [ServicesNext]_<<scene, services>> => AccountInv'
  <2> SUFFICES ASSUME AccountInv, [AccountNext]_accountVars PROVE AccountInv'
    BY ScenesAreSteps
  <2>1. CASE AccountNext
    BY <2>1, AccountTypes, AccountSessions DEF AccountInv
  <2>2. CASE UNCHANGED accountVars
    BY <2>2 DEF accountVars, AccountInv, AccountTyped, EditOk, SessionOk, Purging, Current, Speaks
  <2> QED BY <2>1, <2>2
<1> QED BY <1>1, <1>2, PTL DEF ServicesSpec

\* A session that was handed out speaks for the account as it is, or the edit
\* that changed it is about to end it; an ended one never comes back
\* (auth/service.go, api/handlers_auth.go handleLogin).
THEOREM SessionsAlwaysSound == ServicesSpec => []SessionsSound
<1>1. AccountInv => SessionsSound
  BY DEF AccountInv, SessionOk, SessionsSound, Purging, Current, Speaks
<1> QED BY <1>1, AccountInvHolds, PTL

----------------------------------------------------------------------------
(* Artist and album tracking *)

Artists == [there : BOOLEAN, monitored : BOOLEAN, mode : {"all", "future", "none"}]
AlbumRows == [status : AlbumStatuses, monitored : BOOLEAN, link : BOOLEAN, searched : 0 .. MaxSearches]
Refreshes == [at : {"off", "read", "album", "write"}, todo : SUBSET Discography, artist : Artists,
              lib : SUBSET Discography, album : Discography \cup {"none"}, row : AlbumRows]
Links == [at : {"off", "write"}, album : Discography \cup {"none"}, row : AlbumRows]
Recomputes == [at : {"off", "list", "write"}, wanted : [Discography -> BOOLEAN], todo : SUBSET Discography]

TrackTyped ==
  /\ artist \in Artists /\ albums \in [Discography -> AlbumRows] /\ library \subseteq Discography
  /\ downloads \in [Discography -> {"none", "active", "tracks", "exhausted"}]
  /\ refresh \in Refreshes /\ linker \in Links /\ recompute \in Recomputes
  /\ spent \in [refresh : Nat, search : 0 .. MaxSearches, edit : Nat]
  /\ ~artist.there => Tracked = {}

LEMMA NothingTracked == /\ NoArtist \in Artists /\ ~NoArtist.there
                        /\ NoAlbum \in AlbumRows /\ NoAlbum.status = "none"
                        /\ NoRefresh \in Refreshes /\ NoLink \in Links /\ NoRecompute \in Recomputes
<1>1. NoArtist \in Artists /\ ~NoArtist.there /\ NoAlbum \in AlbumRows /\ NoAlbum.status = "none"
  BY TrackAssumption DEF NoArtist, Artists, NoAlbum, AlbumRows, AlbumStatuses
<1> QED BY <1>1 DEF NoRefresh, Refreshes, NoLink, Links, NoRecompute, Recomputes

\* The conflict clause keeps what it must of a row that is there.
LEMMA Upserts ==
  ASSUME TrackTyped, NEW a, NEW row \in AlbumRows, UpsertTrackedAlbum(a, row)
  PROVE  /\ albums' \in [Discography -> AlbumRows]
         /\ \A b \in Tracked :
              /\ albums[b].status \in {"downloaded", "ignored"} => albums'[b].status = albums[b].status
              /\ albums'[b].monitored = albums[b].monitored
              /\ albums[b].link => albums'[b].link
<1>t. albums \in [Discography -> AlbumRows]
  BY DEF TrackTyped
<1>1. \A b \in Discography \ {a} : albums'[b] = albums[b]
  BY <1>t DEF UpsertTrackedAlbum
<1>2. CASE a \notin Discography
  <2>1. albums' = albums
    BY <1>t, <1>2 DEF UpsertTrackedAlbum
  <2> QED BY <1>t, <2>1 DEF Tracked
<1>3. CASE a \in Discography
  <2>1. PICK old \in AlbumRows : old = albums[a]
    BY <1>t, <1>3
  <2>2. CASE old.status = "none"
    <3>1. albums' = [albums EXCEPT ![a] = row]
      BY <1>t, <1>3, <2>1, <2>2 DEF UpsertTrackedAlbum
    <3> QED BY <1>t, <1>3, <2>1, <2>2, <3>1 DEF Tracked
  <2>3. CASE old.status # "none"
    <3>1. PICK st : st = IF old.status \notin {"downloaded", "ignored"} /\ row.status = "downloaded" THEN "downloaded" ELSE old.status
      OBVIOUS
    <3>2. st \in AlbumStatuses
      BY <2>1, <3>1 DEF AlbumRows, AlbumStatuses
    <3>3. PICK new : new = [old EXCEPT !.status = st, !.link = row.link \/ old.link]
      OBVIOUS
    <3>4. [old EXCEPT !.status = st, !.link = TRUE] \in AlbumRows /\ [old EXCEPT !.status = st, !.link = FALSE] \in AlbumRows
      BY <3>2 DEF AlbumRows
    <3>5. new \in AlbumRows
      <4>1. CASE row.link \/ old.link
        BY <3>3, <3>4, <4>1 DEF AlbumRows
      <4>2. CASE ~(row.link \/ old.link)
        BY <3>3, <3>4, <4>2 DEF AlbumRows
      <4> QED BY <4>1, <4>2
    <3>6. new.status = st /\ new.monitored = old.monitored /\ (old.link => new.link)
      BY <3>3 DEF AlbumRows
    <3>7. albums' = [albums EXCEPT ![a] = new]
      BY <2>1, <2>3, <3>1, <3>3 DEF UpsertTrackedAlbum
    <3> QED BY <1>t, <1>3, <2>1, <3>1, <3>5, <3>6, <3>7 DEF Tracked
  <2> QED BY <2>2, <2>3
<1> QED BY <1>2, <1>3

\* What a refresh writes is a row.
LEMMA ReconciledRow ==
  ASSUME TrackTyped, NEW a
  PROVE  Reconciled(a) \in AlbumRows
<1>1. PICK row \in AlbumRows : row = refresh.row
  BY DEF TrackTyped, Refreshes
<1>2. PICK who \in Artists : who = refresh.artist
  BY DEF TrackTyped, Refreshes
<1>3. (row.link \/ a \in refresh.lib) \in BOOLEAN
  OBVIOUS
<1>4. resolveMonitored(who, row, a) \in BOOLEAN
  BY DEF resolveMonitored, desiredMonitored, AlbumRows
<1>5. resolveStatus(row, row.link \/ a \in refresh.lib) \in AlbumStatuses
  <2>1. CASE row.link \/ a \in refresh.lib
    BY <2>1 DEF resolveStatus, AlbumStatuses
  <2>2. CASE ~(row.link \/ a \in refresh.lib)
    BY <2>2 DEF resolveStatus, AlbumStatuses, AlbumRows
  <2> QED BY <2>1, <2>2
<1>6. 0 \in 0 .. MaxSearches
  BY TrackAssumption
<1> QED BY <1>1, <1>2, <1>3, <1>4, <1>5, <1>6 DEF Reconciled, AlbumRows

\* So is what an import writes.
LEMMA PromotedRow ==
  ASSUME TrackTyped
  PROVE  [linker.row EXCEPT !.status = "downloaded", !.link = TRUE, !.searched = 0] \in AlbumRows
<1>1. PICK row \in AlbumRows : row = linker.row
  BY DEF TrackTyped, Links
<1>2. 0 \in 0 .. MaxSearches
  BY TrackAssumption
<1>3. [row EXCEPT !.status = "downloaded", !.link = TRUE, !.searched = 0] \in AlbumRows
  BY <1>2 DEF AlbumRows, AlbumStatuses
<1> QED BY <1>1, <1>3

\* Steps that change single fields of the albums, or the set of tracked ones.
LEMMA AlbumEdits ==
  ASSUME TrackTyped, NEW a
  PROVE  /\ \A st \in AlbumStatuses \ {"none"} :
              MarkAlbumStatus(a, st) => albums' \in [Discography -> AlbumRows] /\ Tracked' = Tracked
         /\ \A on \in BOOLEAN :
              UpdateAlbumMonitor(a, on) => albums' \in [Discography -> AlbumRows] /\ Tracked' = Tracked
         /\ MarkAlbumSearched(a) => albums' \in [Discography -> AlbumRows] /\ Tracked' = Tracked
<1>t. albums \in [Discography -> AlbumRows] /\ spent.search \in 0 .. MaxSearches
  BY DEF TrackTyped
<1>1. CASE a \in Tracked
  <2>1. PICK old \in AlbumRows : old = albums[a] /\ old.status # "none" /\ a \in Discography
    BY <1>t, <1>1 DEF Tracked
  <2>2. ASSUME NEW new \in AlbumRows, new.status # "none", albums' = [albums EXCEPT ![a] = new]
        PROVE  albums' \in [Discography -> AlbumRows] /\ Tracked' = Tracked
    BY <1>t, <2>1, <2>2 DEF Tracked
  <2>3. ASSUME NEW st \in AlbumStatuses \ {"none"}, MarkAlbumStatus(a, st)
        PROVE  albums' \in [Discography -> AlbumRows] /\ Tracked' = Tracked
    <3>1. PICK new : new = [old EXCEPT !.status = st]
      OBVIOUS
    <3>2. new \in AlbumRows /\ new.status = st
      BY <3>1 DEF AlbumRows
    <3>3. albums' = [albums EXCEPT ![a] = new]
      BY <1>1, <2>1, <2>3, <3>1 DEF MarkAlbumStatus
    <3> QED BY <2>2, <3>2, <3>3
  <2>4. ASSUME NEW on \in BOOLEAN, UpdateAlbumMonitor(a, on)
        PROVE  albums' \in [Discography -> AlbumRows] /\ Tracked' = Tracked
    <3>1. PICK new : new = [old EXCEPT !.monitored = on]
      OBVIOUS
    <3>2. new \in AlbumRows /\ new.status = old.status
      BY <3>1 DEF AlbumRows
    <3>3. albums' = [albums EXCEPT ![a] = new]
      BY <1>1, <2>1, <2>4, <3>1 DEF UpdateAlbumMonitor
    <3> QED BY <2>1, <2>2, <3>2, <3>3
  <2>5. ASSUME MarkAlbumSearched(a)
        PROVE  albums' \in [Discography -> AlbumRows] /\ Tracked' = Tracked
    <3>1. PICK new : new = [old EXCEPT !.searched = spent.search]
      OBVIOUS
    <3>2. new \in AlbumRows /\ new.status = old.status
      BY <1>t, <3>1 DEF AlbumRows
    <3>3. albums' = [albums EXCEPT ![a] = new]
      BY <1>1, <2>1, <2>5, <3>1 DEF MarkAlbumSearched
    <3> QED BY <2>1, <2>2, <3>2, <3>3
  <2> QED BY <2>3, <2>4, <2>5
<1>2. CASE a \notin Tracked
  <2>1. ASSUME UNCHANGED albums PROVE albums' \in [Discography -> AlbumRows] /\ Tracked' = Tracked
    BY <1>t, <2>1 DEF Tracked
  <2> QED BY <1>2, <2>1 DEF MarkAlbumStatus, UpdateAlbumMonitor, MarkAlbumSearched
<1> QED BY <1>1, <1>2

LEMMA TrackSteps ==
  ASSUME TrackTyped, TrackNext
  PROVE  TrackTyped'
<1> USE TrackAssumption
<1>t. /\ artist \in Artists /\ albums \in [Discography -> AlbumRows] /\ library \subseteq Discography
      /\ downloads \in [Discography -> {"none", "active", "tracks", "exhausted"}]
      /\ refresh \in Refreshes /\ linker \in Links /\ recompute \in Recomputes
      /\ spent \in [refresh : Nat, search : 0 .. MaxSearches, edit : Nat]
      /\ ~artist.there => Tracked = {}
  BY DEF TrackTyped
<1>r. ASSUME UNCHANGED albums PROVE Tracked' = Tracked
  BY <1>r DEF Tracked
<1>1. CASE BeginRefresh
  <2>1. artist' \in Artists /\ artist'.there
    <3>1. ASSUME NEW m \in {"all", "future", "none"}, NEW on \in BOOLEAN, AddArtist(on, m) PROVE artist' \in Artists /\ artist'.there
      <4>1. (on /\ m # "none") \in BOOLEAN
        OBVIOUS
      <4> QED BY <3>1, <4>1 DEF AddArtist, Artists
    <3>2. CASE RefreshArtist
      BY <1>t, <3>2 DEF RefreshArtist
    <3> QED BY <1>1, <3>1, <3>2 DEF BeginRefresh
  <2>2. [NoRefresh EXCEPT !.at = "read"] \in Refreshes
    BY NothingTracked DEF Refreshes
  <2>3. [spent EXCEPT !.refresh = @ + 1] \in [refresh : Nat, search : 0 .. MaxSearches, edit : Nat]
    BY <1>t
  <2> QED BY <1>1, <1>t, <1>r, <2>1, <2>2, <2>3 DEF BeginRefresh, TrackTyped
<1>2. CASE ReadArtist
  <2>1. refresh' \in Refreshes
    BY <1>2, <1>t, NothingTracked DEF ReadArtist, Refreshes
  <2> QED BY <1>2, <1>t, <1>r, <2>1 DEF ReadArtist, TrackTyped
<1>3. ASSUME NEW a \in Discography, ReadAlbum(a) PROVE TrackTyped'
  <2>1. albums[a] \in AlbumRows
    BY <1>t
  <2>2. refresh' \in Refreshes
    BY <1>3, <1>t, <2>1 DEF ReadAlbum, Refreshes
  <2> QED BY <1>3, <1>t, <1>r, <2>2 DEF ReadAlbum, TrackTyped
<1>4. CASE WriteAlbum
  <2>1. [refresh EXCEPT !.at = "album", !.todo = @ \ {refresh.album}] \in Refreshes
    BY <1>t DEF Refreshes
  <2>2. refresh' \in Refreshes
    BY <1>4, <2>1, NothingTracked DEF WriteAlbum
  <2>3. CASE artist.there
    <3>1. albums' \in [Discography -> AlbumRows]
      BY <1>4, <2>3, ReconciledRow, Upserts DEF WriteAlbum
    <3> QED BY <1>4, <1>t, <2>2, <2>3, <3>1 DEF WriteAlbum, TrackTyped
  <2>4. CASE ~artist.there
    BY <1>4, <1>t, <1>r, <2>2, <2>4 DEF WriteAlbum, TrackTyped
  <2> QED BY <2>3, <2>4
<1>5. CASE downloadIndex
  <2>1. [spent EXCEPT !.search = @ + 1] \in [refresh : Nat, search : 0 .. MaxSearches, edit : Nat]
    BY <1>5, <1>t DEF downloadIndex
  <2> QED BY <1>5, <1>t, <1>r, <2>1 DEF downloadIndex, TrackTyped
<1>6. CASE requeueStalled
  <2>1. ASSUME NEW a \in Discography
        PROVE  /\ albums'[a] \in AlbumRows
               /\ albums'[a].status = "none" <=> albums[a].status = "none"
    <3>1. PICK old \in AlbumRows : old = albums[a]
      BY <1>t
    <3>2. [old EXCEPT !.status = "wanted"] \in AlbumRows /\ [old EXCEPT !.status = "wanted"].status = "wanted"
      BY DEF AlbumRows, AlbumStatuses
    <3> QED BY <1>6, <3>1, <3>2 DEF requeueStalled
  <2>2. DOMAIN albums' = Discography /\ albums' = [a \in Discography |-> albums'[a]]
    BY <1>6 DEF requeueStalled
  <2>3. albums' \in [Discography -> AlbumRows] /\ Tracked' = Tracked
    BY <2>1, <2>2 DEF Tracked
  <2> QED BY <1>6, <1>t, <2>3 DEF requeueStalled, TrackTyped
<1>7. CASE searchBatch \/ MarkDownloading \/ markAlbumSearched
  <2>1. "downloading" \in AlbumStatuses \ {"none"}
    BY DEF AlbumStatuses
  <2>2. albums' \in [Discography -> AlbumRows] /\ Tracked' = Tracked
    BY <1>7, <1>t, <1>r, <2>1, AlbumEdits DEF searchBatch, MarkDownloading, markAlbumSearched
  <2> QED BY <1>7, <1>t, <2>2 DEF searchBatch, MarkDownloading, markAlbumSearched, TrackTyped
<1>8. ASSUME NEW a \in Discography, processWanted(a) PROVE TrackTyped'
  BY <1>8, <1>t, <1>r DEF processWanted, Queued, NotQueued, TrackTyped
<1>9. ASSUME NEW a \in Discography, DownloadExhausted(a) PROVE TrackTyped'
  BY <1>9, <1>t, <1>r DEF DownloadExhausted, TrackTyped
<1>10. ASSUME NEW a \in Discography, LinkImportedAlbum(a) PROVE TrackTyped'
  <2>1. linker' \in Links
    BY <1>10, <1>t, NothingTracked DEF LinkImportedAlbum, Links
  <2> QED BY <1>10, <1>t, <1>r, <2>1 DEF LinkImportedAlbum, TrackTyped
<1>11. CASE promoteImported
  <2>1. CASE artist.there
    <3>1. [linker.row EXCEPT !.status = "downloaded", !.link = TRUE, !.searched = 0] \in AlbumRows
      BY PromotedRow
    <3>2. albums' \in [Discography -> AlbumRows]
      BY <1>11, <2>1, <3>1, Upserts DEF promoteImported
    <3> QED BY <1>11, <1>t, <2>1, <3>2, NothingTracked DEF promoteImported, TrackTyped
  <2>2. CASE ~artist.there
    BY <1>11, <1>t, <1>r, <2>2, NothingTracked DEF promoteImported, TrackTyped
  <2> QED BY <2>1, <2>2
<1>12. ASSUME NEW a \in Discography, NEW st \in {"wanted", "ignored"}, SetAlbumStatus(a, st) PROVE TrackTyped'
  <2>1. st \in AlbumStatuses \ {"none"}
    BY DEF AlbumStatuses
  <2>2. albums' \in [Discography -> AlbumRows] /\ Tracked' = Tracked
    BY <1>12, <2>1, AlbumEdits DEF SetAlbumStatus
  <2> QED BY <1>12, <1>t, <2>2 DEF SetAlbumStatus, Edit, TrackTyped
<1>13. ASSUME NEW a \in Discography, NEW on \in BOOLEAN, SetAlbumMonitored(a, on) PROVE TrackTyped'
  <2>1. albums' \in [Discography -> AlbumRows] /\ Tracked' = Tracked
    BY <1>13, AlbumEdits DEF SetAlbumMonitored
  <2> QED BY <1>13, <1>t, <2>1 DEF SetAlbumMonitored, Edit, TrackTyped
<1>14. ASSUME NEW on \in BOOLEAN, NEW m \in {"all", "future", "none"}, SetArtistMonitor(on, m) PROVE TrackTyped'
  <2>1. [artist EXCEPT !.monitored = TRUE, !.mode = m] \in Artists /\ [artist EXCEPT !.monitored = FALSE, !.mode = m] \in Artists
    BY <1>t DEF Artists
  <2>2. (on /\ m # "none") \in BOOLEAN
    OBVIOUS
  <2>3. artist' \in Artists /\ artist'.there = artist.there
    BY <1>14, <1>t, <2>1, <2>2 DEF SetArtistMonitor, Artists
  <2>4. [NoRecompute EXCEPT !.at = "list"] \in Recomputes
    BY NothingTracked DEF Recomputes
  <2> QED BY <1>14, <1>t, <1>r, <2>3, <2>4 DEF SetArtistMonitor, Edit, TrackTyped
<1>15. CASE recomputeList
  <2>1. \A a \in Discography : desiredMonitored(artist, a) \in BOOLEAN
    BY DEF desiredMonitored
  <2>2. PICK differ \in SUBSET Discography :
           recompute' = IF differ = {} THEN NoRecompute
                        ELSE [at |-> "write", wanted |-> [a \in Discography |-> desiredMonitored(artist, a)], todo |-> differ]
    BY <1>15 DEF recomputeList, Tracked
  <2>3. recompute' \in Recomputes
    BY <2>1, <2>2, NothingTracked DEF Recomputes
  <2> QED BY <1>15, <1>t, <1>r, <2>3 DEF recomputeList, TrackTyped
<1>16. ASSUME NEW a \in Discography, recomputeArtistAlbums(a) PROVE TrackTyped'
  <2>1. recompute.wanted[a] \in BOOLEAN /\ [recompute EXCEPT !.todo = @ \ {a}] \in Recomputes
    BY <1>t DEF Recomputes
  <2>2. albums' \in [Discography -> AlbumRows] /\ Tracked' = Tracked
    BY <1>16, <2>1, AlbumEdits DEF recomputeArtistAlbums
  <2>3. recompute' \in Recomputes
    BY <1>16, <2>1, NothingTracked DEF recomputeArtistAlbums
  <2> QED BY <1>16, <1>t, <2>2, <2>3 DEF recomputeArtistAlbums, TrackTyped
<1>17. CASE DeleteTrackedArtist
  <2>1. Tracked' = {} /\ albums' \in [Discography -> AlbumRows]
    BY <1>17, NothingTracked DEF DeleteTrackedArtist, Tracked
  <2> QED BY <1>17, <1>t, <2>1, NothingTracked DEF DeleteTrackedArtist, Edit, TrackTyped
<1> QED BY <1>1, <1>2, <1>3, <1>4, <1>5, <1>6, <1>7, <1>8, <1>9, <1>10, <1>11, <1>12, <1>13, <1>14,
           <1>15, <1>16, <1>17 DEF TrackNext

LEMMA TrackTypedHolds == ServicesSpec => []TrackTyped
<1>1. ServicesInit => TrackTyped
  <2> SUFFICES ASSUME TrackInit PROVE TrackTyped
    BY DEF ServicesInit
  <2> QED BY TrackAssumption, NothingTracked DEF TrackInit, TrackTyped, Tracked
<1>2. TrackTyped /\ [ServicesNext]_<<scene, services>> => TrackTyped'
  <2> SUFFICES ASSUME TrackTyped, [TrackNext]_trackVars PROVE TrackTyped'
    BY ScenesAreSteps
  <2>1. CASE UNCHANGED trackVars
    BY <2>1 DEF trackVars, TrackTyped, Tracked
  <2> QED BY <2>1, TrackSteps
<1> QED BY <1>1, <1>2, PTL DEF ServicesSpec

\* A refresh or an import that writes a row it read before takes nothing back: a
\* downloaded or ignored album, a toggle and a link survive it
\* (tracking/service.go reconcileAlbum, store.go UpsertTrackedAlbum).
THEOREM TrackingForwardOnly == ServicesSpec => ForwardOnly
<1> DEFINE Forward ==
      \A a \in Tracked :
        (refresh.at = "write" /\ refresh' # refresh) \/ (linker.at = "write" /\ linker' # linker) =>
           /\ albums[a].status \in {"downloaded", "ignored"} => albums'[a].status = albums[a].status
           /\ albums'[a].monitored = albums[a].monitored
           /\ albums[a].link => albums'[a].link
<1>1. TrackTyped /\ [ServicesNext]_<<scene, services>> => [Forward]_trackVars
  <2> SUFFICES ASSUME TrackTyped, TrackNext PROVE Forward
    BY ScenesAreSteps
  <2>1. CASE WriteAlbum
    <3>1. Reconciled(refresh.album) \in AlbumRows
      BY ReconciledRow
    <3>2. CASE artist.there
      BY <2>1, <3>1, <3>2, Upserts DEF WriteAlbum
    <3>3. CASE ~artist.there
      BY <2>1, <3>3 DEF WriteAlbum
    <3> QED BY <3>2, <3>3
  <2>2. CASE promoteImported
    <3>1. [linker.row EXCEPT !.status = "downloaded", !.link = TRUE, !.searched = 0] \in AlbumRows
      BY PromotedRow
    <3>2. CASE artist.there
      BY <2>2, <3>1, <3>2, Upserts DEF promoteImported
    <3>3. CASE ~artist.there
      BY <2>2, <3>3 DEF promoteImported
    <3> QED BY <3>2, <3>3
  <2>3. ASSUME refresh' = refresh \/ refresh.at # "write", linker' = linker \/ linker.at # "write" PROVE Forward
    BY <2>3
  <2> QED BY <2>1, <2>2, <2>3 DEF TrackNext, BeginRefresh, ReadArtist, downloadIndex, requeueStalled, searchBatch,
          MarkDownloading, markAlbumSearched, recomputeList, DeleteTrackedArtist, ReadAlbum, processWanted,
          DownloadExhausted, LinkImportedAlbum, recomputeArtistAlbums, SetAlbumStatus, SetAlbumMonitored, SetArtistMonitor
<1> QED BY <1>1, TrackTypedHolds, PTL DEF ServicesSpec, ForwardOnly

----------------------------------------------------------------------------
(* The settings *)

\* What the settings keep is never a secret shown as stars; what a page shows
\* or sends as stars is long enough to be taken for such.
Stored == [secret : [len : Nat, hidden : {FALSE}], own : BOOLEAN]
Masked(section) == section.secret.hidden => isMaskedString(section.secret)
Shown == {x \in [secret : [len : Nat, hidden : BOOLEAN], own : BOOLEAN] : Masked(x)}

ConfigOk(c) ==
  /\ c = [path |-> c.path, sources |-> c.sources, order |-> c.order]
  /\ c.path \in Paths /\ c.sources \in [Plugins -> Stored]
PartOk(part) ==
  /\ part.path \in Paths \cup {NoPath} /\ DOMAIN part.sources \subseteq Plugins
  /\ \A p \in DOMAIN part.sources : part.sources[p] \in Shown
ViewOk(v) == v.path \in Paths /\ v.sources \in [Plugins -> Shown]

SaverOk(f) ==
  \/ f = NoForm
  \/ f = [at |-> "form", view |-> f.view] /\ ViewOk(f.view)
  \/ f = [at |-> "tried", part |-> f.part, old |-> f.old] /\ PartOk(f.part)
  \/ f = [at |-> "saved", old |-> f.old]
  \/ /\ f = [at |-> f.at, updated |-> f.updated, built |-> f.built, todo |-> f.todo]
     /\ f.at \in {"rebuild", "order"} /\ ConfigOk(f.updated)
     /\ f.built \subseteq Plugins /\ f.todo \subseteq Plugins
     /\ f.at = "order" => f.todo = {}

Busy(f) == f.at \notin {"away", "form"}

SettingsTyped ==
  /\ ConfigOk(settings) /\ ConfigOk(file)
  /\ ValidateConfig(settings) /\ ValidateConfig(file)
  /\ registered \in [Plugins -> [section : Stored, number : Nat \ {0}]]
  /\ saver = [s \in Savers |-> saver[s]]
  /\ \A s \in Savers : SaverOk(saver[s])
  /\ raced \in BOOLEAN
  /\ \A p \in Plugins : settings.sources[p].secret = typed[p]

\* What the one save under way has still to bring to the plugins.
Rebuilds(f) ==
  IF f.at \in {"rebuild", "order"} THEN f.todo ELSE {p \in Plugins : settings.sources[p] # f.old[p]}
Underway(f) ==
  /\ f.at = "tried" => f.old = settings.sources
  /\ f.at \in {"rebuild", "order"} => f.updated.sources = settings.sources
  /\ \A p \in Plugins \ Rebuilds(f) : registered[p].section = settings.sources[p]

\* While saves do not overlap and nothing fails, at most one is under way, and
\* the plugins are as the settings say but for those it has still to rebuild.
SavedAlone == ~raced =>
  /\ file = settings
  /\ \A s, t \in Savers : Busy(saver[s]) /\ Busy(saver[t]) => s = t
  /\ \A s \in Savers : Busy(saver[s]) => Underway(saver[s])
  /\ NoSaver => \A p \in Plugins : registered[p].section = settings.sources[p]

\* A plugin that was asked about is answered for, or its probe is still to come:
\* in the first round, in the channel, before the request of a save that has
\* rebuilt it, or in the checker's round, which has not begun it too early.
Expected(p) ==
  \/ checks = 0
  \/ wake # <<>> /\ p \in wake[1]
  \/ \E s \in Savers : saver[s].at = "rebuild" /\ p \in saver[s].built
  \/ /\ p \in prober.todo
     /\ prober.probed # 0 /\ prober.name = p => prober.probed = registered[p].number
Answered(p) == status[p] = registered[p].number \/ Expected(p)

CheckerInv ==
  /\ checks \in Nat
  /\ wake = <<>> \/ \E w \in SUBSET Plugins : wake = <<w>>
  /\ prober.todo \subseteq Plugins /\ prober.probed \in Nat
  /\ prober.probed # 0 => /\ prober.name \in Plugins
                          /\ status[prober.name] <= prober.probed
                          /\ prober.probed <= registered[prober.name].number
  /\ status \in [Plugins -> Nat]
  /\ \A p \in Plugins : status[p] <= registered[p].number
  /\ asked \subseteq Plugins /\ \A p \in asked : Answered(p)

SettingsInv == SettingsTyped /\ SavedAlone /\ CheckerInv

\* A merge changes no secret but to one that was typed.
LEMMA MergeKeepsSecrets ==
  ASSUME NEW c, NEW part, ConfigOk(c), PartOk(part)
  PROVE  /\ ConfigOk(Merge(c, part))
         /\ \A p \in Plugins : Merge(c, part).sources[p].secret =
              IF p \in DOMAIN part.sources /\ ~part.sources[p].secret.hidden
              THEN part.sources[p].secret ELSE c.sources[p].secret
<1> DEFINE now(p) == IF p \in DOMAIN part.sources
                     THEN mergeJSONPreservingSecrets(c.sources[p], part.sources[p]) ELSE c.sources[p]
<1> DEFINE dir == IF part.path = NoPath THEN c.path ELSE part.path
<1>0. c.path \in Paths /\ c.sources \in [Plugins -> Stored]
  BY DEF ConfigOk
<1>1. ASSUME NEW p \in Plugins
      PROVE  /\ now(p) \in Stored
             /\ now(p).secret = IF p \in DOMAIN part.sources /\ ~part.sources[p].secret.hidden
                                THEN part.sources[p].secret ELSE c.sources[p].secret
  <2>1. PICK x \in Stored : x = c.sources[p]
    BY <1>0
  <2>2. CASE p \in DOMAIN part.sources
    <3>1. PICK y \in Shown : y = part.sources[p]
      BY <2>2 DEF PartOk
    <3>2. CASE isMaskedString(y.secret)
      <4>1. y.secret.hidden
        BY <3>2 DEF isMaskedString
      <4>2. [y EXCEPT !.secret = x.secret] \in Stored /\ [y EXCEPT !.secret = x.secret].secret = x.secret
        BY DEF Shown, Stored
      <4> QED
        BY <2>1, <2>2, <3>1, <3>2, <4>1, <4>2 DEF mergeJSONPreservingSecrets
    <3>3. CASE ~isMaskedString(y.secret)
      <4>1. ~y.secret.hidden
        BY <3>3 DEF Shown, Masked
      <4>2. y \in Stored
        BY <4>1 DEF Shown, Stored
      <4> QED
        BY <2>1, <2>2, <3>1, <3>3, <4>1, <4>2 DEF mergeJSONPreservingSecrets
    <3> QED
      BY <3>2, <3>3
  <2>3. CASE p \notin DOMAIN part.sources
    BY <2>1, <2>3
  <2> QED
    BY <2>2, <2>3
<1>2. Merge(c, part) = [path |-> dir, sources |-> [p \in Plugins |-> now(p)], order |-> c.order]
  <2>1. PICK d, x, o : c = [path |-> d, sources |-> x, order |-> o]
    BY DEF ConfigOk
  <2>2. PICK n : n = [p \in Plugins |-> now(p)]
    OBVIOUS
  <2>3. Merge(c, part) = [c EXCEPT !.path = dir, !.sources = n]
    BY <2>1, <2>2 DEF Merge
  <2>4. [c EXCEPT !.path = dir, !.sources = n] = [path |-> dir, sources |-> n, order |-> o]
    <3>1. PICK q : q = dir
      OBVIOUS
    <3>2. PICK g : g = [path |-> q, sources |-> x, order |-> o]
      OBVIOUS
    <3>3. [c EXCEPT !.path = q] = g
      BY <2>1, <3>2
    <3>4. [g EXCEPT !.sources = n] = [path |-> q, sources |-> n, order |-> o]
      BY <3>2
    <3>5. [c EXCEPT !.path = q, !.sources = n] = [[c EXCEPT !.path = q] EXCEPT !.sources = n]
      OBVIOUS
    <3> QED
      BY <3>1, <3>3, <3>4, <3>5
  <2> QED
    BY <2>1, <2>2, <2>3, <2>4
<1>3. dir \in Paths
  BY <1>0 DEF PartOk
<1> HIDE DEF now, dir
<1> QED
  BY <1>1, <1>2, <1>3 DEF ConfigOk

\* What is written and kept passes the validation that the merged settings did.
LEMMA Written ==
  ASSUME NEW c, ConfigOk(c), ConfigOk(settings), ConfigOk(file), ValidateConfig(c),
         ValidateConfig(file), Save(c)
  PROVE  /\ ConfigOk(settings') /\ ValidateConfig(settings') /\ settings'.sources = c.sources
         /\ ConfigOk(file') /\ ValidateConfig(file')
<1>1. PICK path \in Paths : /\ path = contractPaths(c.path, settings.path)
                            /\ path = "inside" => c.path = "inside"
  BY DEF contractPaths, ConfigOk, Paths
<1>2. settings' = [path |-> path, sources |-> c.sources, order |-> c.order] /\ file' \in {settings', file}
  BY <1>1 DEF Save, ConfigOk
<1>3. ConfigOk(settings') /\ ValidateConfig(settings') /\ settings'.sources = c.sources
  BY <1>1, <1>2 DEF ConfigOk, ValidateConfig
<1> QED
  BY <1>2, <1>3

\* A page shows no secret but as stars, and sends back those or a typed one.
LEMMA Views ==
  ASSUME NEW c, ConfigOk(c)
  PROVE  ViewOk(MaskOf(c))
<1>1. ASSUME NEW p \in Plugins
      PROVE  [c.sources[p] EXCEPT !.secret = maskSecretString(@)] \in Shown
  <2>1. PICK x \in Stored : x = c.sources[p]
    BY DEF ConfigOk
  <2>2. PICK z \in [len : Nat, hidden : {FALSE}] : z = x.secret
    BY DEF Stored
  <2>3. PICK y \in [len : Nat, hidden : BOOLEAN] : /\ y = maskSecretString(z)
                                                   /\ y.hidden => y.len >= 5
    <3>1. z.len \in Nat /\ z.hidden = FALSE
      OBVIOUS
    <3>2. CASE z.len = 0
      BY <3>1, <3>2 DEF maskSecretString
    <3>3. PICK n \in Nat : n = (IF z.len > 4 THEN z.len ELSE 8) /\ n >= 5
      BY <3>1
    <3>4. CASE z.len # 0
      <4>1. maskSecretString(z) = [len |-> n, hidden |-> TRUE]
        BY <3>3, <3>4 DEF maskSecretString
      <4>2. [len |-> n, hidden |-> TRUE] \in [len : Nat, hidden : BOOLEAN]
        OBVIOUS
      <4>3. [len |-> n, hidden |-> TRUE].len = n
        OBVIOUS
      <4> QED
        BY <3>3, <4>1, <4>2, <4>3
    <3> QED
      BY <3>2, <3>4
  <2> QED
    BY <2>1, <2>2, <2>3 DEF Stored, Shown, Masked, isMaskedString
<1> QED
  BY <1>1 DEF ViewOk, MaskOf, ConfigOk, Paths, expandPaths

LEMMA Sent ==
  ASSUME NEW v, ViewOk(v), NEW part \in Partials(v)
  PROVE  PartOk(part)
<1>1. CASE part \in [path : {NoPath, v.path, "inside"}, sources : {<< >>}]
  <2>1. part.sources = << >> /\ part.path \in Paths \cup {NoPath}
    BY <1>1 DEF ViewOk, Paths
  <2> QED
    BY <2>1 DEF PartOk
<1>2. ASSUME NEW q \in Plugins,
             part \in [path : {NoPath, v.path}, sources : [{q} -> Edited(v.sources[q])]]
      PROVE  PartOk(part)
  <2>1. PICK y \in Shown : y = v.sources[q]
    BY DEF ViewOk
  <2>2. ASSUME NEW e \in Edited(y)
        PROVE  e \in Shown
    <3>1. PICK x : e \in [secret : {x}, own : BOOLEAN] /\ (x = y.secret \/ \E n \in SecretLengths : x = Secret(n))
      BY <2>2 DEF Edited
    <3>2. x \in [len : Nat, hidden : BOOLEAN] /\ (x.hidden => isMaskedString(x))
      <4>1. CASE x = y.secret
        BY <4>1 DEF Shown, Masked
      <4>2. ASSUME NEW n \in SecretLengths, x = Secret(n)
            PROVE  x \in [len : Nat, hidden : BOOLEAN] /\ ~x.hidden
        BY <4>2, SettingsAssumption DEF Secret
      <4> QED
        BY <3>1, <4>1, <4>2
    <3>3. e \in [secret : [len : Nat, hidden : BOOLEAN], own : BOOLEAN] /\ e.secret = x
      BY <3>1, <3>2
    <3> QED
      BY <3>2, <3>3 DEF Shown, Masked
  <2>3. part.path \in {NoPath, v.path} /\ part.sources \in [{q} -> Edited(y)]
    BY <1>2, <2>1
  <2> QED
    BY <2>2, <2>3 DEF PartOk, ViewOk
<1> QED
  BY <1>1, <1>2 DEF Partials

LEMMA SaverMoves ==
  ASSUME SettingsTyped, NEW s \in Savers, NEW g, SaverOk(g), saver' = [saver EXCEPT ![s] = g]
  PROVE  /\ saver' = [x \in Savers |-> saver'[x]] /\ \A x \in Savers : SaverOk(saver'[x])
         /\ saver'[s] = g /\ \A x \in Savers : x # s => saver'[x] = saver[x]
<1>1. saver = [x \in Savers |-> saver[x]] /\ \A x \in Savers : SaverOk(saver[x])
  BY DEF SettingsTyped
<1>2. saver' = [x \in Savers |-> IF x = s THEN g ELSE saver[x]]
  BY <1>1
<1> QED
  BY <1>1, <1>2

\* The positions of a saver and what it has there.
LEMMA SaverHas ==
  ASSUME SettingsTyped, NEW s \in Savers
  PROVE  /\ saver[s].at = "form" => ViewOk(saver[s].view)
         /\ saver[s].at = "tried" => PartOk(saver[s].part)
         /\ saver[s].at \in {"rebuild", "order"} =>
              /\ ConfigOk(saver[s].updated) /\ saver[s].built \subseteq Plugins
              /\ saver[s].todo \subseteq Plugins
              /\ \A r, d : /\ [saver[s] EXCEPT !.todo = r].at = saver[s].at
                           /\ [saver[s] EXCEPT !.todo = r, !.built = d].at = saver[s].at
         /\ saver[s].at = "order" => saver[s].todo = {}
         /\ saver[s].at \in {"away", "form", "tried", "saved", "rebuild", "order"}
<1>1. SaverOk(saver[s])
  BY DEF SettingsTyped
<1>2. PICK f : f = saver[s]
  OBVIOUS
<1>3. SaverOk(f)
  BY <1>1, <1>2
<1>4. CASE f = NoForm
  BY <1>2, <1>4 DEF NoForm
<1>5. CASE f = [at |-> "form", view |-> f.view] /\ ViewOk(f.view)
  BY <1>2, <1>5
<1>6. CASE f = [at |-> "tried", part |-> f.part, old |-> f.old] /\ PartOk(f.part)
  BY <1>2, <1>6
<1>7. CASE f = [at |-> "saved", old |-> f.old]
  BY <1>2, <1>7
<1>8. CASE /\ f = [at |-> f.at, updated |-> f.updated, built |-> f.built, todo |-> f.todo]
           /\ f.at \in {"rebuild", "order"} /\ ConfigOk(f.updated)
           /\ f.built \subseteq Plugins /\ f.todo \subseteq Plugins
           /\ f.at = "order" => f.todo = {}
  BY <1>2, <1>8
<1> QED
  BY <1>3, <1>4, <1>5, <1>6, <1>7, <1>8 DEF SaverOk

LEMMA Rebuilding ==
  ASSUME NEW f, SaverOk(f), f.at \in {"rebuild", "order"}
  PROVE  /\ f = [at |-> f.at, updated |-> f.updated, built |-> f.built, todo |-> f.todo]
         /\ ConfigOk(f.updated) /\ f.built \subseteq Plugins /\ f.todo \subseteq Plugins
<1>1. f # NoForm
  BY DEF NoForm
<1>2. f # [at |-> "form", view |-> f.view]
  OBVIOUS
<1>3. f # [at |-> "tried", part |-> f.part, old |-> f.old]
  OBVIOUS
<1>4. f # [at |-> "saved", old |-> f.old]
  OBVIOUS
<1> QED
  BY <1>1, <1>2, <1>3, <1>4, Zenon DEF SaverOk

LEMMA RebuildMoves ==
  ASSUME SettingsTyped, NEW s \in Savers, NEW p \in Plugins, Rebuild(s, p)
  PROVE  /\ saver' = [saver EXCEPT ![s] = saver'[s]] /\ SaverOk(saver'[s])
         /\ saver'[s].at = "rebuild" /\ saver'[s].updated = saver[s].updated
         /\ ConfigOk(saver[s].updated)
         /\ saver'[s].todo = saver[s].todo \ {p}
         /\ \/ saver'[s].built = saver[s].built \cup {p}
            \/ saver'[s].built = saver[s].built /\ UNCHANGED registered
<1>1. PICK f : f = saver[s] /\ f.at = "rebuild"
  BY DEF Rebuild
<1>2. /\ f = [at |-> "rebuild", updated |-> f.updated, built |-> f.built, todo |-> f.todo]
      /\ ConfigOk(f.updated) /\ f.built \subseteq Plugins /\ f.todo \subseteq Plugins
  <2>1. SaverOk(f)
    BY <1>1 DEF SettingsTyped
  <2> QED
    BY <1>1, <2>1, Rebuilding
<1>3. PICK g, now :
               /\ g = [at |-> "rebuild", updated |-> f.updated, built |-> now, todo |-> f.todo \ {p}]
               /\ now = f.built \cup {p} \/ (now = f.built /\ UNCHANGED registered)
               /\ saver' = [saver EXCEPT ![s] = g]
  <2>0. PICK u, b, d : f = [at |-> "rebuild", updated |-> u, built |-> b, todo |-> d]
    BY <1>2
  <2>1. PICK x, y : x = d \ {p} /\ y = b \cup {p}
    OBVIOUS
  <2>4. /\ [f EXCEPT !.todo = f.todo \ {p}] =
             [at |-> "rebuild", updated |-> u, built |-> b, todo |-> x]
        /\ [f EXCEPT !.todo = f.todo \ {p}, !.built = f.built \cup {p}] =
             [at |-> "rebuild", updated |-> u, built |-> y, todo |-> x]
    <3>1. f.todo \ {p} = x /\ f.built \cup {p} = y
      BY <2>0, <2>1
    <3>2. /\ [f EXCEPT !.todo = x] = [at |-> "rebuild", updated |-> u, built |-> b, todo |-> x]
          /\ [f EXCEPT !.todo = x, !.built = y] =
               [at |-> "rebuild", updated |-> u, built |-> y, todo |-> x]
      <4>1. PICK h : h = [at |-> "rebuild", updated |-> u, built |-> b, todo |-> x]
        OBVIOUS
      <4>2. [f EXCEPT !.todo = x] = h
        BY <2>0, <4>1
      <4>3. [h EXCEPT !.built = y] = [at |-> "rebuild", updated |-> u, built |-> y, todo |-> x]
        BY <4>1
      <4>4. [f EXCEPT !.todo = x, !.built = y] = [[f EXCEPT !.todo = x] EXCEPT !.built = y]
        OBVIOUS
      <4> QED
        BY <4>1, <4>2, <4>3, <4>4
    <3> QED
      BY <3>1, <3>2
  <2>2. \/ saver' = [saver EXCEPT ![s] = [f EXCEPT !.todo = f.todo \ {p}, !.built = f.built \cup {p}]]
        \/ UNCHANGED registered /\ saver' = [saver EXCEPT ![s] = [f EXCEPT !.todo = f.todo \ {p}]]
    BY <1>1 DEF Rebuild
  <2>3. f.updated = u /\ f.built = b /\ f.todo = d
    BY <2>0
  <2>5. CASE saver' = [saver EXCEPT ![s] = [f EXCEPT !.todo = f.todo \ {p}, !.built = f.built \cup {p}]]
    BY <2>1, <2>3, <2>4, <2>5
  <2>6. CASE UNCHANGED registered /\ saver' = [saver EXCEPT ![s] = [f EXCEPT !.todo = f.todo \ {p}]]
    BY <2>1, <2>3, <2>4, <2>6
  <2> QED
    BY <2>2, <2>5, <2>6
<1>4. SaverOk(g)
  BY <1>2, <1>3 DEF SaverOk
<1>5. saver'[s] = g
  BY <1>3 DEF SettingsTyped
<1>6. g.at = "rebuild" /\ g.updated = f.updated /\ g.built = now /\ g.todo = f.todo \ {p}
  BY <1>3
<1>7. saver' = [saver EXCEPT ![s] = saver'[s]] /\ SaverOk(saver'[s])
  BY <1>3, <1>4, <1>5
<1> QED
  BY <1>1, <1>2, <1>3, <1>5, <1>6, <1>7

LEMMA RequestMoves ==
  ASSUME SettingsTyped, NEW s \in Savers, RequestCheck(s)
  PROVE  /\ saver' = [saver EXCEPT ![s] = saver'[s]] /\ SaverOk(saver'[s])
         /\ saver'[s].at = "order" /\ saver'[s].updated = saver[s].updated
         /\ saver'[s].todo = {}
<1>1. PICK f : f = saver[s] /\ f.at = "rebuild" /\ f.todo = {}
  BY DEF RequestCheck
<1>2. /\ f = [at |-> "rebuild", updated |-> f.updated, built |-> f.built, todo |-> f.todo]
      /\ ConfigOk(f.updated) /\ f.built \subseteq Plugins
  <2>1. SaverOk(f)
    BY <1>1 DEF SettingsTyped
  <2> QED
    BY <1>1, <2>1, Rebuilding
<1>3. PICK g : /\ g = [at |-> "order", updated |-> f.updated, built |-> f.built, todo |-> f.todo]
               /\ saver' = [saver EXCEPT ![s] = g]
  <2>1. PICK u, b, d : f = [at |-> "rebuild", updated |-> u, built |-> b, todo |-> d]
    BY <1>2
  <2>2. [f EXCEPT !.at = "order"] = [at |-> "order", updated |-> u, built |-> b, todo |-> d]
    BY <2>1
  <2>3. saver' = [saver EXCEPT ![s] = [f EXCEPT !.at = "order"]]
    BY <1>1 DEF RequestCheck
  <2> QED
    BY <2>1, <2>2, <2>3
<1>4. SaverOk(g)
  BY <1>1, <1>2, <1>3 DEF SaverOk
<1> QED
  BY <1>1, <1>2, <1>3, <1>4, SaverMoves, ZenonT(40)

LEMMA SettingsTypedStep ==
  ASSUME SettingsTyped, SettingsNext
  PROVE  SettingsTyped'
<1> USE DEF SettingsTyped
<1>1. ASSUME NEW s \in Savers, GetConfig(s)
      PROVE  SettingsTyped'
  <2>1. PICK v : v = MaskOf(settings) /\ ViewOk(v)
    BY Views
  <2>2. PICK g : g = [at |-> "form", view |-> v]
    OBVIOUS
  <2>3. SaverOk(g)
    BY <2>1, <2>2 DEF SaverOk
  <2> QED
    BY <1>1, <2>1, <2>2, <2>3, SaverMoves DEF GetConfig
<1>2. ASSUME NEW s \in Savers, SnapshotAndTry(s)
      PROVE  SettingsTyped'
  <2>1. ViewOk(saver[s].view) /\ saver[s].at = "form"
    BY <1>2, SaverHas DEF SnapshotAndTry
  <2>2. PICK part, g :
           /\ part \in Partials(saver[s].view)
           /\ g = NoForm \/ g = [at |-> "tried", part |-> part, old |-> settings.sources]
           /\ saver' = [saver EXCEPT ![s] = g]
    BY <1>2 DEF SnapshotAndTry
  <2>3. SaverOk(g)
    <3>1. PartOk(part)
      BY <2>1, <2>2, Sent
    <3> QED
      BY <2>2, <3>1 DEF SaverOk
  <2>4. raced' \in BOOLEAN
    BY <1>2 DEF SnapshotAndTry
  <2> QED
    BY <1>2, <2>2, <2>3, <2>4, SaverMoves DEF SnapshotAndTry
<1>3. ASSUME NEW s \in Savers, MergeAndSave(s)
      PROVE  SettingsTyped'
  <2>1. PICK part : part = saver[s].part /\ PartOk(part)
    BY <1>3, SaverHas DEF MergeAndSave
  <2>2. PICK c : c = Merge(settings, part)
    OBVIOUS
  <2>3. /\ ConfigOk(c)
        /\ \A p \in Plugins : c.sources[p].secret =
             IF p \in DOMAIN part.sources /\ ~part.sources[p].secret.hidden
             THEN part.sources[p].secret ELSE settings.sources[p].secret
    BY <2>1, <2>2, MergeKeepsSecrets
  <2>4. PICK g : SaverOk(g) /\ saver' = [saver EXCEPT ![s] = g]
    <3>1. SaverOk(NoForm) /\ SaverOk([at |-> "saved", old |-> saver[s].old])
      BY DEF SaverOk
    <3> QED
      BY <1>3, <3>1 DEF MergeAndSave
  <2>5. saver' = [x \in Savers |-> saver'[x]] /\ \A x \in Savers : SaverOk(saver'[x])
    BY <2>4, SaverMoves
  <2>6. CASE ~ValidateConfig(c)
    BY <1>3, <2>1, <2>2, <2>5, <2>6 DEF MergeAndSave
  <2>7. CASE ValidateConfig(c)
    <3>1. Save(c) /\ typed' = TypedIn(part) /\ raced' = (raced \/ file' # settings') /\ UNCHANGED registered
      BY <1>3, <2>1, <2>2, <2>7 DEF MergeAndSave
    <3>2. /\ ConfigOk(settings') /\ ValidateConfig(settings') /\ settings'.sources = c.sources
          /\ ConfigOk(file') /\ ValidateConfig(file')
      BY <2>3, <2>7, <3>1, Written
    <3>3. \A p \in Plugins : settings'.sources[p].secret = typed'[p]
      BY <2>3, <3>1, <3>2 DEF TypedIn
    <3>4. raced' \in BOOLEAN
      BY <3>1
    <3> QED
      BY <2>5, <3>1, <3>2, <3>3, <3>4
  <2> QED
    BY <2>6, <2>7
<1>4. ASSUME NEW s \in Savers, ReadUpdated(s)
      PROVE  SettingsTyped'
  <2>1. PICK g : /\ g = [at |-> "rebuild", updated |-> settings, built |-> {},
                         todo |-> {p \in Plugins : settings.sources[p] # saver[s].old[p]}]
                 /\ saver' = [saver EXCEPT ![s] = g]
    BY <1>4 DEF ReadUpdated
  <2>2. SaverOk(g)
    BY <2>1 DEF SaverOk
  <2> QED
    BY <1>4, <2>1, <2>2, SaverMoves DEF ReadUpdated
<1>5. ASSUME NEW s \in Savers, NEW p \in Plugins, Rebuild(s, p)
      PROVE  SettingsTyped'
  <2>1. SaverOk(saver'[s]) /\ saver' = [saver EXCEPT ![s] = saver'[s]] /\ ConfigOk(saver[s].updated)
    BY <1>5, RebuildMoves
  <2>2. saver' = [x \in Savers |-> saver'[x]] /\ \A x \in Savers : SaverOk(saver'[x])
    BY <2>1, SaverMoves
  <2>5. registered' \in [Plugins -> [section : Stored, number : Nat \ {0}]]
    <3>1. PICK old \in [section : Stored, number : Nat \ {0}] : old = registered[p]
      OBVIOUS
    <3>2. PICK x \in Stored : x = saver[s].updated.sources[p]
      BY <2>1 DEF ConfigOk
    <3> QED
      BY <1>5, <3>1, <3>2 DEF Rebuild
  <2>6. raced' \in BOOLEAN
    BY <1>5 DEF Rebuild
  <2> QED
    BY <1>5, <2>2, <2>5, <2>6 DEF Rebuild
<1>6. ASSUME NEW s \in Savers, RequestCheck(s)
      PROVE  SettingsTyped'
  <2>1. SaverOk(saver'[s]) /\ saver' = [saver EXCEPT ![s] = saver'[s]]
    BY <1>6, RequestMoves
  <2>2. saver' = [x \in Savers |-> saver'[x]] /\ \A x \in Savers : SaverOk(saver'[x])
    BY <2>1, SaverMoves
  <2> QED
    BY <1>6, <2>2 DEF RequestCheck
<1>7. ASSUME NEW s \in Savers, SyncOrder(s)
      PROVE  SettingsTyped'
  <2>1. SaverOk(NoForm) /\ saver' = [saver EXCEPT ![s] = NoForm] /\ UNCHANGED <<registered, typed>>
    BY <1>7 DEF SyncOrder, SaverOk
  <2>2. PICK c : c = [settings EXCEPT !.order = connectedNames(saver[s].updated.order)]
    OBVIOUS
  <2>3. ConfigOk(c) /\ ValidateConfig(c) /\ c.sources = settings.sources
    BY <2>2 DEF ConfigOk, ValidateConfig
  <2>4. \/ UNCHANGED <<settings, file, raced>>
        \/ Save(c) /\ raced' = (raced \/ file' # settings')
    BY <1>7, <2>2 DEF SyncOrder
  <2>5. /\ ConfigOk(settings') /\ ValidateConfig(settings') /\ settings'.sources = settings.sources
        /\ ConfigOk(file') /\ ValidateConfig(file') /\ raced' \in BOOLEAN
    BY <2>3, <2>4, Written
  <2> QED
    BY <2>1, <2>5, SaverMoves
<1>8. CASE TakeWake \/ CheckNow \/ ProbeAnswers \/ \E p \in Plugins : BeginProbe(p) \/ SkipProbe(p)
  BY <1>8 DEF TakeWake, CheckNow, ProbeAnswers, BeginProbe, SkipProbe
<1>9. CASE Restart
  <2>1. registered' = [p \in Plugins |-> [section |-> file.sources[p], number |-> registered[p].number + 1]]
    BY <1>9 DEF Restart, InitAll
  <2>2. registered' \in [Plugins -> [section : Stored, number : Nat \ {0}]]
    BY <2>1 DEF ConfigOk
  <2>3. saver' = [s \in Savers |-> NoForm] /\ SaverOk(NoForm)
    BY <1>9 DEF Restart, SaverOk
  <2> QED
    BY <1>9, <2>2, <2>3 DEF Restart
<1> QED
  BY <1>1, <1>2, <1>3, <1>4, <1>5, <1>6, <1>7, <1>8, <1>9 DEF SettingsNext
\* The save under way is the only one before and after its step.
LEMMA AloneMoves ==
  ASSUME SettingsTyped, file' = settings', NEW s \in Savers, NEW g, SaverOk(g),
         saver' = [saver EXCEPT ![s] = g],
         \A t \in Savers : t # s => ~Busy(saver[t]),
         Busy(g) => Underway(g)',
         ~Busy(g) => \A p \in Plugins : registered'[p].section = settings'.sources[p]
  PROVE  SavedAlone'
<1>1. saver'[s] = g /\ \A t \in Savers : t # s => saver'[t] = saver[t]
  BY SaverMoves
<1>2. \A t \in Savers : Busy(saver[t])' => t = s /\ Busy(g)
  BY <1>1 DEF Busy
<1>3. NoSaver' => ~Busy(g)
  BY <1>1 DEF NoSaver, Busy
<1>4. \A t \in Savers : Busy(saver[t])' => Underway(saver[t])'
  BY <1>1, <1>2 DEF Underway, Rebuilds
<1> QED
  BY <1>2, <1>3, <1>4 DEF SavedAlone

LEMMA SavedAloneStep ==
  ASSUME SettingsTyped, SavedAlone, SettingsNext
  PROVE  SavedAlone'
<1> SUFFICES ASSUME ~raced' PROVE SavedAlone'
  BY DEF SavedAlone
<1>0. ASSUME ~raced, NEW s \in Savers, Busy(saver[s])
      PROVE  /\ file = settings /\ \A t \in Savers : t # s => ~Busy(saver[t])
             /\ Underway(saver[s])
  BY <1>0 DEF SavedAlone
<1>1. ASSUME NEW s \in Savers, GetConfig(s)
      PROVE  SavedAlone'
  <2>1. PICK g : g = [at |-> "form", view |-> MaskOf(settings)] /\ saver' = [saver EXCEPT ![s] = g]
    BY <1>1 DEF GetConfig
  <2>2. saver'[s] = g /\ \A t \in Savers : t # s => saver'[t] = saver[t]
    BY <2>1 DEF SettingsTyped
  <2>3. ~Busy(saver[s]) /\ ~Busy(saver[s])'
    BY <1>1, <2>1, <2>2 DEF GetConfig, Busy
  <2>4. /\ \A t \in Savers : Busy(saver[t])' => Busy(saver[t]) /\ saver'[t] = saver[t]
        /\ NoSaver' => NoSaver
    BY <2>2, <2>3 DEF Busy, NoSaver
  <2>5. ~raced /\ UNCHANGED <<settings, file, registered>>
    BY <1>1 DEF GetConfig
  <2>6. \A t \in Savers : Busy(saver[t])' => Underway(saver[t])'
    BY <2>4, <2>5 DEF Underway, Rebuilds, SavedAlone
  <2> QED
    BY <2>4, <2>5, <2>6 DEF SavedAlone
<1>2. ASSUME NEW s \in Savers, SnapshotAndTry(s)
      PROVE  SavedAlone'
  <2>1. /\ ~raced /\ \A t \in Savers : t # s => ~Busy(saver[t])
        /\ UNCHANGED <<settings, file, registered>>
    BY <1>2 DEF SnapshotAndTry, Busy
  <2>2. NoSaver /\ saver[s].at = "form"
    BY <1>2, <2>1 DEF SnapshotAndTry, Busy, NoSaver
  <2>3. file = settings /\ \A p \in Plugins : registered[p].section = settings.sources[p]
    BY <2>1, <2>2 DEF SavedAlone
  <2>4. PICK part, g :
           /\ part \in Partials(saver[s].view)
           /\ g = NoForm \/ g = [at |-> "tried", part |-> part, old |-> settings.sources]
           /\ saver' = [saver EXCEPT ![s] = g]
    BY <1>2 DEF SnapshotAndTry
  <2>5. SaverOk(g)
    <3>1. PartOk(part)
      BY <2>2, <2>4, Sent, SaverHas
    <3> QED
      BY <2>4, <3>1 DEF SaverOk
  <2>6. Busy(g) => Underway(g)'
    <3>1. CASE g = NoForm
      BY <3>1 DEF NoForm, Busy
    <3>2. CASE g = [at |-> "tried", part |-> part, old |-> settings.sources]
      BY <2>1, <2>3, <3>2 DEF Underway, Rebuilds
    <3> QED
      BY <2>4, <3>1, <3>2
  <2> QED
    BY <2>1, <2>3, <2>4, <2>5, <2>6, AloneMoves
<1>3. ASSUME NEW s \in Savers, MergeAndSave(s)
      PROVE  SavedAlone'
  <2>1. ~raced /\ saver[s].at = "tried" /\ UNCHANGED registered
    BY <1>3 DEF MergeAndSave
  <2>2. Busy(saver[s])
    BY <2>1 DEF Busy
  <2>3. /\ file = settings /\ \A t \in Savers : t # s => ~Busy(saver[t])
        /\ Underway(saver[s])
    BY <1>0, <2>1, <2>2
  <2>4. saver[s].old = settings.sources /\ \A p \in Plugins : registered[p].section = settings.sources[p]
    BY <2>1, <2>3 DEF Underway, Rebuilds
  <2>5. \/ saver' = [saver EXCEPT ![s] = NoForm] /\ UNCHANGED <<settings, file>>
        \/ /\ file' = settings'
           /\ saver' = [saver EXCEPT ![s] = [at |-> "saved", old |-> settings.sources]]
    BY <1>3, <2>4 DEF MergeAndSave
  <2>6. CASE saver' = [saver EXCEPT ![s] = NoForm] /\ UNCHANGED <<settings, file>>
    <3>1. SaverOk(NoForm) /\ ~Busy(NoForm)
      BY DEF SaverOk, Busy, NoForm
    <3> QED
      BY <2>1, <2>3, <2>4, <2>6, <3>1, AloneMoves
  <2>7. CASE /\ file' = settings'
             /\ saver' = [saver EXCEPT ![s] = [at |-> "saved", old |-> settings.sources]]
    <3>1. PICK g : g = [at |-> "saved", old |-> settings.sources]
      OBVIOUS
    <3>2. SaverOk(g) /\ Busy(g)
      BY <3>1 DEF SaverOk, Busy
    <3>3. Underway(g)'
      BY <2>1, <2>4, <3>1 DEF Underway, Rebuilds
    <3> QED
      BY <2>3, <2>7, <3>1, <3>2, <3>3, AloneMoves
  <2> QED
    BY <2>5, <2>6, <2>7
<1>4. ASSUME NEW s \in Savers, ReadUpdated(s)
      PROVE  SavedAlone'
  <2>1. ~raced /\ saver[s].at = "saved" /\ UNCHANGED <<settings, file, registered>>
    BY <1>4 DEF ReadUpdated
  <2>2. Busy(saver[s])
    BY <2>1 DEF Busy
  <2>3. /\ file = settings /\ \A t \in Savers : t # s => ~Busy(saver[t])
        /\ Underway(saver[s])
    BY <1>0, <2>1, <2>2
  <2>4. PICK g : /\ g = [at |-> "rebuild", updated |-> settings, built |-> {},
                         todo |-> {p \in Plugins : settings.sources[p] # saver[s].old[p]}]
                 /\ saver' = [saver EXCEPT ![s] = g]
    BY <1>4 DEF ReadUpdated
  <2>5. SaverOk(g) /\ Busy(g)
    BY <2>4 DEF SaverOk, Busy, SettingsTyped
  <2>6. Underway(g)'
    BY <2>1, <2>3, <2>4 DEF Underway, Rebuilds
  <2> QED
    BY <2>1, <2>3, <2>4, <2>5, <2>6, AloneMoves
<1>5. ASSUME NEW s \in Savers, NEW p \in Plugins, Rebuild(s, p)
      PROVE  SavedAlone'
  <2>1. ~raced /\ saver[s].at = "rebuild" /\ UNCHANGED <<settings, file>>
    BY <1>5 DEF Rebuild
  <2>2. Busy(saver[s])
    BY <2>1 DEF Busy
  <2>3. /\ file = settings /\ \A t \in Savers : t # s => ~Busy(saver[t])
        /\ Underway(saver[s])
    BY <1>0, <2>1, <2>2
  <2>4. PICK g : SaverOk(g) /\ saver' = [saver EXCEPT ![s] = g]
                 /\ g.at = "rebuild" /\ g.updated = saver[s].updated /\ g.todo = saver[s].todo \ {p}
    <3>1. /\ saver' = [saver EXCEPT ![s] = saver'[s]] /\ SaverOk(saver'[s])
          /\ saver'[s].at = "rebuild" /\ saver'[s].updated = saver[s].updated
          /\ saver'[s].todo = saver[s].todo \ {p}
      BY <1>5, <2>1, RebuildMoves
    <3> QED
      BY <3>1
  <2>5. /\ registered'[p].section = saver[s].updated.sources[p]
        /\ \A q \in Plugins : q # p => registered'[q] = registered[q]
    BY <1>5 DEF Rebuild, SettingsTyped
  <2>6. Underway(g)' /\ Busy(g)
    BY <2>1, <2>3, <2>4, <2>5 DEF Underway, Rebuilds, Busy
  <2> QED
    BY <2>1, <2>3, <2>4, <2>6, AloneMoves
<1>6. ASSUME NEW s \in Savers, RequestCheck(s)
      PROVE  SavedAlone'
  <2>1. ~raced /\ saver[s].at = "rebuild" /\ saver[s].todo = {} /\ UNCHANGED <<settings, file, registered>>
    BY <1>6 DEF RequestCheck
  <2>2. Busy(saver[s])
    BY <2>1 DEF Busy
  <2>3. /\ file = settings /\ \A t \in Savers : t # s => ~Busy(saver[t])
        /\ Underway(saver[s])
    BY <1>0, <2>1, <2>2
  <2>4. PICK g : SaverOk(g) /\ saver' = [saver EXCEPT ![s] = g]
                 /\ g.at = "order" /\ g.updated = saver[s].updated /\ g.todo = {}
    <3>1. /\ saver' = [saver EXCEPT ![s] = saver'[s]] /\ SaverOk(saver'[s])
          /\ saver'[s].at = "order" /\ saver'[s].updated = saver[s].updated
          /\ saver'[s].todo = {}
      BY <1>6, <2>1, RequestMoves
    <3> QED
      BY <3>1
  <2>5. Underway(g)' /\ Busy(g)
    BY <2>1, <2>3, <2>4 DEF Underway, Rebuilds, Busy
  <2> QED
    BY <2>1, <2>3, <2>4, <2>5, AloneMoves
<1>7. ASSUME NEW s \in Savers, SyncOrder(s)
      PROVE  SavedAlone'
  <2>1. ~raced /\ saver[s].at = "order" /\ saver[s].todo = {} /\ UNCHANGED registered
        /\ saver' = [saver EXCEPT ![s] = NoForm]
    BY <1>7, SaverHas DEF SyncOrder
  <2>2. Busy(saver[s])
    BY <2>1 DEF Busy
  <2>3. /\ file = settings /\ \A t \in Savers : t # s => ~Busy(saver[t])
        /\ Underway(saver[s])
    BY <1>0, <2>1, <2>2
  <2>4. \A p \in Plugins : registered[p].section = settings.sources[p]
    BY <2>1, <2>3 DEF Underway, Rebuilds
  <2>5. file' = settings' /\ settings'.sources = settings.sources
    <3>1. CASE UNCHANGED <<settings, file>>
      BY <2>3, <3>1
    <3>2. CASE Save([settings EXCEPT !.order = connectedNames(saver[s].updated.order)]) /\ file' = settings'
      <4>1. PICK o : o = connectedNames(saver[s].updated.order)
        OBVIOUS
      <4>2. PICK d, x, y : settings = [path |-> d, sources |-> x, order |-> y]
        <5>1. ConfigOk(settings)
          BY DEF SettingsTyped
        <5> QED
          BY <5>1 DEF ConfigOk
      <4>3. PICK c : c = [path |-> d, sources |-> x, order |-> o]
        OBVIOUS
      <4>5. c = [settings EXCEPT !.order = o]
        BY <4>2, <4>3
      <4>4. PICK e : settings' = [c EXCEPT !.path = e]
        BY <3>2, <4>1, <4>5 DEF Save
      <4> QED
        BY <3>2, <4>2, <4>3, <4>4
    <3> QED
      BY <1>7, <3>1, <3>2 DEF SyncOrder
  <2>6. SaverOk(NoForm) /\ ~Busy(NoForm)
    BY DEF SaverOk, Busy, NoForm
  <2> QED
    BY <2>1, <2>3, <2>4, <2>5, <2>6, AloneMoves
<1>8. CASE TakeWake \/ CheckNow \/ ProbeAnswers \/ \E p \in Plugins : BeginProbe(p) \/ SkipProbe(p)
  <2>1. UNCHANGED <<settings, file, registered, saver, raced>>
    BY <1>8 DEF TakeWake, CheckNow, ProbeAnswers, BeginProbe, SkipProbe
  <2> QED
    BY <2>1 DEF SavedAlone, Underway, Rebuilds, NoSaver
<1>9. CASE Restart
  <2>1. registered' = [p \in Plugins |-> [section |-> file.sources[p], number |-> registered[p].number + 1]]
    BY <1>9 DEF Restart, InitAll
  <2>2. settings' = file /\ file' = file /\ saver' = [s \in Savers |-> NoForm]
    BY <1>9 DEF Restart
  <2>3. \A s \in Savers : ~Busy(saver[s])'
    BY <2>2 DEF Busy, NoForm
  <2> QED
    BY <2>1, <2>2, <2>3 DEF SavedAlone
<1> QED
  BY <1>1, <1>2, <1>3, <1>4, <1>5, <1>6, <1>7, <1>8, <1>9 DEF SettingsNext

\* The checker and the savers that have requests to make stand still.
LEMMA CheckerWaits ==
  ASSUME CheckerInv, UNCHANGED <<checks, wake, prober, status, asked, registered>>,
         \A x \in Savers : saver[x].at = "rebuild" => saver'[x] = saver[x]
  PROVE  CheckerInv'
<1>1. ASSUME NEW p \in asked
      PROVE  Answered(p)'
  <2>1. Answered(p)
    BY DEF CheckerInv
  <2> QED
    BY <2>1 DEF Answered, Expected
<1> QED
  BY <1>1 DEF CheckerInv

LEMMA CheckerInvStep ==
  ASSUME SettingsTyped, CheckerInv, SettingsNext
  PROVE  CheckerInv'
<1>0. ASSUME NEW p \in asked
      PROVE  p \in Plugins /\ Answered(p)
  BY DEF CheckerInv
<1>a. \A p \in Plugins : registered[p].number \in Nat \ {0}
  BY DEF SettingsTyped
<1>1. ASSUME NEW s \in Savers, NEW g, saver' = [saver EXCEPT ![s] = g], saver[s].at # "rebuild",
             UNCHANGED <<checks, wake, prober, status, asked, registered>>
      PROVE  CheckerInv'
  <2>1. \A x \in Savers : saver[x].at = "rebuild" => saver'[x] = saver[x]
    BY <1>1 DEF SettingsTyped
  <2> QED
    BY <1>1, <2>1, CheckerWaits
<1>2. ASSUME NEW s \in Savers, GetConfig(s) \/ SnapshotAndTry(s) \/ MergeAndSave(s) \/ ReadUpdated(s) \/ SyncOrder(s)
      PROVE  CheckerInv'
  <2>1. \E g : saver' = [saver EXCEPT ![s] = g]
    <3>1. CASE GetConfig(s) \/ ReadUpdated(s) \/ SyncOrder(s)
      BY <3>1 DEF GetConfig, ReadUpdated, SyncOrder
    <3>2. CASE SnapshotAndTry(s)
      BY <3>2 DEF SnapshotAndTry
    <3>3. CASE MergeAndSave(s)
      BY <3>3 DEF MergeAndSave
    <3> QED
      BY <1>2, <3>1, <3>2, <3>3
  <2>2. saver[s].at # "rebuild" /\ UNCHANGED <<checks, wake, prober, status, asked, registered>>
    BY <1>2 DEF GetConfig, SnapshotAndTry, MergeAndSave, ReadUpdated, SyncOrder
  <2> QED
    BY <1>1, <2>1, <2>2
<1>3. ASSUME NEW s \in Savers, NEW p \in Plugins, Rebuild(s, p)
      PROVE  CheckerInv'
  <2>1. UNCHANGED <<checks, wake, prober, status, asked>> /\ saver[s].at = "rebuild"
    BY <1>3 DEF Rebuild
  <2>2. /\ \A x \in Savers : x # s => saver'[x] = saver[x]
        /\ saver'[s].at = "rebuild"
        /\ \/ saver'[s].built = saver[s].built \cup {p}
           \/ saver'[s].built = saver[s].built /\ UNCHANGED registered
    BY <1>3, RebuildMoves, SaverMoves
  <2>3. \A q \in Plugins : registered[q].number <= registered'[q].number /\
                           (registered'[q] = registered[q] \/ (q = p /\ p \in saver'[s].built))
    <3>1. CASE saver'[s].built = saver[s].built /\ UNCHANGED registered
      BY <1>a, <3>1
    <3>2. CASE saver'[s].built = saver[s].built \cup {p}
      <4>1. \/ UNCHANGED registered
            \/ registered' = [registered EXCEPT ![p] =
                 [section |-> saver[s].updated.sources[p], number |-> registered[p].number + 1]]
        BY <1>3 DEF Rebuild
      <4>2. CASE UNCHANGED registered
        BY <1>a, <4>2
      <4>3. CASE registered' = [registered EXCEPT ![p] =
                   [section |-> saver[s].updated.sources[p], number |-> registered[p].number + 1]]
        BY <1>a, <3>2, <4>3 DEF SettingsTyped
      <4> QED
        BY <4>1, <4>2, <4>3
    <3> QED
      BY <2>2, <3>1, <3>2
  <2>4. ASSUME NEW q \in asked
        PROVE  Answered(q)'
    <3>1. CASE q = p /\ p \in saver'[s].built
      BY <2>2, <3>1 DEF Answered, Expected
    <3>2. CASE registered'[q] = registered[q]
      <4>1. \A x \in Savers : saver[x].at = "rebuild" /\ q \in saver[x].built
                                => saver'[x].at = "rebuild" /\ q \in saver'[x].built
        BY <2>2
      <4> QED
        BY <1>0, <2>1, <2>4, <3>2, <4>1 DEF Answered, Expected
    <3> QED
      BY <1>0, <2>3, <2>4, <3>1, <3>2
  <2>5. \A q \in Plugins : registered'[q].number \in Nat
    <3>1. SettingsTyped'
      BY <1>3, SettingsTypedStep
    <3> QED
      BY <3>1 DEF SettingsTyped
  <2>6. ASSUME prober.probed # 0
        PROVE  prober.probed <= registered'[prober.name].number
    BY <1>a, <2>3, <2>5, <2>6 DEF CheckerInv
  <2>7. ASSUME NEW q \in Plugins
        PROVE  status[q] <= registered'[q].number
    BY <1>a, <2>3, <2>5, <2>7 DEF CheckerInv
  <2> QED
    BY <2>1, <2>4, <2>6, <2>7 DEF CheckerInv
<1>4. ASSUME NEW s \in Savers, RequestCheck(s)
      PROVE  CheckerInv'
  <2>1. /\ UNCHANGED <<checks, prober, status, registered>> /\ saver[s].built \subseteq Plugins
        /\ saver[s].at = "rebuild"
    BY <1>4, SaverHas DEF RequestCheck
  <2>2. CASE saver[s].built = {}
    <3>1. UNCHANGED <<wake, asked>> /\ \A x \in Savers : x # s => saver'[x] = saver[x]
      BY <1>4, <2>2, RequestMoves, SaverMoves DEF RequestCheck
    <3>2. ASSUME NEW q \in asked
          PROVE  Answered(q)'
      BY <1>0, <2>1, <2>2, <3>1, <3>2 DEF Answered, Expected
    <3> QED
      BY <2>1, <3>1, <3>2 DEF CheckerInv
  <2>3. CASE saver[s].built # {}
    <3>1. wake' = <<saver[s].built>> /\ asked' = saver[s].built
      BY <1>4, <2>3 DEF RequestCheck
    <3>2. ASSUME NEW q \in asked'
          PROVE  Answered(q)'
      BY <3>1, <3>2 DEF Answered, Expected
    <3> QED
      BY <2>1, <3>1, <3>2 DEF CheckerInv
  <2> QED
    BY <2>2, <2>3
<1>5. CASE TakeWake
  <2>1. /\ UNCHANGED <<registered, saver, checks, status, asked>> /\ wake' = <<>>
        /\ wake # <<>> /\ prober.todo = {}
    BY <1>5 DEF TakeWake, CheckerIdle, AtRest
  <2>2. prober' = [todo |-> wake[1], probed |-> 0]
    BY <1>5 DEF TakeWake, AtRest
  <2>3. wake[1] \subseteq Plugins
    BY <2>1 DEF CheckerInv
  <2>4. ASSUME NEW q \in asked
        PROVE  Answered(q)'
    BY <1>0, <2>1, <2>2, <2>4 DEF Answered, Expected
  <2> QED
    BY <2>1, <2>2, <2>3, <2>4 DEF CheckerInv
<1>6. CASE CheckNow
  <2>1. UNCHANGED <<registered, saver, wake, status, asked>> /\ checks' = checks + 1
    BY <1>6 DEF CheckNow
  <2>2. prober' = [todo |-> Plugins, probed |-> 0]
    BY <1>6 DEF CheckNow, AtRest
  <2>3. ASSUME NEW q \in asked
        PROVE  Answered(q)'
    BY <1>0, <2>2, <2>3 DEF Answered, Expected
  <2> QED
    BY <2>1, <2>2, <2>3 DEF CheckerInv
<1>7. ASSUME NEW p \in Plugins, BeginProbe(p)
      PROVE  CheckerInv'
  <2>1. UNCHANGED <<registered, saver, checks, wake, status, asked>> /\ prober.probed = 0
    BY <1>7 DEF BeginProbe
  <2>2. prober' = [todo |-> prober.todo, probed |-> registered[p].number, name |-> p]
    BY <1>7 DEF BeginProbe
  <2>3. ASSUME NEW q \in asked
        PROVE  Answered(q)'
    BY <1>0, <2>1, <2>2, <2>3 DEF Answered, Expected
  <2> QED
    BY <1>a, <2>1, <2>2, <2>3 DEF CheckerInv
<1>8. ASSUME NEW p \in Plugins, SkipProbe(p)
      PROVE  CheckerInv'
  <2>1. /\ UNCHANGED <<registered, saver, checks, wake, status>> /\ prober.probed = 0
        /\ asked' = asked \ {p}
    BY <1>8 DEF SkipProbe
  <2>2. prober' = [todo |-> prober.todo \ {p}, probed |-> 0]
    BY <1>8 DEF SkipProbe, AtRest
  <2>3. ASSUME NEW q \in asked'
        PROVE  Answered(q)'
    BY <1>0, <2>1, <2>2, <2>3 DEF Answered, Expected
  <2> QED
    BY <2>1, <2>2, <2>3 DEF CheckerInv
<1>9. CASE ProbeAnswers
  <2>1. UNCHANGED <<registered, saver, checks, wake, asked>> /\ prober.probed # 0
    BY <1>9 DEF ProbeAnswers, CheckerInv
  <2>2. PICK n \in Plugins : /\ n = prober.name /\ status[n] <= prober.probed
                             /\ prober.probed <= registered[n].number
    BY <2>1 DEF CheckerInv
  <2>3. /\ prober' = [todo |-> prober.todo \ {n}, probed |-> 0]
        /\ status' = [status EXCEPT ![n] = prober.probed]
    BY <1>9, <2>2 DEF ProbeAnswers, AtRest
  <2>4. /\ status' \in [Plugins -> Nat] /\ status'[n] = prober.probed
        /\ \A q \in Plugins : q # n => status'[q] = status[q]
    BY <2>3 DEF CheckerInv
  <2>5. ASSUME NEW q \in asked
        PROVE  Answered(q)'
    <3>1. CASE q # n
      BY <1>0, <2>1, <2>3, <2>4, <2>5, <3>1 DEF Answered, Expected
    <3>2. CASE q = n
      <4>1. CASE status[n] = registered[n].number
        <5>1. prober.probed = registered[n].number
          BY <1>a, <2>2, <4>1 DEF CheckerInv
        <5> QED
          BY <2>1, <2>4, <3>2, <5>1 DEF Answered
      <4>2. CASE n \in prober.todo /\ prober.probed = registered[n].number
        BY <2>1, <2>4, <3>2, <4>2 DEF Answered
      <4>3. CASE \/ checks = 0
                 \/ wake # <<>> /\ n \in wake[1]
                 \/ \E s \in Savers : saver[s].at = "rebuild" /\ n \in saver[s].built
        BY <2>1, <3>2, <4>3 DEF Answered, Expected
      <4> QED
        BY <1>0, <2>1, <2>2, <2>5, <3>2, <4>1, <4>2, <4>3 DEF Answered, Expected
    <3> QED
      BY <3>1, <3>2
  <2>6. \A q \in Plugins : status'[q] <= registered[q].number
    BY <2>2, <2>4 DEF CheckerInv
  <2> QED
    BY <2>1, <2>3, <2>4, <2>5, <2>6 DEF CheckerInv
<1>10. CASE Restart
  <2>1. /\ checks' = 0 /\ wake' = <<>> /\ prober' = [todo |-> {}, probed |-> 0]
        /\ status' = [p \in Plugins |-> 0] /\ asked' = {}
    BY <1>10 DEF Restart, AtRest
  <2>2. \A p \in Plugins : registered'[p].number \in Nat
    <3>1. SettingsTyped'
      BY <1>10, SettingsTypedStep
    <3> QED
      BY <3>1 DEF SettingsTyped
  <2> QED
    BY <2>1, <2>2 DEF CheckerInv
<1> QED
  BY <1>2, <1>3, <1>4, <1>5, <1>6, <1>7, <1>8, <1>9, <1>10 DEF SettingsNext

LEMMA SettingsInvInit == SettingsInit => SettingsInv
<1> SUFFICES ASSUME SettingsInit PROVE SettingsInv
  OBVIOUS
<1>1. ConfigOk(FirstConfig) /\ ValidateConfig(FirstConfig)
  BY SettingsAssumption DEF FirstConfig, ConfigOk, ValidateConfig, Section, Secret, Stored, Paths
<1>2. SaverOk(NoForm) /\ ~Busy(NoForm)
  BY DEF SaverOk, Busy, NoForm
<1>3. \A p \in Plugins : FirstConfig.sources[p] \in Stored /\ FirstConfig.sources[p].secret = Secret(FirstLength)
  BY SettingsAssumption DEF FirstConfig, Section, Secret, Stored
<1>4. SettingsTyped
  <2>1. settings = FirstConfig /\ file = FirstConfig /\ raced = FALSE
    BY DEF SettingsInit
  <2>2. registered \in [Plugins -> [section : Stored, number : Nat \ {0}]]
    BY <1>3 DEF SettingsInit
  <2>3. saver = [s \in Savers |-> saver[s]] /\ \A s \in Savers : SaverOk(saver[s])
    BY <1>2 DEF SettingsInit
  <2>4. \A p \in Plugins : settings.sources[p].secret = typed[p]
    BY <1>3, <2>1 DEF SettingsInit
  <2> QED
    BY <1>1, <2>1, <2>2, <2>3, <2>4 DEF SettingsTyped
<1>5. SavedAlone
  <2>1. /\ file = settings /\ settings = FirstConfig
        /\ \A s \in Savers : ~Busy(saver[s])
        /\ \A p \in Plugins : registered[p].section = FirstConfig.sources[p]
    BY <1>2 DEF SettingsInit
  <2> QED
    BY <2>1 DEF SavedAlone
<1>6. CheckerInv
  <2>1. prober = [todo |-> {}, probed |-> 0] /\ asked = {} /\ wake = <<>> /\ checks = 0
    BY DEF SettingsInit, AtRest
  <2>2. /\ status \in [Plugins -> Nat]
        /\ \A p \in Plugins : status[p] = 0 /\ registered[p].number = 1
    BY DEF SettingsInit
  <2> QED
    BY <2>1, <2>2 DEF CheckerInv
<1> QED
  BY <1>4, <1>5, <1>6 DEF SettingsInv

LEMMA SettingsInvHolds == ServicesSpec => []SettingsInv
<1>1. ServicesInit => SettingsInv
  BY SettingsInvInit DEF ServicesInit
<1>2. SettingsInv /\ [ServicesNext]_<<scene, services>> => SettingsInv'
  <2> SUFFICES ASSUME SettingsInv, [SettingsNext]_settingsVars PROVE SettingsInv'
    BY ScenesAreSteps
  <2>1. CASE SettingsNext
    BY <2>1, SettingsTypedStep, SavedAloneStep, CheckerInvStep DEF SettingsInv
  <2>2. CASE UNCHANGED settingsVars
    <3>1. SettingsTyped'
      BY <2>2 DEF settingsVars, SettingsInv, SettingsTyped
    <3>2. SavedAlone'
      BY <2>2 DEF settingsVars, SettingsInv, SavedAlone, Underway, Rebuilds, NoSaver
    <3>3. CheckerInv'
      BY <2>2, CheckerWaits DEF settingsVars, SettingsInv
    <3> QED
      BY <3>1, <3>2, <3>3 DEF SettingsInv
  <2> QED BY <2>1, <2>2
<1> QED BY <1>1, <1>2, PTL DEF ServicesSpec

\* However saves overlap, fail or are cut off, the settings in memory and on disk
\* pass the validation, no secret is lost to the stars a page shows, saves that do
\* not overlap leave the plugins as the settings say, and the latest request for a
\* health check is answered about the plugins registered now (config/persist.go,
\* api/handlers.go, plugin/registry.go, plugin/health.go).
THEOREM SettingsAlwaysSound == ServicesSpec => []SettingsSound
<1>1. SettingsInv => SettingsSound
  <2> SUFFICES ASSUME SettingsInv PROVE SettingsSound
    OBVIOUS
  <2>1. RequestHonoured
    <3> SUFFICES ASSUME NoSaver, CheckerIdle, checks > 0, wake = <<>>, NEW p \in asked
                 PROVE  status[p] = registered[p].number
      BY DEF RequestHonoured
    <3>1. Answered(p) /\ checks \in Nat
      BY DEF SettingsInv, CheckerInv
    <3>2. prober.todo = {}
      BY DEF CheckerIdle, AtRest
    <3> QED
      BY <3>1, <3>2 DEF Answered, Expected, NoSaver
  <2> QED
    BY <2>1 DEF SettingsInv, SettingsTyped, SavedAlone, SettingsSound
<1> QED BY <1>1, SettingsInvHolds, PTL

----------------------------------------------------------------------------
(* The zip of an album *)

\* A set of numbers has a least one.
LEMMA LeastOf == ASSUME NEW S \in SUBSET Nat, S # {} PROVE Min(S) \in S /\ \A y \in S : Min(S) <= y
<1> DEFINE R == {ss \in Nat \X Nat : ss[1] < ss[2]}
<1>1. IsWellFoundedOn(R, Nat)
  BY NatLessThanWellFounded DEF OpToRel
<1> HIDE DEF R
<1>2. PICK x \in S : \A y \in S : ~(<<y, x>> \in R)
  BY <1>1, WFMin
<1>3. ASSUME NEW y \in S PROVE x <= y
  <2>1. x \in Nat /\ y \in Nat /\ ~(<<y, x>> \in R)
    BY <1>2
  <2>2. y < x => <<y, x>> \in R
    BY <2>1 DEF R
  <2> QED
    BY <2>1, <2>2
<1>4. \E z \in S : \A y \in S : z <= y
  BY <1>3
<1> QED
  BY <1>4 DEF Min

\* A sequence of anything.
IsSequence(s) == Len(s) \in Nat /\ s = [k \in 1 .. Len(s) |-> s[k]]

LEMMA Appended ==
  ASSUME NEW s, IsSequence(s), NEW e
  PROVE  /\ IsSequence(Append(s, e)) /\ Len(Append(s, e)) = Len(s) + 1
         /\ \A k \in 1 .. Len(s) : Append(s, e)[k] = s[k]
         /\ Append(s, e)[Len(s) + 1] = e
<1> DEFINE S == {s[k] : k \in 1 .. Len(s)} \cup {e}
<1>1. s \in Seq(S) /\ e \in S
  BY DEF IsSequence
<1> HIDE DEF S
<1>2. Append(s, e) \in Seq(S) /\ Len(Append(s, e)) = Len(s) + 1 /\ Len(s) \in Nat
  BY <1>1
<1>3. \A k \in 1 .. Len(s) + 1 : Append(s, e)[k] = IF k <= Len(s) THEN s[k] ELSE e
  BY <1>1
<1>4. \A t \in Seq(S) : t = [k \in 1 .. Len(t) |-> t[k]]
  OBVIOUS
<1>5. IsSequence(Append(s, e))
  <2>1. PICK t \in Seq(S) : t = Append(s, e)
    BY <1>2
  <2>2. t = [k \in 1 .. Len(t) |-> t[k]] /\ Len(t) \in Nat
    BY <1>4
  <2>3. IsSequence(t)
    BY <2>2 DEF IsSequence
  <2> QED
    BY <2>1, <2>3
<1> QED
  BY <1>2, <1>3, <1>5

\* A name that is taken gets a number that frees it.
LEMMA NewName ==
  ASSUME NEW used, IsFiniteSet(used), NEW name, IsSequence(name)
  PROVE  dedupeZipName(name, used) \notin used
<1>1. CASE name \notin used
  BY <1>1 DEF dedupeZipName
<1>2. CASE name \in used
  <2> DEFINE c == Cardinality(used)
             numbers == 2 .. c + 2
             free == {i \in numbers : Append(name, i) \notin used}
             f == [i \in numbers |-> Append(name, i)]
  <2>1. c \in Nat
    BY FS_CardinalityType
  <2>2. IsFiniteSet(numbers) /\ Cardinality(numbers) = c + 1
    <3> HIDE DEF c
    <3>1. IsFiniteSet(2 .. c + 2) /\ Cardinality(2 .. c + 2) = IF 2 > c + 2 THEN 0 ELSE (c + 2) - 2 + 1
      BY <2>1, FS_Interval
    <3> QED
      BY <2>1, <3>1
  <2>3. \A i, j \in numbers : Append(name, i) = Append(name, j) => i = j
    BY Appended
  <2>4. free # {}
    <3> SUFFICES ASSUME free = {} PROVE FALSE
      OBVIOUS
    <3>1. f \in [numbers -> used]
      OBVIOUS
    <3> HIDE DEF numbers
    <3>2. \E x, y \in numbers : x # y /\ f[x] = f[y]
      <4> HIDE DEF f
      <4> QED
        BY <2>1, <2>2, <3>1, FS_PigeonHole
    <3> QED
      BY <2>3, <3>2
  <2>5. free \subseteq Nat
    BY <2>1
  <2>6. Min(free) \in free
    BY <2>4, <2>5, LeastOf
  <2> QED
    BY <1>2, <2>6 DEF dedupeZipName
<1> QED
  BY <1>1, <1>2

(* A request holds a slot from its acquisition to its answer.             *)
HoldsSlot == {"resolve", "entry"}
Slotted == {r \in ZipRequests : archive[r].at \in HoldsSlot}

\* The files of what an archive holds, and of what it is still to hold.
FilesWritten(entries) == {entries[i].file : i \in 1 .. Len(entries)}
FilesIn(z) == FilesWritten(z.entries)
FilesPlanned(z) == {ZipItems[i].file : i \in z.plan}

Fields == {"at", "plan", "entries", "unread"}
SameBut(y, z, f) == DOMAIN y = Fields /\ \A g \in Fields \ {f} : y[g] = z[g]
LEMMA ArchiveEdits ==
  ASSUME NEW z, DOMAIN z = Fields, NEW v, NEW y
  PROVE  /\ y = [z EXCEPT !.at = v] => SameBut(y, z, "at") /\ y.at = v
         /\ y = [z EXCEPT !.plan = v] => SameBut(y, z, "plan") /\ y.plan = v
         /\ y = [z EXCEPT !.entries = v] => SameBut(y, z, "entries") /\ y.entries = v
         /\ y = [z EXCEPT !.unread = v] => SameBut(y, z, "unread") /\ y.unread = v
<1>1. y = [z EXCEPT !.at = v] => SameBut(y, z, "at") /\ y.at = v
  BY DEF Fields, SameBut
<1>2. y = [z EXCEPT !.plan = v] => SameBut(y, z, "plan") /\ y.plan = v
  BY DEF Fields, SameBut
<1>3. y = [z EXCEPT !.entries = v] => SameBut(y, z, "entries") /\ y.entries = v
  BY DEF Fields, SameBut
<1>4. y = [z EXCEPT !.unread = v] => SameBut(y, z, "unread") /\ y.unread = v
  BY DEF Fields, SameBut
<1> QED
  BY <1>1, <1>2, <1>3, <1>4

(* An archive, while the files `there` are there: every name is used once, *)
(* whatever broke off ended it unless it was no track, and up to its end   *)
(* every file is in it or still planned.                                   *)
ArchiveFits(z, there) ==
  /\ DOMAIN z = Fields
  /\ z.at \in {"idle", "busy", "resolve", "entry", "answered", "broken", "closed"}
  /\ z.plan \subseteq DOMAIN ZipItems /\ IsSequence(z.entries)
  /\ IsFiniteSet(NamesOf(z.entries)) /\ Cardinality(NamesOf(z.entries)) = Len(z.entries)
  /\ z.unread \cap there = {}
  /\ z.at # "broken" => \A i \in 1 .. Len(z.entries) : z.entries[i].whole \/ z.entries[i].kind # "track"
  /\ z.at \in {"entry", "closed"} => there \subseteq FilesIn(z) \cup FilesPlanned(z)
  /\ z.at = "closed" => z.plan = {}

ZipInv ==
  /\ onDisk \subseteq AllZipFiles
  /\ archive = [r \in ZipRequests |-> archive[r]] /\ \A r \in ZipRequests : ArchiveFits(archive[r], onDisk)
  /\ IsFiniteSet(Slotted) /\ zipSlots = Cardinality(Slotted) /\ zipSlots \in 0 .. albumZipMaxConcurrent

LEMMA ZipInvInit == ZipInit => ZipInv
<1> SUFFICES ASSUME ZipInit PROVE ZipInv
  OBVIOUS
<1>1. NamesOf(<<>>) = {} /\ IsSequence(<<>>) /\ Len(<<>>) = 0
  BY DEF NamesOf, IsSequence
<1>2. ArchiveFits(NoArchive, onDisk)
  BY <1>1, FS_EmptySet DEF NoArchive, ArchiveFits, Fields
<1>3. Slotted = {}
  BY DEF ZipInit, Slotted, HoldsSlot, NoArchive
<1>4. zipSlots = Cardinality(Slotted) /\ IsFiniteSet(Slotted) /\ zipSlots \in 0 .. albumZipMaxConcurrent
  BY <1>3, FS_EmptySet, ZipAssumption DEF ZipInit
<1> QED
  BY <1>2, <1>4 DEF ZipInit, ZipInv

\* One request goes on, and takes or gives back a slot as it should.
LEMMA ArchiveMoves ==
  ASSUME ZipInv, NEW r \in ZipRequests, NEW z, archive' = [archive EXCEPT ![r] = z], UNCHANGED onDisk,
         ArchiveFits(z, onDisk),
         \/ UNCHANGED zipSlots /\ (z.at \in HoldsSlot <=> archive[r].at \in HoldsSlot)
         \/ /\ archive[r].at \notin HoldsSlot /\ z.at \in HoldsSlot
            /\ zipSlots < albumZipMaxConcurrent /\ zipSlots' = zipSlots + 1
         \/ archive[r].at \in HoldsSlot /\ z.at \notin HoldsSlot /\ releaseAlbumZip
  PROVE  ZipInv'
<1> USE ZipAssumption
<1>0. /\ archive = [q \in ZipRequests |-> archive[q]] /\ \A q \in ZipRequests : ArchiveFits(archive[q], onDisk)
      /\ IsFiniteSet(Slotted) /\ zipSlots = Cardinality(Slotted) /\ zipSlots \in 0 .. albumZipMaxConcurrent
      /\ onDisk \subseteq AllZipFiles
  BY DEF ZipInv
<1>1. archive' = [q \in ZipRequests |-> IF q = r THEN z ELSE archive[q]]
  BY <1>0
<1>2. archive' = [q \in ZipRequests |-> archive'[q]] /\ \A q \in ZipRequests : ArchiveFits(archive'[q], onDisk')
  BY <1>0, <1>1
<1>3. Slotted' = IF z.at \in HoldsSlot THEN Slotted \cup {r} ELSE Slotted \ {r}
  BY <1>1 DEF Slotted, HoldsSlot
<1>4. r \in Slotted <=> archive[r].at \in HoldsSlot
  BY DEF Slotted
<1>5. /\ IsFiniteSet(Slotted \cup {r}) /\ IsFiniteSet(Slotted \ {r})
      /\ Cardinality(Slotted \cup {r}) = IF r \in Slotted THEN zipSlots ELSE zipSlots + 1
      /\ Cardinality(Slotted \ {r}) = IF r \in Slotted THEN zipSlots - 1 ELSE zipSlots
  BY <1>0, FS_AddElement, FS_RemoveElement
<1>6. r \in Slotted => zipSlots > 0
  <2>1. Cardinality(Slotted \ {r}) \in Nat
    BY <1>5, FS_CardinalityType
  <2> QED
    BY <1>0, <1>5, <2>1
<1>7. IsFiniteSet(Slotted') /\ zipSlots' = Cardinality(Slotted') /\ zipSlots' \in 0 .. albumZipMaxConcurrent
  <2>1. CASE UNCHANGED zipSlots /\ (z.at \in HoldsSlot <=> archive[r].at \in HoldsSlot)
    BY <1>0, <1>3, <1>4, <1>5, <2>1
  <2>2. CASE /\ archive[r].at \notin HoldsSlot /\ z.at \in HoldsSlot
             /\ zipSlots < albumZipMaxConcurrent /\ zipSlots' = zipSlots + 1
    BY <1>0, <1>3, <1>4, <1>5, <2>2
  <2>3. CASE archive[r].at \in HoldsSlot /\ z.at \notin HoldsSlot /\ releaseAlbumZip
    BY <1>0, <1>3, <1>4, <1>5, <1>6, <2>3 DEF releaseAlbumZip
  <2> QED
    BY <2>1, <2>2, <2>3
<1> QED
  BY <1>0, <1>2, <1>7 DEF ZipInv

\* An entry more, under a name of its own.
Added(s, z, item, whole) ==
  /\ IsSequence(s) /\ IsFiniteSet(NamesOf(s)) /\ Cardinality(NamesOf(s)) = Len(s)
  /\ FilesWritten(s) = FilesIn(z) \cup {item.file}
  /\ \A i \in 1 .. Len(s) : \/ i <= Len(z.entries) /\ s[i] = z.entries[i]
                            \/ s[i].whole = whole /\ s[i].kind = item.kind
LEMMA EntryAdded ==
  ASSUME NEW z, NEW there, ArchiveFits(z, there), NEW item, IsSequence(item.name), NEW whole,
         NEW s, s = Append(z.entries, ZipEntry(item, z, whole))
  PROVE  Added(s, z, item, whole)
<1> DEFINE e == ZipEntry(item, z, whole)
           n == Len(z.entries)
<1>0. IsSequence(z.entries) /\ IsFiniteSet(NamesOf(z.entries)) /\ Cardinality(NamesOf(z.entries)) = n
  BY DEF ArchiveFits
<1>1. /\ e.file = item.file /\ e.whole = whole /\ e.kind = item.kind
      /\ e.name = dedupeZipName(item.name, NamesOf(z.entries))
  BY DEF ZipEntry
<1>2. e.name \notin NamesOf(z.entries)
  BY <1>0, <1>1, NewName
<1> HIDE DEF e
<1>3. /\ IsSequence(s) /\ Len(s) = n + 1 /\ n \in Nat
      /\ \A k \in 1 .. n : s[k] = z.entries[k]
      /\ s[n + 1] = e
  BY <1>0, Appended DEF e, IsSequence
<1>4. DOMAIN s = 1 .. n + 1 /\ DOMAIN z.entries = 1 .. n
  BY <1>0, <1>3 DEF IsSequence
<1> HIDE DEF n
<1>5. \A k \in 1 .. n + 1 : k \in 1 .. n \/ k = n + 1
  BY <1>3
<1>6. \A k \in 1 .. n : k \in 1 .. n + 1
  BY <1>3
<1>7. NamesOf(s) = NamesOf(z.entries) \cup {e.name}
  <2>1. n + 1 \in DOMAIN s
    BY <1>3, <1>4
  <2> QED
    BY <1>3, <1>4, <1>5, <1>6, <2>1 DEF NamesOf
<1>8. IsFiniteSet(NamesOf(s)) /\ Cardinality(NamesOf(s)) = n + 1
  BY <1>0, <1>2, <1>7, FS_AddElement
<1>9. FilesWritten(s) = FilesIn(z) \cup {item.file}
  <2>1. n + 1 \in 1 .. n + 1 /\ n = Len(z.entries)
    BY <1>3 DEF n
  <2> QED
    BY <1>1, <1>3, <1>5, <1>6, <2>1 DEF FilesIn, FilesWritten
<1>10. \A i \in 1 .. n + 1 : (i <= Len(z.entries) /\ s[i] = z.entries[i]) \/ (s[i].whole = whole /\ s[i].kind = item.kind)
  BY <1>1, <1>3, <1>5 DEF n
<1> QED
  BY <1>3, <1>8, <1>9, <1>10 DEF Added

LEMMA ZipInvStep == ZipInv /\ [ZipNext]_zipVars => ZipInv'
<1> SUFFICES ASSUME ZipInv, [ZipNext]_zipVars PROVE ZipInv'
  OBVIOUS
<1>0. /\ archive = [q \in ZipRequests |-> archive[q]] /\ \A q \in ZipRequests : ArchiveFits(archive[q], onDisk)
      /\ onDisk \subseteq AllZipFiles /\ zipSlots \in 0 .. albumZipMaxConcurrent
  BY DEF ZipInv
<1>1. CASE UNCHANGED zipVars
  BY <1>1 DEF zipVars, ZipInv, Slotted
<1>2. ASSUME NEW f, FileGoes(f)
      PROVE  ZipInv'
  <2>1. onDisk' \subseteq onDisk /\ UNCHANGED <<zipSlots, archive>>
    BY <1>2 DEF FileGoes
  <2>2. \A q \in ZipRequests : ArchiveFits(archive[q], onDisk')
    BY <1>0, <2>1 DEF ArchiveFits
  <2> QED
    BY <2>1, <2>2 DEF ZipInv, Slotted
\* Only where a request stands changes.
<1>3. ASSUME NEW r \in ZipRequests, NEW at \in {"busy", "resolve", "answered", "broken", "closed"}, To(r, at),
             at = "closed" => archive[r].at = "entry" /\ archive[r].plan = {}, archive[r].at # "broken"
      PROVE  /\ archive' = [archive EXCEPT ![r] = [archive[r] EXCEPT !.at = at]]
             /\ ArchiveFits([archive[r] EXCEPT !.at = at], onDisk) /\ [archive[r] EXCEPT !.at = at].at = at
  <2>1. archive' = [archive EXCEPT ![r] = [archive[r] EXCEPT !.at = at]]
    BY <1>3 DEF To
  <2>2. ArchiveFits(archive[r], onDisk)
    BY <1>0
  <2> DEFINE z == [archive[r] EXCEPT !.at = at]
  <2> HIDE DEF z
  <2>3. DOMAIN z = Fields /\ z.at = at /\ z.plan = archive[r].plan /\ z.entries = archive[r].entries
        /\ z.unread = archive[r].unread
    BY <2>2, ArchiveEdits DEF z, ArchiveFits, SameBut, Fields
  <2>4. ArchiveFits(z, onDisk) /\ z.at = at
    BY <1>3, <2>2, <2>3 DEF ArchiveFits, FilesIn, FilesPlanned
  <2> QED
    BY <2>1, <2>4 DEF z
<1>4. ASSUME NEW r \in ZipRequests, acquireAlbumZip(r)
      PROVE  ZipInv'
  <2>1. CASE zipSlots < albumZipMaxConcurrent
    <3>1. To(r, "resolve") /\ zipSlots' = zipSlots + 1 /\ UNCHANGED onDisk /\ archive[r].at = "idle"
      BY <1>4, <2>1 DEF acquireAlbumZip
    <3> QED
      BY <1>3, <2>1, <3>1, ArchiveMoves DEF HoldsSlot
  <2>2. CASE ~(zipSlots < albumZipMaxConcurrent)
    <3>1. To(r, "busy") /\ UNCHANGED <<zipSlots, onDisk>> /\ archive[r].at = "idle"
      BY <1>4, <2>2 DEF acquireAlbumZip
    <3> QED
      BY <1>3, <3>1, ArchiveMoves DEF HoldsSlot
  <2> QED
    BY <2>1, <2>2
<1>5. ASSUME NEW r \in ZipRequests, NEW how \in {"answered", "broken", "closed"}, Ends(r, how), UNCHANGED onDisk,
             archive[r].at \in HoldsSlot, how = "closed" => archive[r].at = "entry" /\ archive[r].plan = {}
      PROVE  ZipInv'
  BY <1>3, <1>5, ArchiveMoves DEF Ends, HoldsSlot
<1>6. ASSUME NEW r \in ZipRequests, ResolveEntries(r)
      PROVE  ZipInv'
  <2> DEFINE planned == {i \in DOMAIN ZipItems : ZipItems[i].file \in onDisk}
  <2>1. CASE Ends(r, "answered")
    BY <1>5, <1>6, <2>1 DEF ResolveEntries, HoldsSlot
  <2>2. CASE archive' = [archive EXCEPT ![r].at = "entry", ![r].plan = planned] /\ UNCHANGED zipSlots
    <3> DEFINE y == [archive[r] EXCEPT !.plan = planned]
               z == [y EXCEPT !.at = "entry"]
    <3>1. archive' = [archive EXCEPT ![r] = z]
      BY <1>0, <2>2
    <3>2. ArchiveFits(archive[r], onDisk) /\ archive[r].at = "resolve" /\ UNCHANGED onDisk
      BY <1>0, <1>6 DEF ResolveEntries
    <3> HIDE DEF z, y
    <3>3. DOMAIN z = Fields /\ z.at = "entry" /\ z.plan = planned /\ z.entries = archive[r].entries
          /\ z.unread = archive[r].unread
      <4>1. DOMAIN y = Fields /\ SameBut(y, archive[r], "plan") /\ y.plan = planned
        BY <3>2, ArchiveEdits DEF y, ArchiveFits, SameBut
      <4>2. SameBut(z, y, "at") /\ z.at = "entry"
        BY <4>1, ArchiveEdits DEF z
      <4> QED
        BY <4>1, <4>2 DEF SameBut, Fields
    <3>4. onDisk \subseteq FilesPlanned(z)
      BY <1>0, <3>3 DEF FilesPlanned, AllZipFiles
    <3>5. ArchiveFits(z, onDisk)
      BY <3>2, <3>3, <3>4 DEF ArchiveFits
    <3> QED
      BY <2>2, <3>1, <3>2, <3>3, <3>5, ArchiveMoves DEF HoldsSlot
  <2> QED
    BY <1>6, <2>1, <2>2 DEF ResolveEntries
<1>7. ASSUME NEW r \in ZipRequests, WriteZipEntry(r)
      PROVE  ZipInv'
  <2>0. PICK z, next, item, after : /\ z = archive[r] /\ next = Min(z.plan) /\ item = ZipItems[next]
                                    /\ after = [z EXCEPT !.plan = z.plan \ {next}]
    OBVIOUS
  <2> DEFINE put(whole) == [after EXCEPT !.entries = Append(z.entries, ZipEntry(item, z, whole))]
  <2>1. ArchiveFits(z, onDisk) /\ z.at = "entry" /\ z.plan # {} /\ UNCHANGED onDisk
    BY <1>0, <1>7, <2>0 DEF WriteZipEntry
  <2>2. next \in z.plan /\ next \in DOMAIN ZipItems
    <3>1. z.plan \in SUBSET Nat
      BY <2>1, ZipAssumption DEF ArchiveFits
    <3> QED
      BY <2>0, <2>1, <3>1, LeastOf DEF ArchiveFits
  <2>3. IsSequence(item.name)
    BY <2>0, <2>2, ZipAssumption DEF IsSequence
  <2>4. \/ item.file \notin onDisk /\ UNCHANGED zipSlots
           /\ archive' = [archive EXCEPT ![r] = [after EXCEPT !.unread = z.unread \cup {item.file}]]
        \/ archive' = [archive EXCEPT ![r] = put(TRUE)] /\ UNCHANGED zipSlots
        \/ item.kind = "track" /\ releaseAlbumZip /\ archive' = [archive EXCEPT ![r] = [put(FALSE) EXCEPT !.at = "broken"]]
        \/ item.kind # "track" /\ UNCHANGED zipSlots /\ archive' = [archive EXCEPT ![r] = put(FALSE)]
    BY <1>7, <2>0 DEF WriteZipEntry
  <2>5. DOMAIN z = Fields
    BY <2>1 DEF ArchiveFits
  <2>10. DOMAIN after = Fields /\ after.at = "entry" /\ after.plan = z.plan \ {next}
         /\ after.entries = z.entries /\ after.unread = z.unread
    BY <2>0, <2>1, <2>5 DEF Fields
  <2>6. onDisk \subseteq FilesIn(z) \cup {ZipItems[i].file : i \in z.plan \ {next}} \cup {item.file}
    BY <2>0, <2>1, <2>2 DEF ArchiveFits, FilesPlanned
  <2>7. CASE item.file \notin onDisk /\ UNCHANGED zipSlots
              /\ archive' = [archive EXCEPT ![r] = [after EXCEPT !.unread = z.unread \cup {item.file}]]
    <3> DEFINE y == [after EXCEPT !.unread = z.unread \cup {item.file}]
    <3>1. DOMAIN y = Fields /\ y.at = "entry" /\ y.plan = z.plan \ {next} /\ y.entries = z.entries
          /\ y.unread = z.unread \cup {item.file}
      BY <2>10 DEF Fields
    <3>2. archive' = [archive EXCEPT ![r] = y]
      BY <2>7
    <3> HIDE DEF y
    <3>3. ArchiveFits(y, onDisk)
      BY <2>1, <2>6, <2>7, <3>1 DEF ArchiveFits, FilesIn, FilesPlanned
    <3> QED
      BY <2>0, <2>1, <2>7, <3>1, <3>2, <3>3, ArchiveMoves DEF HoldsSlot
  <2>8. ASSUME NEW whole \in BOOLEAN, NEW at \in {"entry", "broken"}, NEW y, archive' = [archive EXCEPT ![r] = y],
               DOMAIN y = Fields, y.at = at, y.plan = z.plan \ {next}, y.unread = z.unread,
               y.entries = Append(z.entries, ZipEntry(item, z, whole)),
               whole \/ item.kind # "track" \/ at = "broken",
               IF at = "broken" THEN releaseAlbumZip ELSE UNCHANGED zipSlots
        PROVE  ZipInv'
    <3> DEFINE s == Append(z.entries, ZipEntry(item, z, whole))
    <3>1. y.at = at /\ y.plan = z.plan \ {next} /\ y.entries = s /\ y.unread = z.unread
      BY <2>8
    <3>0. s = Append(z.entries, ZipEntry(item, z, whole))
      OBVIOUS
    <3> HIDE DEF s
    <3>2. /\ IsSequence(s) /\ IsFiniteSet(NamesOf(s)) /\ Cardinality(NamesOf(s)) = Len(s)
          /\ FilesWritten(s) = FilesIn(z) \cup {item.file}
          /\ \A i \in 1 .. Len(s) : \/ i <= Len(z.entries) /\ s[i] = z.entries[i]
                                    \/ s[i].whole = whole /\ s[i].kind = item.kind
      <4>1. ArchiveFits(z, onDisk) /\ IsSequence(item.name)
        BY <2>1, <2>3
      <4>2. Added(s, z, item, whole)
        BY <3>0, <4>1, EntryAdded
      <4> QED
        BY <4>2 DEF Added
    <3>3. at # "broken" => \A i \in 1 .. Len(s) : s[i].whole \/ s[i].kind # "track"
      <4>1. Len(s) \in Nat /\ Len(z.entries) \in Nat
        BY <2>1, <3>2 DEF IsSequence, ArchiveFits
      <4> QED
        BY <2>1, <2>8, <3>2, <4>1 DEF ArchiveFits
    <3>4. FilesIn(y) = FilesIn(z) \cup {item.file} /\ FilesPlanned(y) = {ZipItems[i].file : i \in z.plan \ {next}}
      BY <3>1, <3>2 DEF FilesIn, FilesPlanned
    <3>5. onDisk \subseteq FilesIn(y) \cup FilesPlanned(y)
      BY <2>6, <3>4
    <3>7. ArchiveFits(y, onDisk)
      BY <2>1, <2>8, <3>1, <3>2, <3>3, <3>5 DEF ArchiveFits
    <3> QED
      BY <2>0, <2>1, <2>8, <3>1, <3>7, ArchiveMoves DEF HoldsSlot
  <2>9. ASSUME NEW whole \in BOOLEAN, NEW y, y = put(whole)
        PROVE  /\ DOMAIN y = Fields /\ y.at = "entry" /\ y.plan = z.plan \ {next} /\ y.unread = z.unread
               /\ y.entries = Append(z.entries, ZipEntry(item, z, whole))
    BY <2>9, <2>10 DEF Fields
  <2>11. ASSUME NEW whole \in BOOLEAN, archive' = [archive EXCEPT ![r] = put(whole)], whole \/ item.kind # "track",
                UNCHANGED zipSlots
         PROVE  ZipInv'
    <3>1. PICK y : y = put(whole)
      OBVIOUS
    <3> HIDE DEF put
    <3>2. DOMAIN y = Fields /\ y.at = "entry" /\ y.plan = z.plan \ {next} /\ y.unread = z.unread
          /\ y.entries = Append(z.entries, ZipEntry(item, z, whole))
      BY <2>9, <3>1
    <3> QED
      BY <2>8, <2>11, <3>1, <3>2
  <2>12. ASSUME archive' = [archive EXCEPT ![r] = [put(FALSE) EXCEPT !.at = "broken"]], releaseAlbumZip
         PROVE  ZipInv'
    <3>1. PICK y : y = [put(FALSE) EXCEPT !.at = "broken"]
      OBVIOUS
    <3> HIDE DEF put
    <3>2. DOMAIN y = Fields /\ y.at = "broken" /\ y.plan = z.plan \ {next} /\ y.unread = z.unread
          /\ y.entries = Append(z.entries, ZipEntry(item, z, FALSE))
      <4>1. PICK x : x = put(FALSE)
        OBVIOUS
      <4>2. DOMAIN x = Fields /\ x.at = "entry" /\ x.plan = z.plan \ {next} /\ x.unread = z.unread
            /\ x.entries = Append(z.entries, ZipEntry(item, z, FALSE))
        BY <2>9, <4>1
      <4>3. y = [x EXCEPT !.at = "broken"]
        BY <3>1, <4>1
      <4> QED
        BY <4>2, <4>3 DEF Fields
    <3> QED
      BY <2>8, <2>12, <3>1, <3>2
  <2> HIDE DEF put
  <2> QED
    BY <2>4, <2>7, <2>11, <2>12
<1>8. ASSUME NEW r \in ZipRequests, AnswerWithoutZip(r) \/ CloseZip(r)
      PROVE  ZipInv'
  BY <1>5, <1>8 DEF AnswerWithoutZip, CloseZip, HoldsSlot
<1> QED
  BY <1>1, <1>2, <1>4, <1>6, <1>7, <1>8 DEF ZipNext

LEMMA ZipInvHolds == ServicesSpec => []ZipInv
<1>1. ServicesInit => ZipInv
  BY ZipInvInit DEF ServicesInit
<1>2. ZipInv /\ [ServicesNext]_<<scene, services>> => ZipInv'
  BY ZipInvStep, ScenesAreSteps
<1> QED BY <1>1, <1>2, PTL DEF ServicesSpec

(* What the server streams is whole and let go of once: the slots of the   *)
(* album zips are held by the requests under way and by nothing else, and  *)
(* a zip that was finished has every file that is still there, each under  *)
(* a name of its own; an event connection's channel is closed once.        *)
THEOREM ResponsesAlwaysSound == ServicesSpec => []ResponsesSound
<1>1. ZipInv => ArchiveWhole
  <2> SUFFICES ASSUME ZipInv PROVE ArchiveWhole
    OBVIOUS
  <2>1. zipSlots = Cardinality({r \in ZipRequests : archive[r].at \in {"resolve", "entry"}})
    BY DEF ZipInv, Slotted, HoldsSlot
  <2>2. ASSUME NEW r \in ZipRequests, NEW z, z = archive[r], z.at = "closed"
        PROVE  /\ Cardinality(NamesOf(z.entries)) = Len(z.entries)
               /\ onDisk \subseteq {z.entries[i].file : i \in DOMAIN z.entries} /\ z.unread \cap onDisk = {}
               /\ \A i \in DOMAIN z.entries : z.entries[i].whole \/ z.entries[i].kind # "track"
    <3>1. ArchiveFits(z, onDisk)
      BY <2>2 DEF ZipInv
    <3>2. DOMAIN z.entries = 1 .. Len(z.entries)
      BY <3>1 DEF ArchiveFits, IsSequence
    <3>3. onDisk \subseteq FilesIn(z)
      BY <2>2, <3>1 DEF ArchiveFits, FilesPlanned
    <3> QED
      BY <2>2, <3>1, <3>2, <3>3 DEF ArchiveFits, FilesIn, FilesWritten
  <2> QED
    BY <2>1, <2>2 DEF ArchiveWhole
<1>2. ChannelClosedOnce /\ ArchiveWhole => ResponsesSound
  BY DEF ResponsesSound
<1> QED BY <1>1, <1>2, HubCloses, ZipInvHolds, PTL
----------------------------------------------------------------------------
(* Types of the services *)

\* A listener's buffer holds events, and no more than it may.
BufTyped == buf \in [Clients -> Seq(EventTypes)] /\ \A c \in Clients : Len(buf[c]) <= BufferSize

LEMMA BufStep == BufTyped /\ [HubNext]_hubVars => BufTyped'
<1> SUFFICES ASSUME BufTyped, [HubNext]_hubVars PROVE BufTyped'
  OBVIOUS
<1> USE HubAssumption
<1>1. CASE UNCHANGED buf
  BY <1>1 DEF BufTyped
<1>2. ASSUME NEW t \in EventTypes, Broadcast(t)
      PROVE  BufTyped'
  <2>1. ASSUME NEW c \in Clients
        PROVE  /\ Append(buf[c], t) \in Seq(EventTypes) /\ Len(Append(buf[c], t)) = Len(buf[c]) + 1
               /\ buf[c] \in Seq(EventTypes) /\ Len(buf[c]) \in Nat /\ Len(buf[c]) <= BufferSize
    BY DEF BufTyped
  <2> QED
    BY <1>2, <2>1 DEF Broadcast, BufTyped
<1>3. ASSUME NEW c \in Clients, ServeEvent(c)
      PROVE  BufTyped'
  <2>1. Tail(buf[c]) \in Seq(EventTypes) /\ Len(Tail(buf[c])) <= BufferSize
    BY <1>3 DEF BufTyped, ServeEvent
  <2> QED
    BY <1>3, <2>1 DEF ServeEvent, BufTyped
<1> QED
  BY <1>1, <1>2, <1>3 DEF HubNext, hubVars, Register, Unregister, CloseTaken, UnregisterByUserID, HubShutdown

\* Whatever becomes of an account, an active admin is left.
LEMMA AdminLeft ==
  ASSUME AccountTyped, countActiveAdmins(users) >= 1, NEW u, NEW a, users' = [users EXCEPT ![u] = a],
         ~isActiveAdmin(users[u]) \/ isActiveAdmin(a) \/ ~(countActiveAdmins(users) <= 1)
  PROVE  countActiveAdmins(users') >= 1
<1> DEFINE A == {q \in Users : isActiveAdmin(users[q])}
           B == {q \in Users : isActiveAdmin(users'[q])}
<1>1. IsFiniteSet(A) /\ IsFiniteSet(B) /\ IsFiniteSet(A \ {u})
  BY AccountAssumption, FS_Subset
<1>2. \A q \in Users : users'[q] = IF q = u THEN a ELSE users[q]
  BY DEF AccountTyped
<1>3. A \ {u} \subseteq B /\ (u \in A /\ isActiveAdmin(a) => u \in B) /\ (u \in A => isActiveAdmin(users[u]))
  BY <1>2
<1>4. Cardinality(A) >= 1 /\ (u \in A => isActiveAdmin(a) \/ Cardinality(A) > 1)
  <2>1. Cardinality(A) = countActiveAdmins(users) /\ Cardinality(A) \in Nat
    BY <1>1, FS_CardinalityType DEF countActiveAdmins
  <2> QED
    BY <1>3, <2>1
<1>5. Cardinality(B) = countActiveAdmins(users')
  BY DEF countActiveAdmins
<1> HIDE DEF A, B
<1>6. CASE A \subseteq B
  BY <1>1, <1>4, <1>5, <1>6, FS_Subset, FS_CardinalityType
<1>7. CASE u \in A /\ ~isActiveAdmin(a)
  <2>1. Cardinality(A \ {u}) = Cardinality(A) - 1 /\ Cardinality(A \ {u}) <= Cardinality(B)
    BY <1>1, <1>3, <1>7, FS_RemoveElement, FS_Subset
  <2>2. Cardinality(A) \in Nat /\ Cardinality(B) \in Nat
    BY <1>1, FS_CardinalityType
  <2> QED
    BY <1>4, <1>5, <1>7, <2>1, <2>2
<1> QED
  BY <1>3, <1>6, <1>7

LEMMA AdminStays ==
  ASSUME AccountTyped, [AccountNext]_accountVars, countActiveAdmins(users) >= 1
  PROVE  countActiveAdmins(users') >= 1
<1>1. ASSUME NEW u \in Users, NEW role, handleCreateUser(u, role)
      PROVE  countActiveAdmins(users') >= 1
  <2>1. ~isActiveAdmin(users[u])
    BY <1>1 DEF handleCreateUser, NoUser, isActiveAdmin
  <2> QED
    BY <1>1, <2>1, AdminLeft DEF handleCreateUser
<1>2. ASSUME NEW u \in Users, handleDeleteUser(u)
      PROVE  countActiveAdmins(users') >= 1
  BY <1>2, AdminLeft DEF handleDeleteUser
<1>3. CASE UpdateUserGuarded
  <2>2. CASE UNCHANGED users
    BY <2>2
  <2>3. CASE /\ users' = [users EXCEPT ![edit.user] = edit.patch]
             /\ ~(isActiveAdmin(users[edit.user]) /\ ~isActiveAdmin(edit.patch) /\ countActiveAdmins(users) <= 1)
    BY <2>3, AdminLeft
  <2> QED
    BY <1>3, <2>2, <2>3 DEF UpdateUserGuarded
<1>4. CASE UNCHANGED users
  BY <1>4
<1> QED
  BY <1>1, <1>2, <1>3, <1>4 DEF AccountNext, accountVars, LoginRead, LoginCreate, LoginCheck, Validate, Renew, handleLogout,
     handleUpdateUser, invalidateUserSessions, Prune, DayPasses

\* A profile that is kept says something a profile can say.
SearchTyped ==
  /\ profiles = [i \in ProfileIds |-> profiles[i]]
  /\ \A i \in ProfileIds : profiles[i] = NoProfile \/ profiles[i] \in [content : Contents, isDefault : BOOLEAN]
  /\ saving = NotSaving \/ saving.content \in Contents
  /\ "at" \in DOMAIN finding /\ finding.at \in {"idle", "asking", "choosing", "chosen", "none"}
  /\ "at" \in DOMAIN albumQueue /\ albumQueue.at \in {"idle", "albums", "tracks", "over"}

LEMMA SearchTypedInit == SearchInit => SearchTyped
  BY DEF SearchInit, SearchTyped, NotFinding, NoAlbumQueue

LEMMA SearchTypedStep == SearchTyped /\ [SearchNext]_searchVars => SearchTyped'
<1> SUFFICES ASSUME SearchTyped, [SearchNext]_searchVars PROVE SearchTyped'
  OBVIOUS
<1> DEFINE ProfilesTyped ==
      /\ profiles' = [i \in ProfileIds |-> profiles'[i]]
      /\ \A i \in ProfileIds : profiles'[i] = NoProfile \/ profiles'[i] \in [content : Contents, isDefault : BOOLEAN]
           SavingTyped == saving' = NotSaving \/ saving'.content \in Contents
           FindingTyped == "at" \in DOMAIN finding' /\ finding'.at \in {"idle", "asking", "choosing", "chosen", "none"}
           QueueTyped == "at" \in DOMAIN albumQueue' /\ albumQueue'.at \in {"idle", "albums", "tracks", "over"}
<1>1. UNCHANGED profiles => ProfilesTyped
  BY DEF SearchTyped
<1>2. UNCHANGED saving => SavingTyped
  BY DEF SearchTyped
<1>3. UNCHANGED finding => FindingTyped
  BY DEF SearchTyped
<1>4. UNCHANGED albumQueue => QueueTyped
  BY DEF SearchTyped
<1>5. ASSUME NEW i, NEW row \in [content : Contents, isDefault : BOOLEAN] \cup {NoProfile},
             profiles' = [profiles EXCEPT ![i] = row]
      PROVE  ProfilesTyped
  BY <1>5 DEF SearchTyped
<1>6. SeedProfiles \/ CreateProfile \/ DeleteProfile => ProfilesTyped /\ UNCHANGED <<saving, finding, albumQueue>>
  BY <1>5 DEF SeedProfiles, CreateProfile, DeleteProfile, Finder
<1>7. SetDefault => ProfilesTyped /\ UNCHANGED <<saving, finding, albumQueue>>
  BY ZenonT(40) DEF SetDefault, Finder, SearchTyped, Kept
<1>8. ReadForUpdate => SavingTyped /\ UNCHANGED <<profiles, finding, albumQueue>>
  BY DEF ReadForUpdate, Finder
<1>9. Update => ProfilesTyped /\ SavingTyped /\ UNCHANGED <<finding, albumQueue>>
  <2> SUFFICES ASSUME Update PROVE ProfilesTyped /\ SavingTyped /\ UNCHANGED <<finding, albumQueue>>
    OBVIOUS
  <2>1. CASE saving.id \in Kept
    <3>1. [profiles[saving.id] EXCEPT !.content = saving.content] \in [content : Contents, isDefault : BOOLEAN]
      BY <2>1 DEF Update, SearchTyped, Kept
    <3>2. profiles' = [profiles EXCEPT ![saving.id] = [profiles[saving.id] EXCEPT !.content = saving.content]]
      BY <2>1 DEF Update
    <3> QED
      BY <1>5, <3>1, <3>2 DEF Update, Finder
  <2>2. CASE saving.id \notin Kept
    BY <1>1, <2>2 DEF Update, Finder
  <2> QED
    BY <2>1, <2>2
<1>10. handleDownloadBest \/ AskSource \/ QueryEnds \/ FindBestMatch => FindingTyped /\ UNCHANGED <<profiles, saving, albumQueue>>
  <2>1. handleDownloadBest => FindingTyped
    BY DEF handleDownloadBest
  <2>2. \A s : AfterQuery(s) /\ finding.at = "asking" => FindingTyped
    BY DEF AfterQuery, SearchTyped
  <2>3. AskSource => FindingTyped
    BY <2>2 DEF AskSource, SearchTyped
  <2>4. QueryEnds => FindingTyped
    BY <2>2 DEF QueryEnds
  <2>5. FindBestMatch => FindingTyped
    <3>1. ASSUME NEW at \in {"chosen", "none"}, finding' = [finding EXCEPT !.at = at] PROVE FindingTyped
      BY <3>1 DEF SearchTyped
    <3> QED
      BY <3>1 DEF FindBestMatch
  <2> QED
    BY <2>1, <2>3, <2>4, <2>5 DEF handleDownloadBest, AskSource, QueryEnds, FindBestMatch
<1>11. albumFirstEligible \/ SearchAlbums \/ tryAlbumQueue \/ queueTrackFallback
         => QueueTyped /\ UNCHANGED <<profiles, saving, finding>>
  BY DEF albumFirstEligible, SearchAlbums, tryAlbumQueue, queueTrackFallback, SearchTyped, Finder
<1>12. ProfilesTyped /\ SavingTyped /\ FindingTyped /\ QueueTyped => SearchTyped'
  BY DEF SearchTyped
<1> HIDE DEF ProfilesTyped, SavingTyped, FindingTyped, QueueTyped
<1> QED
  BY <1>1, <1>2, <1>3, <1>4, <1>6, <1>7, <1>8, <1>9, <1>10, <1>11, <1>12 DEF SearchNext, searchVars

TypeInv == BufTyped /\ countActiveAdmins(users) >= 1 /\ SearchTyped

LEMMA TypeInvHolds == ServicesSpec => []TypeInv
<1>1. ServicesInit => TypeInv
  <2> SUFFICES ASSUME ServicesInit PROVE TypeInv
    OBVIOUS
  <2>1. BufTyped
    BY HubAssumption DEF ServicesInit, HubInit, BufTyped
  <2>2. countActiveAdmins(users) >= 1
    <3> DEFINE A == {u \in Users : isActiveAdmin(users[u])}
    <3>1. IsFiniteSet(A) /\ Cardinality(A) \in Nat
      BY AccountAssumption, FS_Subset, FS_CardinalityType
    <3>2. 1 \in A
      <4>1. users[1] = EnsureBootstrapAdmin /\ 1 \in Users
        BY AccountAssumption DEF ServicesInit, AccountInit
      <4>2. isActiveAdmin(EnsureBootstrapAdmin)
        BY DEF EnsureBootstrapAdmin, NoUser, isActiveAdmin
      <4> QED
        BY <4>1, <4>2
    <3> HIDE DEF A
    <3>3. Cardinality(A) # 0
      BY <3>1, <3>2, FS_EmptySet
    <3>4. Cardinality(A) >= 1
      BY <3>1, <3>3
    <3> QED
      BY <3>4 DEF countActiveAdmins, A
  <2> QED
    BY <2>1, <2>2, SearchTypedInit DEF ServicesInit, TypeInv
<1>2. TypeInv /\ AccountInv /\ [ServicesNext]_<<scene, services>> => TypeInv'
  BY BufStep, AdminStays, SearchTypedStep, ScenesAreSteps DEF TypeInv, AccountInv
<1> QED BY <1>1, <1>2, AccountInvHolds, PTL DEF ServicesSpec

(* Every component's variables keep their types, and more than types: no   *)
(* edit takes the last active admin, no listener's buffer overflows, no    *)
(* more zips are served than there are slots.                              *)
THEOREM ServicesTyped == ServicesSpec => []ServicesTypeOK
<1> DEFINE Inv == /\ HubInv /\ JobInv /\ TrackTyped /\ AccountInv /\ RunInv /\ ListTyped
                  /\ TypeInv /\ SettingsInv /\ ZipInv
<1>1. Inv => ServicesTypeOK
  <2> SUFFICES ASSUME Inv PROVE ServicesTypeOK
    OBVIOUS
  <2>1. HubTypeOK
    BY DEF HubInv, TypeInv, BufTyped, HubTypeOK
  <2>2. JobTypeOK
    BY DEF JobInv, JobTyped, Phases, WorkSound, WorkOf, Saved, FinalStates, JobTypeOK
  <2>3. TrackTypeOK
    BY DEF TrackTyped, AlbumRows, TrackTypeOK
  <2>4. AccountTypeOK
    BY DEF TypeInv, AccountInv, AccountTyped, AccountTypeOK
  <2>5. ListTypeOK
    <3>1. Rows \subseteq [song : Songs \cup {"none"}, linked : BOOLEAN]
      <4>1. NoRow \in [song : Songs \cup {"none"}, linked : BOOLEAN]
        BY DEF NoRow
      <4>2. [song : Songs, linked : BOOLEAN] \subseteq [song : Songs \cup {"none"}, linked : BOOLEAN]
        OBVIOUS
      <4> QED
        BY <4>1, <4>2 DEF Rows
    <3>2. listing \in [Positions -> [song : Songs \cup {"none"}, linked : BOOLEAN]]
      BY <3>1 DEF ListTyped
    <3> QED
      BY <3>2 DEF ListTyped, Flags, Records, ListTypeOK
  <2>6. SearchTypeOK
    BY DEF TypeInv, SearchTyped, SearchTypeOK, Kept
  <2>7. SettingsTypeOK
    <3>1. Len(wake) <= 1
      <4>1. wake = <<>> \/ \E w \in SUBSET Plugins : wake = <<w>>
        BY DEF SettingsInv, CheckerInv
      <4>2. CASE wake = <<>>
        BY <4>2
      <4>3. \A w : Len(<<w>>) = 1
        OBVIOUS
      <4>4. CASE \E w \in SUBSET Plugins : wake = <<w>>
        BY <4>3, <4>4
      <4> QED
        BY <4>1, <4>2, <4>4
    <3> QED
      BY <3>1 DEF SettingsInv, SettingsTyped, CheckerInv, ConfigOk, SettingsTypeOK
  <2>8. ZipTypeOK
    BY DEF ZipInv, ArchiveFits, ZipTypeOK
  <2> QED
    BY <2>1, <2>2, <2>3, <2>4, <2>5, <2>6, <2>7, <2>8 DEF ServicesTypeOK
<1> QED
  BY <1>1, HubInvHolds, JobInvHolds, TrackTypedHolds, AccountInvHolds, ListInvHolds, TypeInvHolds, SettingsInvHolds,
     ZipInvHolds, PTL

----------------------------------------------------------------------------
(* What is chosen for download: the walk over the candidates               *)

ProfileShapes ==
  [targets : Seq(SUBSET Nat), fallback : BOOLEAN, mode : {"priority", "best_quality"}, byTier : BOOLEAN]
\* A candidate that is no excluded source's.
Eligible(c, excluded) ==
  /\ c.title \in Nat /\ c.artist \in Nat /\ c.duration \in Nat /\ c.quality \in Nat
  /\ c.source # excluded

LEMMA ScoresTyped ==
  ASSUME NEW c, NEW excluded, Eligible(c, excluded)
  PROVE  ScoreTrackMatchWithPath(c) \in Nat /\ TierScore(c) \in Nat
BY DEF Eligible, ScoreTrackMatchWithPath, TierScore

\* A target is the first that a candidate's quality meets, or past the last.
LEMMA IndexTyped ==
  ASSUME NEW c, NEW p \in ProfileShapes
  PROVE  /\ Len(p.targets) \in Nat /\ TargetIndex(c, p) \in Nat
         /\ Len(p.targets) = 0 => TargetIndex(c, p) = 1
<1>1. Len(p.targets) \in Nat
  BY DEF ProfileShapes
<1> DEFINE hit == {j \in 1 .. Len(p.targets) : c.quality \in p.targets[j]}
<1>2. hit \in SUBSET Nat /\ (Len(p.targets) = 0 => hit = {})
  BY <1>1
<1>3. TargetIndex(c, p) = IF hit = {} THEN Len(p.targets) + 1 ELSE Min(hit)
  BY DEF TargetIndex
<1> HIDE DEF hit
<1>4. hit # {} => Min(hit) \in Nat
  BY <1>2, LeastOf
<1> QED
  BY <1>1, <1>2, <1>3, <1>4

(* The walk goes from one candidate to the next.                           *)
LEMMA PickSteps ==
  ASSUME NEW s, Len(s) \in Nat \ {0}
  PROVE  LET P == Picks(s) IN
         P[0] = s[1] /\ \A i \in 1 .. Len(s) - 1 : P[i] = Better(P[i - 1], s[i + 1])
<1> DEFINE Over(b, i) == Better(b, s[i + 1])
           Q(n, g) == g = [i \in 0 .. n |-> IF i = 0 THEN s[1] ELSE Over(g[i - 1], i)]
           P == Picks(s)
<1>1. P = CHOOSE g : Q(Len(s) - 1, g)
  BY DEF Picks
<1> HIDE DEF Over
<1>2. ASSUME NEW n \in Nat PROVE \E g : Q(n, g)
  <2> DEFINE S == {k \in Nat : ~ \E g : Q(k, g)}
  <2> SUFFICES ASSUME S # {} PROVE FALSE
    OBVIOUS
  <2>1. PICK k \in S : \A y \in S : k <= y
    BY LeastOf
  <2>2. CASE k = 0
    <3> DEFINE g == [i \in 0 .. 0 |-> s[1]]
    <3>1. Q(0, g)
      OBVIOUS
    <3> QED
      BY <2>1, <2>2, <3>1
  <2>3. CASE k > 0
    <3>1. k \in Nat /\ k - 1 \in Nat /\ ~ (k <= k - 1) /\ \A y \in S : k <= y
      BY <2>1, <2>3
    <3>2. PICK h : Q(k - 1, h)
      <4> HIDE DEF Q
      <4>1. k - 1 \notin S
        <5> HIDE DEF S
        <5> QED
          BY <3>1
      <4> QED
        BY <3>1, <4>1
    <3> DEFINE g == [i \in 0 .. k |-> IF i = k THEN Over(h[k - 1], k) ELSE h[i]]
    <3>3. ASSUME NEW i \in 0 .. k
          PROVE  g[i] = IF i = 0 THEN s[1] ELSE Over(g[i - 1], i)
      <4>1. i < k => g[i] = h[i] /\ h[i] = (IF i = 0 THEN s[1] ELSE Over(h[i - 1], i))
        BY <3>2, <2>1
      <4>2. i > 0 => g[i - 1] = h[i - 1]
        BY <2>1, <2>3
      <4>3. i = k => g[i] = Over(h[k - 1], k)
        OBVIOUS
      <4> QED
        BY <4>1, <4>2, <4>3, <2>1, <2>3
    <3>4. Q(k, g)
      BY <3>3
    <3> QED
      BY <2>1, <3>4
  <2> QED
    BY <2>1, <2>2, <2>3
<1>3. Q(Len(s) - 1, P)
  <2> HIDE DEF Q
  <2>1. Len(s) - 1 \in Nat
    OBVIOUS
  <2> QED
    BY <1>1, <1>2, <2>1
<1>4. P[0] = s[1]
  BY <1>3
<1>5. \A i \in 1 .. Len(s) - 1 : P[i] = Over(P[i - 1], i)
  BY <1>3
<1> QED
  BY <1>4, <1>5 DEF Over

(* The walk ends with one of them; each better one of another costs less   *)
(* than Near per neighbour.                                                *)
LEMMA PickClose ==
  ASSUME NEW s, Len(s) \in Nat \ {0},
         \A k \in 1 .. Len(s) : ScoreTrackMatchWithPath(s[k]) \in Nat
  PROVE  /\ \E k \in 1 .. Len(s) : pickBestByScore(s) = s[k]
         /\ \A k \in 1 .. Len(s) :
              ScoreTrackMatchWithPath(s[k]) - ScoreTrackMatchWithPath(pickBestByScore(s)) <= Near * (Len(s) - 1)
<1> DEFINE P == Picks(s)
           Score(c) == ScoreTrackMatchWithPath(c)
           Good(i) == /\ \E k \in 1 .. i + 1 : P[i] = s[k]
                      /\ \A k \in 1 .. i + 1 : Score(s[k]) - Score(P[i]) <= Near * i
<1>0. Near = 20
  BY DEF Near
<1>1. P[0] = s[1] /\ \A i \in 1 .. Len(s) - 1 : P[i] = Better(P[i - 1], s[i + 1])
  BY PickSteps
<1>2. ASSUME NEW b, NEW c, Score(b) \in Nat, Score(c) \in Nat
      PROVE  \/ Better(b, c) = b /\ ~ (Score(c) - Score(b) > Near)
             \/ Better(b, c) = c /\ Score(c) - Score(b) > -Near
  <2>1. PICK d \in Int : d = Score(c) - Score(b)
    BY <1>2
  <2>2. Better(b, c) = IF d > Near \/ (d > -Near /\ TierScore(c) > TierScore(b)) THEN c ELSE b
    BY <2>1 DEF Better
  <2>3. d > Near => d > -Near
    BY <1>0
  <2> QED
    BY <2>1, <2>2, <2>3
<1> HIDE DEF P, Score
<1>3. \A k \in 1 .. Len(s) : Score(s[k]) \in Nat
  BY DEF Score
<1>4. Good(0)
  BY <1>0, <1>1, <1>3
<1>5. ASSUME NEW i \in 1 .. Len(s) - 1, NEW j \in Nat, j = i - 1, Good(j) PROVE Good(i)
  <2>1. j + 1 = i /\ i + 1 \in 1 .. Len(s) /\ i \in Nat
    BY <1>5
  <2>2. P[i] = Better(P[j], s[i + 1])
    BY <1>1, <1>5
  <2>3. PICK m \in 1 .. i : P[j] = s[m]
    BY <1>5, <2>1
  <2>4. Score(P[j]) \in Nat /\ Score(s[i + 1]) \in Nat
    BY <1>3, <2>1, <2>3
  <2>5. \A k \in 1 .. i : Score(s[k]) \in Nat /\ Score(s[k]) - Score(P[j]) <= 20 * j
    <3>1. \A k \in 1 .. i : Score(s[k]) - Score(P[j]) <= 20 * j
      BY <1>0, <1>5, <2>1
    <3>2. \A k \in 1 .. i : k \in 1 .. Len(s)
      BY <1>5
    <3> QED
      BY <1>3, <3>1, <3>2
  <2>5a. j \in Nat /\ i = j + 1
    BY <1>5
  <2>5b. \A q, a \in Nat : q - a <= 20 * j => q - a <= 20 * i
    BY <2>5a
  <2>5c. \A q, a, c \in Nat : q - a <= 20 * j /\ c - a > -20 => q - c <= 20 * i
    BY <2>5a
  <2>6. CASE P[i] = P[j] /\ ~ (Score(s[i + 1]) - Score(P[j]) > Near)
    <3>1. \A k \in 1 .. i + 1 : Score(s[k]) - Score(P[i]) <= 20 * i
      <4> TAKE k \in 1 .. i + 1
      <4>1. CASE k = i + 1
        BY <1>0, <2>1, <2>4, <2>6, <4>1
      <4>2. CASE k \in 1 .. i
        BY <2>4, <2>5, <2>5b, <2>6, <4>2
      <4> QED
        BY <2>1, <4>1, <4>2
    <3>2. m \in 1 .. i + 1
      BY <2>1
    <3> QED
      BY <1>0, <2>3, <2>6, <3>1, <3>2
  <2>7. CASE P[i] = s[i + 1] /\ Score(s[i + 1]) - Score(P[j]) > -Near
    <3>1. \A k \in 1 .. i + 1 : Score(s[k]) - Score(P[i]) <= 20 * i
      <4> TAKE k \in 1 .. i + 1
      <4>1. CASE k = i + 1
        BY <2>1, <2>4, <2>7, <4>1
      <4>2. CASE k \in 1 .. i
        BY <1>0, <2>4, <2>5, <2>5c, <2>7, <4>2
      <4> QED
        BY <2>1, <4>1, <4>2
    <3>2. i + 1 \in 1 .. i + 1
      BY <2>1
    <3> QED
      BY <1>0, <2>7, <3>1, <3>2
  <2> QED
    BY <1>2, <2>2, <2>4, <2>6, <2>7
<1>6. \A i \in 0 .. Len(s) - 1 : Good(i)
  <2> DEFINE S == {i \in 0 .. Len(s) - 1 : ~ Good(i)}
  <2> HIDE DEF Good
  <2> SUFFICES ASSUME S # {} PROVE FALSE
    OBVIOUS
  <2>1. S \in SUBSET Nat
    OBVIOUS
  <2>2. PICK i \in S : \A y \in S : i <= y
    BY <2>1, LeastOf
  <2>3. i \in 1 .. Len(s) - 1 /\ ~ Good(i)
    BY <1>4, <2>2
  <2>4. PICK j \in Nat : j = i - 1
    BY <2>3
  <2>5. j \in 0 .. Len(s) - 1 /\ ~ (i <= j)
    BY <2>3, <2>4
  <2>6. Good(j)
    BY <2>2, <2>5
  <2> QED
    BY <1>5, <2>3, <2>4, <2>6
<1>7. Good(Len(s) - 1) /\ Len(s) - 1 + 1 = Len(s) /\ pickBestByScore(s) = P[Len(s) - 1]
  BY <1>6 DEF pickBestByScore, P
<1> QED
  BY <1>7 DEF Score

(* The walk by tiers ends with the first of the best tier.                 *)
LEMMA PickTop ==
  ASSUME NEW s, Len(s) \in Nat \ {0}, \A k \in 1 .. Len(s) : TierScore(s[k]) \in Nat
  PROVE  /\ \E k \in 1 .. Len(s) : pickBestByTierScore(s) = s[k]
         /\ \A k \in 1 .. Len(s) : TierScore(s[k]) <= TierScore(pickBestByTierScore(s))
<1> DEFINE Tier(k) == TierScore(s[k])
           HasTop(n) == \E m \in 1 .. n : \A k \in 1 .. n : Tier(k) <= Tier(m)
<1>0. \A k \in 1 .. Len(s) : Tier(k) \in Nat
  OBVIOUS
<1>0a. pickBestByTierScore(s) =
         s[CHOOSE i \in 1 .. Len(s) :
             \A j \in 1 .. Len(s) : Tier(j) <= Tier(i) /\ (Tier(j) = Tier(i) => j >= i)]
  BY DEF pickBestByTierScore
<1>0b. \A k : TierScore(s[k]) = Tier(k)
  OBVIOUS
<1> HIDE DEF Tier
<1>1. HasTop(Len(s))
  <2> DEFINE S == {n \in 1 .. Len(s) : ~ HasTop(n)}
  <2> SUFFICES ASSUME S # {} PROVE FALSE
    <3> HIDE DEF HasTop
    <3>1. Len(s) \in 1 .. Len(s)
      OBVIOUS
    <3> QED
      BY <3>1
  <2>1. S \in SUBSET Nat
    OBVIOUS
  <2>2. PICK n \in S : \A y \in S : n <= y
    <3> HIDE DEF S
    <3> QED
      BY <2>1, LeastOf
  <2>3. n # 1
    <3>1. HasTop(1)
      <4>1. 1 \in 1 .. 1 /\ 1 \in 1 .. Len(s) /\ \A k \in 1 .. 1 : k = 1
        OBVIOUS
      <4> QED
        BY <1>0, <4>1
    <3> QED
      BY <2>2, <3>1
  <2>4. PICK j \in Nat : j = n - 1 /\ j \in 1 .. Len(s) /\ ~ (n <= j)
    BY <2>2, <2>3
  <2>5. HasTop(j)
    BY <2>2, <2>4
  <2>6. PICK m \in 1 .. j : \A k \in 1 .. j : Tier(k) <= Tier(m)
    BY <2>5
  <2>7. n \in 1 .. Len(s) /\ m \in 1 .. Len(s) /\ m \in 1 .. n /\ n \in 1 .. n
    BY <2>2, <2>4
  <2>7a. \A k \in 1 .. n : k = n \/ k \in 1 .. j
    BY <2>4, <2>7
  <2>7b. Tier(n) \in Nat /\ Tier(m) \in Nat /\ \A k \in 1 .. j : Tier(k) \in Nat
    <3>1. \A k \in 1 .. j : k \in 1 .. Len(s)
      BY <2>4
    <3> QED
      BY <1>0, <2>7, <3>1
  <2>8. CASE Tier(n) <= Tier(m)
    <3>1. \A k \in 1 .. n : Tier(k) <= Tier(m)
      BY <2>6, <2>7a, <2>8
    <3>2. HasTop(n)
      BY <2>7, <3>1
    <3> QED
      BY <2>2, <3>2
  <2>9. CASE Tier(m) <= Tier(n)
    <3>1. \A k \in 1 .. n : Tier(k) <= Tier(n)
      <4> TAKE k \in 1 .. n
      <4>1. CASE k = n
        BY <2>7b, <4>1
      <4>2. CASE k \in 1 .. j
        <5>1. Tier(k) <= Tier(m) /\ Tier(m) <= Tier(n) /\ Tier(k) \in Nat
          BY <2>6, <2>7b, <2>9, <4>2
        <5> QED
          BY <2>7b, <5>1
      <4> QED
        BY <2>7a, <4>1, <4>2
    <3>2. HasTop(n)
      BY <2>7, <3>1
    <3> QED
      BY <2>2, <3>2
  <2> QED
    BY <2>7b, <2>8, <2>9
<1>2. PICK first \in 1 .. Len(s) :
        \A j \in 1 .. Len(s) : Tier(j) <= Tier(first) /\ (Tier(j) = Tier(first) => j >= first)
  <2> DEFINE T == {m \in 1 .. Len(s) : \A k \in 1 .. Len(s) : Tier(k) <= Tier(m)}
  <2>1. T \in SUBSET Nat /\ T # {}
    <3>1. PICK m \in 1 .. Len(s) : \A k \in 1 .. Len(s) : Tier(k) <= Tier(m)
      BY <1>1
    <3>2. m \in T
      BY <3>1
    <3>3. T \in SUBSET Nat
      OBVIOUS
    <3> HIDE DEF T
    <3> QED
      BY <3>2, <3>3
  <2>2. PICK m \in T : \A y \in T : m <= y
    <3> HIDE DEF T
    <3> QED
      BY <2>1, LeastOf
  <2>3. ASSUME NEW j \in 1 .. Len(s), Tier(j) = Tier(m) PROVE j >= m
    <3>1. j \in T
      BY <2>2, <2>3
    <3> QED
      BY <2>2, <3>1
  <2> QED
    BY <2>2, <2>3
<1>3. PICK i \in 1 .. Len(s) : pickBestByTierScore(s) = s[i] /\ \A j \in 1 .. Len(s) : Tier(j) <= Tier(i)
  BY <1>0a, <1>2
<1> QED
  BY <1>0b, <1>3

\* What sorting leaves of s: those at the places "which", in some order.
Selected(t, s, which) ==
  /\ Len(t) \in Nat /\ Len(t) <= Len(s) /\ (Len(t) = 0 => t = <<>>)
  /\ \A i \in 1 .. Len(t) : \E j \in which : t[i] = s[j]
  /\ \A j \in which : \E i \in 1 .. Len(t) : t[i] = s[j]

LEMMA SortSelects ==
  ASSUME NEW s, Len(s) \in Nat, NEW which \in SUBSET (1 .. Len(s)), NEW t \in ByTier(s, which)
  PROVE  Selected(t, s, which)
<1>1. IsFiniteSet(1 .. Len(s)) /\ Cardinality(1 .. Len(s)) = Len(s)
  BY FS_Interval
<1>2. PICK n \in Nat : n = Cardinality(which) /\ n <= Len(s)
  <2>1. IsFiniteSet(which) /\ Cardinality(which) <= Cardinality(1 .. Len(s))
    BY <1>1, FS_Subset
  <2> QED
    BY <1>1, <2>1, FS_CardinalityType
<1>3. PICK f : f \in [1 .. n -> which] /\ (\A i \in which : \E j \in DOMAIN f : f[j] = i) /\ t = Rearranged(s, f)
  BY <1>2 DEF ByTier, Orders
<1>4. t = [i \in 1 .. n |-> s[f[i]]]
  BY <1>3 DEF Rearranged
<1>5. t \in Seq({s[i] : i \in which}) /\ Len(t) = n
  BY <1>3, <1>4
<1>6. Len(t) = 0 => t = <<>>
  BY <1>5
<1>7. \A i \in 1 .. Len(t) : f[i] \in which /\ t[i] = s[f[i]]
  BY <1>3, <1>4, <1>5
<1>8. \A j \in which : \E i \in 1 .. Len(t) : t[i] = s[j]
  <2> TAKE j \in which
  <2>1. PICK i \in 1 .. n : f[i] = j
    BY <1>3
  <2> QED
    BY <1>5, <1>7, <2>1
<1> QED
  BY <1>2, <1>5, <1>6, <1>7, <1>8 DEF Selected

(* The profile's part: those that are left are the ones it asks for.       *)
AskedFor(which, s, p) ==
  /\ \A j \in which : Fits(s[j], p)
  /\ p.mode = "priority" =>
       \A j \in which, k \in 1 .. Len(s) : TargetIndex(s[j], p) <= TargetIndex(s[k], p)
  /\ \A j \in which, k \in 1 .. Len(s) :
       (p.mode = "best_quality" /\ Fits(s[k], p)) \/ TargetIndex(s[k], p) = TargetIndex(s[j], p) => k \in which
ByProfile(s, p) == IF p.mode = "best_quality" THEN rankAllByQuality(s, p) ELSE FilterByProfile(s, p)

LEMMA ProfileSelects ==
  ASSUME NEW s, IsSequence(s), NEW p \in ProfileShapes, NEW t \in ByProfile(s, p), t # <<>>
  PROVE  \E which \in SUBSET (1 .. Len(s)) : Selected(t, s, which) /\ AskedFor(which, s, p)
<1>1. Len(s) \in Nat /\ DOMAIN s = 1 .. Len(s)
  BY DEF IsSequence
<1>2. /\ Len(p.targets) \in Nat /\ \A c : TargetIndex(c, p) \in Nat
      /\ \A c : Len(p.targets) = 0 => TargetIndex(c, p) = 1
  BY IndexTyped
<1>3. p.mode \in {"priority", "best_quality"}
  BY DEF ProfileShapes
<1>4. CASE p.mode = "best_quality"
  <2>1. PICK which : which = {i \in 1 .. Len(s) : p.fallback \/ Matched(s[i], p)}
    OBVIOUS
  <2>2. t \in ByTier(s, which) /\ which \in SUBSET (1 .. Len(s))
    BY <1>1, <1>4, <2>1 DEF ByProfile, rankAllByQuality
  <2>3. AskedFor(which, s, p)
    BY <1>4, <2>1 DEF AskedFor, Fits, Matched
  <2> QED
    BY <1>1, <2>2, <2>3, SortSelects
<1>5. CASE p.mode = "priority" /\ Len(p.targets) = 0
  <2>1. t = s
    BY <1>5 DEF ByProfile, FilterByProfile
  <2>2. PICK which : which = 1 .. Len(s)
    OBVIOUS
  <2>3. Len(s) # 0
    BY <2>1 DEF IsSequence
  <2>4. Selected(t, s, which)
    BY <1>1, <2>1, <2>2, <2>3 DEF Selected
  <2>5. AskedFor(which, s, p)
    BY <1>2, <1>5, <2>2 DEF AskedFor, Fits
  <2> QED
    BY <2>2, <2>4, <2>5
<1>6. CASE p.mode = "priority" /\ Len(p.targets) # 0
  <2>1. PICK T : T = {TargetIndex(s[i], p) : i \in 1 .. Len(s)}
    OBVIOUS
  <2>2. PICK top : top = Min(T)
    OBVIOUS
  <2>3. PICK which : which = {i \in 1 .. Len(s) : TargetIndex(s[i], p) = top}
    OBVIOUS
  <2>4. t \in (IF top > Len(p.targets) /\ ~p.fallback THEN {<<>>} ELSE ByTier(s, which))
    BY <1>1, <1>6, <2>1, <2>2, <2>3 DEF ByProfile, FilterByProfile
  <2>5. t \in ByTier(s, which) /\ ~ (top > Len(p.targets) /\ ~p.fallback) /\ which \in SUBSET (1 .. Len(s))
    BY <2>3, <2>4
  <2>6. Selected(t, s, which)
    BY <1>1, <2>5, SortSelects
  <2>7. ASSUME NEW j \in which, NEW k \in 1 .. Len(s) PROVE top <= TargetIndex(s[k], p) /\ TargetIndex(s[j], p) = top
    <3>1. T \in SUBSET Nat /\ TargetIndex(s[k], p) \in T /\ T # {}
      BY <1>2, <2>1
    <3> QED
      BY <2>2, <2>3, <2>7, <3>1, LeastOf
  <2>8. \A j \in which : Fits(s[j], p)
    BY <1>2, <2>3, <2>5 DEF Fits, Matched
  <2>9. AskedFor(which, s, p)
    BY <1>6, <2>3, <2>7, <2>8 DEF AskedFor
  <2> QED
    BY <2>5, <2>6, <2>9
<1> QED
  BY <1>3, <1>4, <1>5, <1>6
(* The answers are added one after the other.                              *)
LEMMA AddSteps ==
  ASSUME NEW s, NEW more, NEW name, Len(more) \in Nat
  PROVE  LET P == Additions(s, more, name) IN
         P[0] = s /\ \A i \in 1 .. Len(more) : P[i] = AddAnswer(P[i - 1], more[i], name)
<1> DEFINE Over(b, i) == AddAnswer(b, more[i], name)
           Q(n, g) == g = [i \in 0 .. n |-> IF i = 0 THEN s ELSE Over(g[i - 1], i)]
           P == Additions(s, more, name)
<1>1. P = CHOOSE g : Q(Len(more), g)
  BY DEF Additions
<1> HIDE DEF Over
<1>2. ASSUME NEW n \in Nat PROVE \E g : Q(n, g)
  <2> DEFINE S == {k \in Nat : ~ \E g : Q(k, g)}
  <2> SUFFICES ASSUME S # {} PROVE FALSE
    OBVIOUS
  <2>1. PICK k \in S : \A y \in S : k <= y
    BY LeastOf
  <2>2. CASE k = 0
    <3> DEFINE g == [i \in 0 .. 0 |-> s]
    <3>1. Q(0, g)
      OBVIOUS
    <3> QED
      BY <2>1, <2>2, <3>1
  <2>3. CASE k > 0
    <3>1. k \in Nat /\ k - 1 \in Nat /\ ~ (k <= k - 1) /\ \A y \in S : k <= y
      BY <2>1, <2>3
    <3>2. PICK h : Q(k - 1, h)
      <4> HIDE DEF Q
      <4>1. k - 1 \notin S
        <5> HIDE DEF S
        <5> QED
          BY <3>1
      <4> QED
        BY <3>1, <4>1
    <3> DEFINE g == [i \in 0 .. k |-> IF i = k THEN Over(h[k - 1], k) ELSE h[i]]
    <3>3. ASSUME NEW i \in 0 .. k
          PROVE  g[i] = IF i = 0 THEN s ELSE Over(g[i - 1], i)
      <4>1. i < k => g[i] = h[i] /\ h[i] = (IF i = 0 THEN s ELSE Over(h[i - 1], i))
        BY <3>2, <2>1
      <4>2. i > 0 => g[i - 1] = h[i - 1]
        BY <2>1, <2>3
      <4>3. i = k => g[i] = Over(h[k - 1], k)
        OBVIOUS
      <4> QED
        BY <4>1, <4>2, <4>3, <2>1, <2>3
    <3>4. Q(k, g)
      BY <3>3
    <3> QED
      BY <2>1, <3>4
  <2> QED
    BY <2>1, <2>2, <2>3
<1>3. Q(Len(more), P)
  <2> HIDE DEF Q
  <2> QED
    BY <1>1, <1>2
<1>4. P[0] = s
  BY <1>3
<1>5. \A i \in 1 .. Len(more) : P[i] = Over(P[i - 1], i)
  BY <1>3
<1> QED
  BY <1>4, <1>5 DEF Over

LEMMA MergedFits ==
  ASSUME NEW s, IsSequence(s), NEW more \in ResultLists, NEW name, NEW excluded, name # excluded,
         \A i \in 1 .. Len(s) : Eligible(s[i], excluded)
  PROVE  LET all == Merged(s, more, name) IN
         IsSequence(all) /\ \A i \in 1 .. Len(all) : Eligible(all[i], excluded)
<1> DEFINE Fine(t) == IsSequence(t) /\ \A i \in 1 .. Len(t) : Eligible(t[i], excluded)
           P == Additions(s, more, name)
<1>1. PICK n \in Nat : more \in [1 .. n -> Pool]
  BY ChoiceAssumption DEF ResultLists
<1>2. Len(more) = n
  <2>1. more \in Seq(Pool)
    BY <1>1
  <2> QED
    BY <1>1, <2>1
<1>3. P[0] = s /\ \A i \in 1 .. n : P[i] = AddAnswer(P[i - 1], more[i], name)
  BY <1>1, <1>2, AddSteps
<1>4. ASSUME NEW t, Fine(t), NEW c \in Pool PROVE Fine(AddAnswer(t, c, name))
  <2>1. PICK e : e = [c EXCEPT !.source = name]
    OBVIOUS
  <2>2. Eligible(e, excluded)
    BY <2>1, ChoiceAssumption DEF Eligible
  <2>3. AddAnswer(t, c, name) = t \/ AddAnswer(t, c, name) = Append(t, e)
    BY <2>1 DEF AddAnswer
  <2>4. Fine(Append(t, e))
    <3>1. PICK m \in Nat : m = Len(t)
      BY <1>4 DEF IsSequence
    <3>2. PICK u : u = Append(t, e)
      OBVIOUS
    <3>3. IsSequence(u) /\ Len(u) = m + 1 /\ (\A k \in 1 .. m : u[k] = t[k]) /\ u[m + 1] = e
      BY <1>4, <3>1, <3>2, Appended
    <3>4. \A i \in 1 .. m + 1 : i = m + 1 \/ i \in 1 .. m
      BY <3>1
    <3>5. \A i \in 1 .. Len(u) : Eligible(u[i], excluded)
      BY <1>4, <2>2, <3>1, <3>3, <3>4
    <3> QED
      BY <3>2, <3>3, <3>5
  <2> QED
    BY <1>4, <2>3, <2>4
<1> HIDE DEF P
<1>5. \A i \in 0 .. n : Fine(P[i])
  <2> DEFINE S == {i \in 0 .. n : ~ Fine(P[i])}
  <2>0. Fine(P[0])
    BY <1>3
  <2> HIDE DEF Fine
  <2> SUFFICES ASSUME S # {} PROVE FALSE
    OBVIOUS
  <2>1. S \in SUBSET Nat
    OBVIOUS
  <2>2. PICK i \in S : \A y \in S : i <= y
    BY <2>1, LeastOf
  <2>3. i \in 1 .. n /\ ~ Fine(P[i])
    BY <2>0, <2>2
  <2>4. PICK j \in Nat : j = i - 1
    BY <2>3
  <2>5. j \in 0 .. n /\ ~ (i <= j) /\ more[i] \in Pool
    BY <1>1, <2>3, <2>4
  <2>6. Fine(P[j])
    BY <2>2, <2>5
  <2>7. P[i] = AddAnswer(P[j], more[i], name)
    BY <1>3, <2>3, <2>4
  <2> QED
    BY <1>4, <2>3, <2>5, <2>6, <2>7
<1>6. Fine(P[n]) /\ Merged(s, more, name) = P[n]
  BY <1>2, <1>5 DEF Merged, P
<1> QED
  BY <1>6

(* The profile read stays one, no candidate is an excluded source's, what  *)
(* was chosen fits, and an album that was queued as such was queued alone. *)
FindingFields == {"at", "query", "queries", "left", "excluded", "profile"}
BestFits ==
  LET p == finding.profile IN
  /\ best \in Found /\ Fits(best, p) /\ best.source # finding.excluded
  /\ p.mode = "priority" => \A c \in Found : TargetIndex(best, p) <= TargetIndex(c, p)
  /\ \A c \in Found :
       (p.mode = "best_quality" /\ Fits(c, p)) \/ TargetIndex(c, p) = TargetIndex(best, p) =>
         IF p.byTier THEN TierScore(best) >= TierScore(c)
         ELSE ScoreTrackMatchWithPath(c) - ScoreTrackMatchWithPath(best) <= Near * (Len(candidates) - 1)
FindTyped ==
  /\ DOMAIN finding = FindingFields
  /\ finding.at # "idle" => finding.profile \in ProfileShapes
  /\ finding.at = "idle" => candidates = <<>>
CandidatesFit ==
  IsSequence(candidates) /\ \A i \in 1 .. Len(candidates) : Eligible(candidates[i], finding.excluded)
QueueFits ==
  /\ DOMAIN albumQueue = {"at", "left", "releases", "queued", "tracks"}
  /\ albumQueue.at # "over" => albumQueue.queued = 0
  /\ albumQueue.at \in {"idle", "albums"} => albumQueue.tracks = 0
  /\ albumQueue.queued # 0 => albumQueue.tracks = 0
ChoiceInv == FindTyped /\ CandidatesFit /\ (finding.at = "chosen" => BestFits) /\ QueueFits

LEMMA ChosenIfFits == ChoiceInv => ChosenFits
BY DEF ChoiceInv, BestFits, QueueFits, ChosenFits

LEMMA ChoiceInvInit == SearchInit => ChoiceInv
<1> SUFFICES ASSUME SearchInit PROVE ChoiceInv
  OBVIOUS
<1>1. candidates = <<>> /\ finding = NotFinding /\ albumQueue = NoAlbumQueue
  BY DEF SearchInit
<1>2. CandidatesFit
  BY <1>1 DEF CandidatesFit, IsSequence
<1>3. FindTyped /\ finding.at # "chosen"
  BY <1>1 DEF FindTyped, FindingFields, NotFinding
<1>4. QueueFits
  BY <1>1 DEF QueueFits, NoAlbumQueue
<1> QED
  BY <1>2, <1>3, <1>4 DEF ChoiceInv

\* Whoever does not search or choose leaves it as it is.
LEMMA FinderStands ==
  ASSUME ChoiceInv, UNCHANGED <<finding, candidates, best>>
  PROVE  FindTyped' /\ CandidatesFit' /\ (finding'.at = "chosen" => BestFits')
BY DEF ChoiceInv, FindTyped, CandidatesFit, BestFits, Found

LEMMA StartFits == ASSUME SearchTyped, ChoiceInv, handleDownloadBest PROVE ChoiceInv'
<1>1. DefaultProfile \in ProfileShapes
  <2>1. <<{3, 4}, {2}>> \in Seq(SUBSET Nat)
    OBVIOUS
  <2> QED
    BY <2>1 DEF DefaultProfile, ProfileShapes
<1>2. LoadDefault \subseteq ProfileShapes
  <2>1. \A i \in Kept : profiles[i].content \in ProfileShapes
    BY ChoiceAssumption DEF SearchTyped, Kept, ProfileShapes
  <2> QED
    BY <1>1, <2>1 DEF LoadDefault
<1>3. PICK p \in LoadDefault : \E o, q, x :
        finding' = [at |-> "asking", query |-> 1, queries |-> q, left |-> o, excluded |-> x, profile |-> p]
  BY DEF handleDownloadBest
<1>4. candidates' = <<>> /\ albumQueue' = albumQueue
  BY DEF handleDownloadBest, ChoiceInv, FindTyped
<1>5. FindTyped' /\ finding'.at = "asking"
  BY <1>2, <1>3 DEF FindTyped, FindingFields
<1>6. CandidatesFit'
  BY <1>4 DEF CandidatesFit, IsSequence
<1>7. QueueFits'
  BY <1>4 DEF ChoiceInv, QueueFits
<1> QED
  BY <1>5, <1>6, <1>7 DEF ChoiceInv

\* The search goes on, or is over.
LEMMA GoesOnFits ==
  ASSUME ChoiceInv, finding.at = "asking", AfterQuery(candidates'),
         IsSequence(candidates'), \A i \in 1 .. Len(candidates') : Eligible(candidates'[i], finding.excluded),
         albumQueue' = albumQueue
  PROVE  ChoiceInv'
<1>1. PICK at \in {"asking", "choosing"} :
        /\ DOMAIN finding' = FindingFields /\ finding'.at = at
        /\ finding'.profile = finding.profile /\ finding'.excluded = finding.excluded
  BY DEF AfterQuery, ChoiceInv, FindTyped, FindingFields
<1>2. FindTyped' /\ finding'.at # "chosen"
  BY <1>1 DEF ChoiceInv, FindTyped
<1>3. CandidatesFit'
  BY <1>1 DEF CandidatesFit
<1>4. QueueFits'
  BY DEF ChoiceInv, QueueFits
<1> QED
  BY <1>2, <1>3, <1>4 DEF ChoiceInv

LEMMA AskSourceFits == ASSUME ChoiceInv, AskSource PROVE ChoiceInv'
<1>1. PICK name : name = Head(finding.left)
  OBVIOUS
<1>2. finding.at = "asking" /\ albumQueue' = albumQueue
  BY DEF AskSource
<1>3. ASSUME NEW a \in ResultLists, name # finding.excluded, candidates' = Merged(candidates, a, name),
             AfterQuery(candidates')
      PROVE  ChoiceInv'
  <2>1. /\ IsSequence(candidates')
        /\ \A i \in 1 .. Len(candidates') : Eligible(candidates'[i], finding.excluded)
    BY <1>3, MergedFits DEF ChoiceInv, CandidatesFit
  <2> QED
    BY <1>2, <1>3, <2>1, GoesOnFits
<1>4. CASE finding' = [finding EXCEPT !.left = Tail(@)] /\ UNCHANGED candidates
  <2>1. DOMAIN finding' = FindingFields /\ finding'.at = "asking" /\ finding'.profile = finding.profile
        /\ finding'.excluded = finding.excluded
    BY <1>2, <1>4 DEF ChoiceInv, FindTyped, FindingFields
  <2>2. FindTyped'
    BY <1>2, <2>1 DEF ChoiceInv, FindTyped
  <2>3. CandidatesFit'
    BY <1>4, <2>1 DEF ChoiceInv, CandidatesFit
  <2>4. QueueFits'
    BY <1>2 DEF ChoiceInv, QueueFits
  <2> QED
    BY <2>1, <2>2, <2>3, <2>4 DEF ChoiceInv
<1> QED
  BY <1>1, <1>3, <1>4 DEF AskSource

LEMMA QueryEndsFits == ASSUME ChoiceInv, QueryEnds PROVE ChoiceInv'
<1>1. finding.at = "asking" /\ candidates' = candidates /\ albumQueue' = albumQueue /\ AfterQuery(candidates')
  BY DEF QueryEnds
<1> QED
  BY <1>1, GoesOnFits DEF ChoiceInv, CandidatesFit

(* What the walk ends with is what the profile asks for.                   *)
LEMMA WalkFits ==
  ASSUME NEW s, IsSequence(s), NEW excluded, \A i \in 1 .. Len(s) : Eligible(s[i], excluded),
         NEW p \in ProfileShapes, NEW t \in ByProfile(s, p), t # <<>>,
         NEW b, b = IF p.byTier THEN pickBestByTierScore(t) ELSE pickBestByScore(t)
  PROVE  LET all == {s[i] : i \in 1 .. Len(s)} IN
         /\ b \in all /\ Fits(b, p) /\ b.source # excluded
         /\ p.mode = "priority" => \A c \in all : TargetIndex(b, p) <= TargetIndex(c, p)
         /\ \A c \in all :
              (p.mode = "best_quality" /\ Fits(c, p)) \/ TargetIndex(c, p) = TargetIndex(b, p) =>
                IF p.byTier THEN TierScore(b) >= TierScore(c)
                ELSE ScoreTrackMatchWithPath(c) - ScoreTrackMatchWithPath(b) <= Near * (Len(s) - 1)
<1>1. PICK which \in SUBSET (1 .. Len(s)) : Selected(t, s, which) /\ AskedFor(which, s, p)
  BY ProfileSelects
<1>2. PICK n \in Nat \ {0} : n = Len(t) /\ n <= Len(s)
  BY <1>1 DEF Selected
<1>3. Len(s) \in Nat
  BY DEF IsSequence
<1>4. \A k \in 1 .. n : \E j \in which : t[k] = s[j]
  BY <1>1, <1>2 DEF Selected
<1>5. \A k \in 1 .. n : ScoreTrackMatchWithPath(t[k]) \in Nat /\ TierScore(t[k]) \in Nat
  BY <1>4, ScoresTyped
<1>6. PICK k \in 1 .. n : b = t[k]
  BY <1>2, <1>5, PickTop, PickClose
<1>7. PICK j \in which : b = s[j]
  BY <1>4, <1>6
<1>8. b \in {s[i] : i \in 1 .. Len(s)} /\ Fits(b, p) /\ b.source # excluded
  BY <1>1, <1>7 DEF AskedFor, Eligible
<1>9. p.mode = "priority" => \A i \in 1 .. Len(s) : TargetIndex(b, p) <= TargetIndex(s[i], p)
  BY <1>1, <1>7 DEF AskedFor
<1>10. ASSUME NEW i \in 1 .. Len(s),
              (p.mode = "best_quality" /\ Fits(s[i], p)) \/ TargetIndex(s[i], p) = TargetIndex(b, p)
       PROVE  IF p.byTier THEN TierScore(b) >= TierScore(s[i])
              ELSE ScoreTrackMatchWithPath(s[i]) - ScoreTrackMatchWithPath(b) <= Near * (Len(s) - 1)
  <2>1. i \in which
    BY <1>1, <1>7, <1>10 DEF AskedFor
  <2>2. PICK m \in 1 .. n : t[m] = s[i]
    BY <1>1, <1>2, <2>1 DEF Selected
  <2>3. CASE p.byTier
    <3>1. TierScore(t[m]) <= TierScore(b)
      BY <1>2, <1>5, <2>3, PickTop
    <3>2. TierScore(t[m]) \in Nat /\ TierScore(b) \in Nat
      BY <1>5, <1>6
    <3> QED
      BY <2>2, <2>3, <3>1, <3>2
  <2>4. CASE ~ p.byTier
    <3>1. PICK d \in Int : d = ScoreTrackMatchWithPath(t[m]) - ScoreTrackMatchWithPath(b)
      BY <1>5, <1>6
    <3>2. d <= Near * (n - 1)
      BY <1>2, <1>5, <2>4, <3>1, PickClose
    <3>3. d <= Near * (Len(s) - 1)
      BY <1>2, <1>3, <3>2 DEF Near
    <3> QED
      BY <2>2, <2>4, <3>1, <3>3
  <2> QED
    BY <2>3, <2>4
<1> QED
  BY <1>8, <1>9, <1>10

LEMMA FindBestFits == ASSUME ChoiceInv, FindBestMatch PROVE ChoiceInv'
<1>1. finding.at = "choosing" /\ candidates' = candidates /\ albumQueue' = albumQueue
  BY DEF FindBestMatch
<1>2. PICK p \in ProfileShapes : p = finding.profile
  BY <1>1 DEF ChoiceInv, FindTyped
<1>3. ASSUME NEW at \in {"none", "chosen"}, finding' = [finding EXCEPT !.at = at]
      PROVE  /\ FindTyped' /\ CandidatesFit' /\ QueueFits'
             /\ finding'.at = at /\ finding'.profile = p /\ finding'.excluded = finding.excluded
  <2>1. DOMAIN finding' = FindingFields /\ finding'.at = at /\ finding'.profile = p
        /\ finding'.excluded = finding.excluded
    BY <1>2, <1>3 DEF ChoiceInv, FindTyped, FindingFields
  <2>2. FindTyped'
    BY <1>2, <2>1 DEF FindTyped
  <2>3. CandidatesFit'
    BY <1>1, <2>1 DEF ChoiceInv, CandidatesFit
  <2>4. QueueFits'
    BY <1>1 DEF ChoiceInv, QueueFits
  <2> QED
    BY <2>1, <2>2, <2>3, <2>4
<1>4. CASE finding' = [finding EXCEPT !.at = "none"]
  BY <1>3, <1>4 DEF ChoiceInv
<1>5. ASSUME NEW t \in ByProfile(candidates, p), t # <<>>,
             best' = IF p.byTier THEN pickBestByTierScore(t) ELSE pickBestByScore(t),
             finding' = [finding EXCEPT !.at = "chosen"]
      PROVE  ChoiceInv'
  <2>1. /\ IsSequence(candidates)
        /\ \A i \in 1 .. Len(candidates) : Eligible(candidates[i], finding.excluded)
    BY DEF ChoiceInv, CandidatesFit
  <2>2. PICK b : b = best'
    OBVIOUS
  <2>3. PICK x : x = finding.excluded
    OBVIOUS
  <2>4. /\ b \in Found /\ Fits(b, p) /\ b.source # x
        /\ p.mode = "priority" => \A c \in Found : TargetIndex(b, p) <= TargetIndex(c, p)
        /\ \A c \in Found :
             (p.mode = "best_quality" /\ Fits(c, p)) \/ TargetIndex(c, p) = TargetIndex(b, p) =>
               IF p.byTier THEN TierScore(b) >= TierScore(c)
               ELSE ScoreTrackMatchWithPath(c) - ScoreTrackMatchWithPath(b) <= Near * (Len(candidates) - 1)
    BY <1>5, <2>1, <2>2, <2>3, WalkFits DEF Found
  <2>5. finding'.profile = p /\ finding'.excluded = x /\ Found' = Found
    BY <1>1, <1>3, <1>5, <2>3 DEF Found
  <2>6. BestFits'
    BY <1>1, <2>2, <2>4, <2>5 DEF BestFits
  <2> QED
    BY <1>3, <1>5, <2>6 DEF ChoiceInv
<1> QED
  BY <1>2, <1>4, <1>5 DEF FindBestMatch, ByProfile

LEMMA AlbumQueueFits ==
  ASSUME SearchTyped, ChoiceInv, albumFirstEligible \/ SearchAlbums \/ tryAlbumQueue \/ queueTrackFallback
  PROVE  ChoiceInv'
<1>1. UNCHANGED <<finding, candidates, best>>
  BY DEF albumFirstEligible, SearchAlbums, tryAlbumQueue, queueTrackFallback, Finder
<1>2. QueueFits
  BY DEF ChoiceInv
<1>3. albumFirstEligible => QueueFits'
  BY <1>2 DEF QueueFits, albumFirstEligible
<1>4. SearchAlbums => QueueFits'
  BY <1>2 DEF QueueFits, SearchAlbums
<1>5. tryAlbumQueue => QueueFits'
  BY <1>2 DEF QueueFits, tryAlbumQueue
<1>6. queueTrackFallback => QueueFits'
  BY <1>2 DEF QueueFits, queueTrackFallback
<1>7. QueueFits'
  BY <1>3, <1>4, <1>5, <1>6
<1> QED
  BY <1>1, <1>7, FinderStands DEF ChoiceInv

LEMMA ChoiceInvStep == ASSUME SearchTyped, ChoiceInv, [SearchNext]_searchVars PROVE ChoiceInv'
<1>1. CASE UNCHANGED <<finding, candidates, best, albumQueue>>
  BY <1>1, FinderStands DEF ChoiceInv, QueueFits
<1>2. CASE SeedProfiles \/ CreateProfile \/ DeleteProfile \/ SetDefault \/ ReadForUpdate \/ Update
  BY <1>1, <1>2 DEF SeedProfiles, CreateProfile, DeleteProfile, SetDefault, ReadForUpdate, Update, Finder
<1>3. CASE UNCHANGED searchVars
  BY <1>1, <1>3 DEF searchVars
<1> QED
  BY <1>2, <1>3, StartFits, AskSourceFits, QueryEndsFits, FindBestFits, AlbumQueueFits DEF SearchNext

\* However the profiles are edited while sources answer, what is chosen
\* meets the profile that was read and reaches, of everything found, the best
\* target and tier, or within the neighbours' allowance the best confidence;
\* an album queued as such leaves its tracks alone (engine.go FindBestMatch).
THEOREM ChosenAlwaysFits == ServicesSpec => []ChosenFits
<1>1. ServicesInit => ChoiceInv
  BY ChoiceInvInit DEF ServicesInit
<1>2. TypeInv /\ ChoiceInv /\ [ServicesNext]_<<scene, services>> => ChoiceInv'
  BY ScenesAreSteps, ChoiceInvStep DEF TypeInv
<1> QED
  BY <1>1, <1>2, TypeInvHolds, ChosenIfFits, PTL DEF ServicesSpec
============================================================================
