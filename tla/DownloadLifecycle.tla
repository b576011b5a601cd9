-------------------------- MODULE DownloadLifecycle --------------------------
(***************************************************************************)
(* The life of a download record, without the services that drive it:      *)
(* which state may follow which, and what happens to the retry count on    *)
(* the way.  Cancel and the manual Retry are left out: with them the       *)
(* services do not keep to these edges.                                    *)
(***************************************************************************)
EXTENDS Naturals

CONSTANTS Ids, MaxRetries
VARIABLES state, tries

Init ==
  /\ state = [id \in Ids |-> "absent"]
  /\ tries = [id \in Ids |-> 0]

Move(id, from, to) ==
  /\ state[id] = from
  /\ state' = [state EXCEPT ![id] = to]

Queue(id) == Move(id, "absent", "queued") /\ UNCHANGED tries

\* The search for a source fails; the first count is for that attempt.
ResolveFails(id) ==
  /\ Move(id, "queued", "failedPending")
  /\ tries' = [tries EXCEPT ![id] = 1]

Dispatch(id) == Move(id, "queued", "downloading") /\ UNCHANGED tries
Downloaded(id) == Move(id, "downloading", "importPending") /\ UNCHANGED tries
DownloadFails(id) == Move(id, "downloading", "failed") /\ UNCHANGED tries
ImportBegins(id) == Move(id, "importPending", "importing") /\ UNCHANGED tries
ImportEnds(id) ==
  /\ \E s \in {"imported", "failed"} : Move(id, "importing", s)
  /\ UNCHANGED tries

\* scanRetry: one more attempt, while the cap allows it.
Requeue(id) ==
  /\ tries[id] < MaxRetries
  /\ \E s \in {"failed", "failedPending"} : Move(id, s, "queued")
  /\ tries' = [tries EXCEPT ![id] = @ + 1]

Next == \E id \in Ids :
  \/ Queue(id) \/ ResolveFails(id) \/ Dispatch(id) \/ Downloaded(id)
  \/ DownloadFails(id) \/ ImportBegins(id) \/ ImportEnds(id) \/ Requeue(id)

Spec == Init /\ [][Next]_<<state, tries>>
=============================================================================
