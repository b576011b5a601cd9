-------------------------- MODULE DownloadInvariants --------------------------
(***************************************************************************)
(* Inductive strengthenings of the pipeline's safety invariants.  TLC      *)
(* checks them on small instances; the proof modules prove from them what  *)
(* holds for every value of the constants.                                 *)
(***************************************************************************)
EXTENDS DownloadPipeline

(***************************************************************************)
(* Type correctness: what a frame holds depends on where it stands.        *)
(***************************************************************************)

FrameTyped(t, id) ==
  /\ task[t][id].pc \in {"cas", "launch"} => task[t][id].via \in Providers
  /\ task[t][id].pc \in {"poll", "status"} => task[t][id].h # 0
  /\ In(t, "retry") /\ At(t, id, "listed") => task[t][id].row.tries < MaxRetries

\* A transfer is started at a registered provider, a status is asked for with a
\* provider id, and a row is queued again only below the retry cap.
TypeInv == TypeOK /\ \A t \in Ticks, id \in Ids : FrameTyped(t, id)

(***************************************************************************)
(* Hand-over of a downloaded file.  A stale copy of a row may put back     *)
(* many things, but the state that each goroutine is about to write is     *)
(* fixed by where it stands, and nobody but the poll that won the          *)
(* compare-and-swap ever writes importPending.                             *)
(***************************************************************************)

\* What a step of a tick carries to its next write.
TaskCopies == \A t \in Ticks, id \in Ids :
  /\ At(t, id, "persist") => task[t][id].row.state = "downloading"
  /\ At(t, id, "write") => task[t][id].row.state = "queued"
  /\ At(t, id, "failWrite") => task[t][id].row.state = "failed"

\* What the resolver and a Retry carry to theirs.
ResolverCopies == \A id \in Ids :
  res[id].pc # "idle" => res[id].row.state \in {"queued", "failedPending"}
RetryCopies == \A c \in Callers :
  ret[c].pc # "idle" => ret[c].row.state \in {"queued", "failed"}

\* An import chain carries a row in state importing.
ChainCopies == \A id \in Ids, w \in Workers :
  imp[id][w].pc \in Chain => imp[id][w].row.state = "importing"

\* No stale copy can bring importPending or importing back, and a record that
\* is in one of the two has somebody at work on it.
HandoverInv ==
  /\ TaskCopies /\ ResolverCopies /\ RetryCopies /\ ChainCopies
  /\ ImportPendingHandled
  /\ ImportingHandled

(***************************************************************************)
(* Slot accounting with one tick at a time.                                *)
(***************************************************************************)

\* Provider calls return within safeTick's 30 seconds, so ticks do not overlap.
OneTick == \A s, t \in Ticks : s = t

\* Positions at which a tick works on what it found tracked.
Following == {"poll", "status", "progress", "complete", "filePath", "announce", "abort"}

\* A tick that is to drop a download, or follows it, has it tracked under the
\* handle and the provider it copied.
FrameFollows(t, id) ==
  (\/ task[t][id].then = "drop"
   \/ task[t][id].pc \in Following
   \/ In(t, "check") /\ At(t, id, "listed"))
  => /\ Tracked(id)
     /\ active[id].h = task[t][id].h
     /\ active[id].via = task[t][id].via

\* A tick that is to free a slot works on a download that is not tracked; it
\* holds the slot of every limited provider it is about to start a transfer at.
FrameHolds(t, id) ==
  /\ task[t][id].then = "free" => ~Tracked(id)
  /\ task[t][id].pc \in {"acquire", "cas", "launch"} => ~Tracked(id)
  /\ task[t][id].pc \in {"cas", "launch"} =>
       /\ task[t][id].via \in Providers
       /\ Cap[task[t][id].via] > 0 => task[t][id].then = "free"
  /\ task[t][id].pc \in {"idle", "acquire", "reread", "persist", "write"} =>
       task[t][id].then = "none"
  /\ At(t, id, "listed") /\ ~In(t, "sync") => task[t][id].then = "none"

\* Every token in a semaphore belongs to one download, and whoever gives it
\* back is the only one who will.
SlotInv ==
  /\ \A t \in Ticks, id \in Ids : FrameFollows(t, id) /\ FrameHolds(t, id)
  /\ SlotsMatch

(***************************************************************************)
(* One import at a time, without manual retries.                           *)
(***************************************************************************)

\* Somebody is to import the record, or does.
Busy(id) == bus[id] > 0 \/ \E w \in Workers : ~ImpAt(id, w, "idle")

\* The states a row can be in while a tick stands where it does: the one the
\* last step of the tick read or wrote, or ignored, if Cancel came in between.
Launched == {"launch", "reread", "persist", "poll", "status", "progress", "complete", "abort"}
StatesOf(f, phase, tracked) ==
  CASE f.pc = "listed" ->
         IF phase = "start" THEN {"queued", "ignored"}
         ELSE IF phase = "retry" THEN Retryable \cup {"ignored"}
         ELSE {"downloading", "ignored"}
    [] f.pc \in {"acquire", "cas"} -> {"queued", "ignored"}
    [] f.pc \in Launched -> {"downloading", "ignored"}
    [] f.pc \in {"filePath", "announce"} -> {"importPending", "ignored"}
    [] f.pc = "failGet" -> {"queued", "downloading", "ignored"}
    [] f.pc = "failCas" -> {f.row.state, "ignored"} \cap {"queued", "downloading", "ignored"}
    [] f.pc \in {"failReget", "failWrite"} -> {"failed", "ignored"}
    [] f.pc = "write" -> Retryable \cup {"ignored"}
    [] f.pc = "exit" -> IF f.then = "drop" THEN States \ {"absent", "queued", "failedPending"}
                        ELSE {"failed", "ignored"}
    [] OTHER -> IF tracked THEN {"downloading", "ignored"} ELSE States

\* Positions at which a tick works on a record that is not tracked.
WorksUntracked(f, phase) ==
  \/ f.pc = "listed" /\ phase # "check"
  \/ f.pc = "write"
  \/ f.pc \in {"failGet", "failCas", "failReget", "failWrite", "exit"} /\ f.then # "drop"

\* A tick at work on a record has it to itself: no importer and no resolver is
\* on it.  Only while it is about to drop the download it has announced may
\* the import have begun.
TaskAlone(t, id) ==
  /\ rec[id].state \in StatesOf(task[t][id], tick[t].phase, Tracked(id))
  /\ ~At(t, id, "idle") => res[id].pc = "idle"
  /\ Busy(id) => \/ At(t, id, "idle") /\ ~Tracked(id)
                 \/ At(t, id, "exit") /\ task[t][id].then = "drop"
  /\ WorksUntracked(task[t][id], tick[t].phase) => ~Tracked(id)

\* At most one event is under way or one importer at work, and never both.
OneImport(id) ==
  /\ bus[id] <= 1
  /\ bus[id] = 1 => \A w \in Workers : ImpAt(id, w, "idle")
  /\ \A v, w \in Workers : ~ImpAt(id, v, "idle") /\ ~ImpAt(id, w, "idle") => v = w
  /\ Busy(id) => rec[id].state \in {"importPending", "importing", "ignored"}

\* What the resolver looks at is nobody else's, and a queued row without a
\* source is left alone by the ticks.
ResolverAlone(id) ==
  /\ res[id].pc # "idle" =>
       /\ ~Tracked(id) /\ ~Busy(id)
       /\ rec[id].state \in {"queued", "ignored"}
       /\ rec[id].state = "queued" => IsPendingSource(rec[id])
  /\ rec[id].state = "queued" /\ IsPendingSource(rec[id]) => \A t \in Ticks : At(t, id, "idle")

\* Until recovery is over nothing works on any record but the events it sends.
BootAlone ==
  /\ \A id \in boot : ~Busy(id)
  /\ IF up THEN boot = {}
     ELSE /\ resolver = "off"
          /\ \A t \in Ticks : In(t, "off") /\ Quiet(t)
          /\ \A id \in Ids : ~Tracked(id) /\ res[id].pc = "idle"

ExclusiveInv ==
  /\ \A id \in Ids : OneImport(id) /\ ResolverAlone(id)
  /\ \A t \in Ticks, id \in Ids : TaskAlone(t, id)
  /\ BootAlone
  /\ \A c \in Callers : ret[c].pc = "idle"

(***************************************************************************)
(* The life of a record without users: no Cancel and no manual Retry.      *)
(***************************************************************************)

\* A private copy that is up to date in the source and the count.
Copies(row, r) == row.via = r.via /\ row.file = r.file /\ row.tries = r.tries

\* A tick dispatches what has a source, starts a transfer where the count has
\* room for it, fails what is downloading, and writes back what it has read.
TaskLife(t, id) ==
  LET f == task[t][id]
      r == rec[id]
  IN /\ f.pc = "acquire" => f.via \in Providers
     /\ f.pc = "launch" => Started(id) <= r.tries /\ ~IsPendingSource(r)
     /\ f.pc = "failGet" => r.state = "downloading"
     /\ f.pc = "failCas" => f.row.state = "downloading"
     /\ f.pc \in {"persist", "failWrite"} => Copies(f.row, r)
     /\ f.pc = "listed" /\ In(t, "retry") => Copies(f.row, r)
     /\ f.pc = "write" => f.row.tries = r.tries + 1 /\ (IsPendingSource(f.row) => IsPendingSource(r))
     /\ f.pc # "abort"

\* The resolver writes a source, or the first failure, over the row it has read.
ResolverLife(id) ==
  LET row == res[id].row
  IN /\ res[id].pc = "listed" => Copies(row, rec[id]) /\ row.state = "queued"
     /\ res[id].pc = "write" =>
          \/ row.state = "queued" /\ row.tries = rec[id].tries /\ ~IsPendingSource(row)
          \/ row.state = "failedPending" /\ row.tries = 1

\* An import chain carries the row as it is, and nothing else moves it on.
ImportLife(id, w) ==
  /\ ~ImpAt(id, w, "idle") => Copies(imp[id][w].row, rec[id])
  /\ imp[id][w].pc \in Chain => rec[id].state = "importing"

\* Each transfer but the first was started for a retry that the row counts; a
\* record without a source has started none.
RowLife(id) ==
  LET r == rec[id]
  IN /\ r.state # "ignored" /\ can[id].pc = "idle"
     /\ r.state = "absent" => r.tries = 0 /\ IsPendingSource(r)
     /\ Started(id) <= r.tries + 1
     /\ r.state \in {"absent", "queued"} => Started(id) <= r.tries
     /\ IsPendingSource(r) => Started(id) = 0

Life(id) ==
  /\ RowLife(id) /\ ResolverLife(id)
  /\ \A t \in Ticks : TaskLife(t, id)
  /\ \A w \in Workers : ImportLife(id, w)

LifeInv == \A id \in Ids : Life(id)

\* As long as no provider cancels a transfer either: a tick lets go of a record
\* only when it is no longer downloading.
WatchLife(id) ==
  /\ \A n \in 1..MaxStarts : job[id][n].st # "cancelled"
  /\ \A t \in Ticks : /\ At(t, id, "progress") => task[t][id].st # "cancelled"
                      /\ At(t, id, "exit") => rec[id].state # "downloading"
  /\ rec[id].state = "downloading" => Watched(id)

WatchInv == \A id \in Ids : WatchLife(id)
=============================================================================
