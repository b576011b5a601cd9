----------------------------- MODULE RefreshEngine -----------------------------
(***************************************************************************)
(* The refresh engine: one coalesced materialization per album             *)
(* (RefreshAlbum), entered by the drain loop, by the cold fetch behind an  *)
(* album page and by the warm-library job, and MaterializeResolved, the    *)
(* write of an identity match, which takes the same slot.  A caller is a   *)
(* process with a frame; every provider call, every transaction and every  *)
(* publication of a shared result is one step.                             *)
(***************************************************************************)
EXTENDS CatalogStore

CONSTANTS
  MaxAttempts,    \* hard failures before an album is parked as failed
  BatchSize       \* rows claimed per tick

ASSUME RefreshAssumption ==
  MaxAttempts \in Nat \ {0} /\ BatchSize \in Nat \ {0}

VARIABLES
  process,    \* what the process was started with:
              \*   order: the live providers in the configured order,
              \*   identity: those that can look a track up,
              \*   legacy: the albums with a row in album_discovery_cache,
              \*   left: the restarts still to come
  call,       \* the frame of every caller
  inflight,   \* the caller that owns an album's slot, by album
  batch       \* the claimed items the loop has not handled, the current first

engineVars == <<call, inflight, batch>>

\* The visitor is a caller with a context of its own that only wants the album
\* materialized: a cold fetch or the warm job.  The matcher writes an identity
\* match: the resolver or the admin's manual match.
Engine == "engine"
Visitor == "visitor"
Matcher == "matcher"
Callers == {Engine, Visitor, Matcher}
NoCaller == "nobody"

NoPlan == [link |-> NoSource, tracks |-> "none", partial |-> FALSE]
IdleFrame == [pc |-> "idle", album |-> NoCaller, prev |-> NoMeta, todo |-> <<>>,
              searched |-> {}, miss |-> "none", plan |-> NoPlan, out |-> "none"]

Set(c, f) == call' = [call EXCEPT ![c] = f]
Return(f, o) ==
  [IdleFrame EXCEPT !.pc = "publish", !.album = f.album, !.out = o]

\* What is left of a caller's frame once it has an outcome: the engine books
\* it, a visitor is done.
Answered(c, f, o) ==
  IF c = Engine THEN [IdleFrame EXCEPT !.pc = "book", !.album = f.album, !.out = o]
  ELSE IdleFrame

\* Mutant: a partial album is refreshed like any other.
StartedWhole(a) ==
  LET f == [IdleFrame EXCEPT !.album = a, !.prev = meta[a]]
      search == [f EXCEPT !.pc = "search", !.todo = process.order]
  IN IF meta[a].link \in ToSet(process.order) THEN {[f EXCEPT !.pc = "link"], search}
     ELSE {search}

\* refreshAlbum up to its first provider call: a partial album is only stamped,
\* a live link that is not cooling is fetched, otherwise every provider is tried.
\* Whether a provider is cooling is left open at every look (see Cooldown).
Started(a) ==
  LET f == [IdleFrame EXCEPT !.album = a, !.prev = meta[a]]
      search == [f EXCEPT !.pc = "search", !.todo = process.order]
  IN IF meta[a].partial THEN {[f EXCEPT !.pc = "touch"]}
     ELSE IF meta[a].link \in ToSet(process.order) THEN {[f EXCEPT !.pc = "link"], search}
     ELSE {search}

\* Mutant: the call in flight is not looked for.
RefreshAlbumUnshared(c, a) ==
  /\ \E f \in Started(a) : Set(c, f)
  /\ inflight' = [inflight EXCEPT ![a] = c]

\* RefreshAlbum: join the album's call in flight, or own the slot and start.
RefreshAlbum(c, a) ==
  IF inflight[a] # NoCaller
  THEN /\ Set(c, [IdleFrame EXCEPT !.pc = "join", !.album = a])
       /\ UNCHANGED inflight
  ELSE /\ \E f \in Started(a) : Set(c, f)
       /\ inflight' = [inflight EXCEPT ![a] = c]

TouchPartial(c) ==
  /\ call[c].pc = "touch"
  /\ meta' = [meta EXCEPT ![call[c].album] =
                [call[c].prev EXCEPT !.old = FALSE]]
  /\ Set(c, Return(call[c], "matched"))
  /\ UNCHANGED <<queue, rows, inflight, batch>>

\* Mutant: the metadata row is written without the tracklist.
WriteFullMetaOnly(f, p) ==
  [IdleFrame EXCEPT !.pc = "meta", !.album = f.album,
     !.plan = [link |-> p, tracks |-> "full", partial |-> FALSE]]

WriteFull(f, p) ==
  [IdleFrame EXCEPT !.pc = "rows", !.album = f.album,
     !.plan = [link |-> p, tracks |-> "full", partial |-> FALSE]]

\* Reuse of the stored link.  A rate limit, a busy answer and a timeout keep
\* it, any other error is a dead link.
FetchLink(c) ==
  /\ call[c].pc = "link"
  /\ \/ Set(c, WriteFull(call[c], call[c].prev.link))
     \/ \E o \in {"later", "ctx"} : Set(c, Return(call[c], o))
     \/ Set(c, [call[c] EXCEPT !.pc = "unlink"])
  /\ UNCHANGED <<catalogVars, inflight, batch>>

ClearProviderLink(c) ==
  /\ call[c].pc = "unlink"
  /\ meta' = [meta EXCEPT ![call[c].album] =
                [call[c].prev EXCEPT !.link = NoSource,
                   !.old = @ /\ Materialized(call[c].prev)]]
  /\ Set(c, Return(call[c], "hard"))
  /\ UNCHANGED <<queue, rows, inflight, batch>>

\* What kept the search from being conclusive, the weakest first; the last one
\* of a kind counts.  A skipped provider, a failed search (busy, or anything
\* else, which is transient), a failed tracklist (busy, a timeout, or hard), and
\* a rate limit anywhere.
Rank(k) == CASE k = "none" -> 0
             [] k = "cooling" -> 1
             [] k \in {"searchBusy", "transient"} -> 2
             [] k \in {"fetchBusy", "ctx", "hard"} -> 3
             [] k = "rate" -> 4

\* The outcome of a search without a match.  Everything that will heal by
\* itself is retried later without being counted.
Classified(f) ==
  CASE f.miss = "none" -> [f EXCEPT !.pc = "unmatch"]
    [] f.miss \in {"transient", "ctx", "hard"} -> Return(f, f.miss)
    [] OTHER -> Return(f, "later")

\* Done with the first provider of the list, which ended in k.  The row read at
\* the start and what was searched matter only while nothing was missed.
NextSource(f, k) ==
  LET miss == IF Rank(k) >= Rank(f.miss) THEN k ELSE f.miss
      g == [f EXCEPT !.pc = "search", !.todo = Tail(@), !.miss = miss,
                     !.prev = IF miss = "none" THEN @ ELSE NoMeta,
                     !.searched = IF miss = "none" THEN @ ELSE {}]
  IN IF g.todo = <<>> THEN Classified(g) ELSE g

\* Mutant: a provider that was skipped is not remembered.
TrySourceForgetsSkip(c) ==
  LET f == call[c]
      searched == [f EXCEPT !.searched = @ \cup {Head(f.todo)}]
  IN /\ f.pc = "search"
     /\ \/ Set(c, NextSource(f, "none"))
        \/ \E k \in {"rate", "searchBusy", "transient"} : Set(c, NextSource(f, k))
        \/ Set(c, NextSource(searched, "none"))
        \/ \E k \in {"rate", "fetchBusy", "ctx", "hard"} : Set(c, NextSource(searched, k))
        \/ Set(c, WriteFull(f, Head(f.todo)))
     /\ UNCHANGED <<catalogVars, inflight, batch>>

\* One provider of the loop: skipped while it cools, or searched, and the
\* tracklist of a match fetched.  Neither call touches the catalog.
TrySource(c) ==
  LET f == call[c]
      searched == [f EXCEPT !.searched = @ \cup {Head(f.todo)}]
  IN /\ f.pc = "search"
     /\ \/ Set(c, NextSource(f, "cooling"))
        \/ \E k \in {"rate", "searchBusy", "transient"} : Set(c, NextSource(f, k))
        \/ Set(c, NextSource(searched, "none"))
        \/ \E k \in {"rate", "fetchBusy", "ctx", "hard"} : Set(c, NextSource(searched, k))
        \/ Set(c, WriteFull(f, Head(f.todo)))
     /\ UNCHANGED <<catalogVars, inflight, batch>>

MarkUnmatched(c) ==
  /\ call[c].pc = "unmatch"
  /\ meta' = [meta EXCEPT ![call[c].album] =
                [call[c].prev EXCEPT !.status = "unmatched", !.old = FALSE]]
  /\ Set(c, Return(call[c], "unmatched"))
  /\ UNCHANGED <<queue, rows, inflight, batch>>

\* materialize, first transaction: the tracklist.
ReplaceAlbumTracks(c) ==
  /\ call[c].pc = "rows"
  /\ rows' = [rows EXCEPT ![call[c].album] = call[c].plan.tracks]
  /\ Set(c, [call[c] EXCEPT !.pc = "meta"])
  /\ UNCHANGED <<queue, meta, inflight, batch>>

\* materialize, second transaction: a metadata row built from scratch.
UpsertMaterialized(c) ==
  /\ call[c].pc = "meta"
  /\ meta' = [meta EXCEPT ![call[c].album] =
                [link |-> call[c].plan.link, status |-> "fresh",
                 partial |-> call[c].plan.partial, old |-> FALSE]]
  /\ Set(c, Return(call[c], IF c = Matcher THEN "applied" ELSE "matched"))
  /\ UNCHANGED <<queue, rows, inflight, batch>>

\* The context of a caller other than the loop ends while it owns the slot: the
\* provider call or the transaction fails, and that is the shared outcome.
ContextEnds(c) ==
  /\ c # Engine
  /\ call[c].pc \in {"touch", "link", "unlink", "search", "unmatch",
                     "rows", "meta"}
  /\ Set(c, Return(call[c], "ctx"))
  /\ UNCHANGED <<catalogVars, inflight, batch>>

\* A waiter's own context ends: it leaves, the shared work goes on.
WaitEnds(c) ==
  /\ c # Engine
  /\ call[c].pc \in {"join", "acquire"}
  /\ Set(c, IdleFrame)
  /\ UNCHANGED <<catalogVars, inflight, batch>>

\* Mutant: the outcome is published to nobody.
FinishCallSilent(c) ==
  LET f == call[c]
  IN /\ f.pc = "publish"
     /\ inflight' = [inflight EXCEPT ![f.album] = NoCaller]
     /\ Set(c, IF f.out = "applied"
               THEN [IdleFrame EXCEPT !.pc = "cleanup", !.album = f.album]
               ELSE Answered(c, f, f.out))
     /\ UNCHANGED <<catalogVars, batch>>

\* finishCall: the outcome reaches every waiter and the slot is free.  An
\* identity match that was written goes on to clean the queue.
FinishCall(c) ==
  LET f == call[c]
      outcome == IF f.out = "applied" THEN "matched" ELSE f.out
  IN /\ f.pc = "publish"
     /\ inflight' = [inflight EXCEPT ![f.album] = NoCaller]
     /\ call' = [k \in Callers |->
          IF k = c THEN IF f.out = "applied"
                        THEN [IdleFrame EXCEPT !.pc = "cleanup", !.album = f.album]
                        ELSE Answered(c, f, outcome)
          ELSE IF call[k].pc = "join" /\ call[k].album = f.album
               THEN Answered(k, f, outcome)
          ELSE call[k]]
     /\ UNCHANGED <<catalogVars, batch>>

\* What an identity match writes: one row, partial when the provider's release
\* has more tracks, or a whole release.
TrackMatchPlans ==
  [link : process.identity, tracks : {"single"}, partial : BOOLEAN]
ReleaseMatchPlans ==
  [link : process.identity, tracks : {"full"}, partial : {FALSE}]

\* MaterializeResolved waits until the slot is free, takes it, and looks again:
\* an album that is no longer unmatched is left as it is, and reported matched.
MaterializeResolved ==
  LET f == call[Matcher]
  IN /\ f.pc = "acquire"
     /\ inflight[f.album] = NoCaller
     /\ inflight' = [inflight EXCEPT ![f.album] = Matcher]
     /\ IF meta[f.album].status \in {"none", "unmatched"}
        THEN \E plan \in TrackMatchPlans \cup ReleaseMatchPlans :
               Set(Matcher, [f EXCEPT !.pc = "rows", !.plan = plan])
        ELSE Set(Matcher, Return(f, "matched"))
     /\ UNCHANGED <<catalogVars, batch>>

----------------------------------------------------------------------------
(* The drain loop *)

\* One tick: claim the due rows.
ClaimBatch ==
  /\ batch = <<>>
  /\ batch' \in ClaimDueRefresh(queue, BatchSize) \ {<<>>}
  /\ UNCHANGED <<catalogVars, call, inflight>>

\* The next item of the batch.
NextItem ==
  /\ batch # <<>>
  /\ call[Engine].pc = "idle"
  /\ RefreshAlbum(Engine, Head(batch).album)
  /\ UNCHANGED <<catalogVars, batch>>

\* Attempts beyond MaxAttempts - 1 all act alike: the next hard failure is final.
Counted(n) == IF n + 1 < MaxAttempts THEN n + 1 ELSE MaxAttempts - 1

\* Mutant: an album without a match is due again at once.
BookedHot(it, o) ==
  CASE o = "matched"   -> FinishRefresh(queue, it)
    [] o = "unmatched" -> RetryRefresh(queue, it, it.att, "now")
    [] o = "transient" -> RetryRefresh(queue, it, Counted(it.att), "later")
    [] o = "later"     -> RetryRefresh(queue, it, it.att, "later")
    [] OTHER -> queue

\* processItem: the queue bookkeeping of an outcome.  A context error leaves
\* the row as it is.
Booked(it, o) ==
  CASE o = "matched"   -> FinishRefresh(queue, it)
    [] o = "unmatched" -> RetryRefresh(queue, it, it.att, "long")
    [] o = "transient" -> RetryRefresh(queue, it, Counted(it.att), "later")
    [] o = "later"     -> RetryRefresh(queue, it, it.att, "later")
    [] OTHER -> queue

ProcessItem ==
  /\ call[Engine].pc = "book"
  /\ IF call[Engine].out = "hard"
     THEN \* recordAlbumFailure reads the row ...
          /\ Set(Engine, [call[Engine] EXCEPT !.pc = "failure", !.prev = meta[call[Engine].album]])
          /\ UNCHANGED <<queue, batch>>
     ELSE /\ queue' = Booked(Head(batch), call[Engine].out)
          /\ batch' = Tail(batch)
          /\ Set(Engine, IdleFrame)
  /\ UNCHANGED <<meta, rows, inflight>>

\* ... and writes it back with the new status, outside the album's slot.
RecordAlbumFailure ==
  LET exhausted == Head(batch).att + 1 >= MaxAttempts
  IN /\ call[Engine].pc = "failure"
     /\ meta' = [meta EXCEPT ![call[Engine].album] =
                   [call[Engine].prev EXCEPT !.old = FALSE,
                      !.status = IF exhausted THEN "failed" ELSE "pending"]]
     /\ Set(Engine, [call[Engine] EXCEPT !.pc = "retry"])
     /\ UNCHANGED <<queue, rows, inflight, batch>>

\* Mutant: one hard failure too many before the album is parked.
RetryOrFailLate ==
  LET it == Head(batch)
  IN /\ call[Engine].pc = "retry"
     /\ queue' = IF it.att + 1 > MaxAttempts THEN FinishRefresh(queue, it)
                 ELSE RetryRefresh(queue, it, it.att + 1, "later")
     /\ batch' = Tail(batch)
     /\ Set(Engine, IdleFrame)
     /\ UNCHANGED <<meta, rows, inflight>>

\* retryOrFail, last write: drop the row of a failed album or back off.
RetryOrFail ==
  LET it == Head(batch)
  IN /\ call[Engine].pc = "retry"
     /\ queue' = IF it.att + 1 >= MaxAttempts THEN FinishRefresh(queue, it)
                 ELSE RetryRefresh(queue, it, it.att + 1, "later")
     /\ batch' = Tail(batch)
     /\ Set(Engine, IdleFrame)
     /\ UNCHANGED <<meta, rows, inflight>>

\* The steps a call takes without its environment.
CallStep(c) ==
  \/ TouchPartial(c) \/ FetchLink(c) \/ ClearProviderLink(c) \/ TrySource(c)
  \/ MarkUnmatched(c) \/ ReplaceAlbumTracks(c)
  \/ UpsertMaterialized(c) \/ FinishCall(c)

EngineStep ==
  ClaimBatch \/ NextItem \/ ProcessItem \/ RecordAlbumFailure \/ RetryOrFail
=============================================================================
