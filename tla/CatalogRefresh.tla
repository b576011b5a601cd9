---------------------------- MODULE CatalogRefresh ----------------------------
(***************************************************************************)
(* The refresh engine among its callers: the album page with its cold      *)
(* fetch and its lazy staleness, the warm-library job, the identity        *)
(* resolver and the admin's manual match, the events and the job that      *)
(* queue albums, the backfill of the legacy caches that runs at every      *)
(* start, and restarts of the process.                                     *)
(***************************************************************************)
EXTENDS RefreshEngine

CONSTANT Setups  \* the values process starts with

ASSUME SetupAssumption ==
  /\ Setups \subseteq [order : Seq(Sources), identity : SUBSET Sources,
                       legacy : SUBSET CatAlbums, left : Nat]
  /\ \A s \in Setups : s.order # <<>> /\ s.identity \subseteq ToSet(s.order)

VARIABLE fill  \* the backfill goroutine

refreshVars == <<catalogVars, engineVars, fill, process>>

\* The backfill of a start: first the legacy albums, then the remainder.
FillAtStart ==
  [pc |-> IF process.legacy # {} THEN "rows" ELSE "done",
   todo |-> process.legacy, album |-> NoCaller]

Init ==
  /\ process \in Setups
  /\ queue = [a \in CatAlbums |-> NoRow]
  /\ meta = [a \in CatAlbums |-> NoMeta]
  /\ rows = [a \in CatAlbums |-> "none"]
  /\ call = [c \in Callers |-> IdleFrame]
  /\ inflight = [a \in CatAlbums |-> NoCaller]
  /\ batch = <<>>
  /\ fill = FillAtStart

----------------------------------------------------------------------------
(* The album page: buildAlbumDiscovery *)

Cold(a) == rows[a] = "none" /\ ~Materialized(meta[a])
TerminalRetryParked(m) == Terminal(m) /\ ~m.old
AlbumMetadataStale(m) == Materialized(m) /\ m.old

\* A cold album starts a cold fetch, or joins the one in flight, which changes
\* nothing; a stale one is queued behind the response; a parked one is served
\* from the library.  (The response itself is no state.)
ColdFetch(a) ==
  /\ Cold(a) /\ ~TerminalRetryParked(meta[a])
  /\ call[Visitor].pc = "idle"
  /\ RefreshAlbum(Visitor, a)
  /\ UNCHANGED <<catalogVars, batch, fill, process>>

OpenStaleAlbum(a) ==
  /\ AlbumMetadataStale(meta[a])
  /\ queue' = EnqueueRefresh(queue, a)
  /\ UNCHANGED <<meta, rows, engineVars, fill, process>>

\* An import, a scan or the admin's refresh button queues an album at once.
EnqueueAlbum(a) ==
  /\ queue' = EnqueueRefresh(queue, a)
  /\ UNCHANGED <<meta, rows, engineVars, fill, process>>

----------------------------------------------------------------------------
(* Jobs and matches *)

\* WarmCandidate.Excluded: a parked album is left out.  (Whether the album is
\* complete depends on the files it has, which is left open.)
WarmExcluded(m) == Terminal(m) /\ ~m.old

WarmLibrary(a) ==
  /\ call[Visitor].pc = "idle"
  /\ ~WarmExcluded(meta[a])
  /\ RefreshAlbum(Visitor, a)
  /\ UNCHANGED <<catalogVars, batch, fill, process>>

\* The resolver, or the admin, finds the identity of an unmatched album and
\* asks for its materialization.  (How many tracks the library holds, and so
\* which kind of match it may be, is left open.)
MatchAlbum(a) ==
  /\ call[Matcher].pc = "idle"
  /\ a \in UnmatchedAlbums /\ process.identity # {}
  /\ Set(Matcher, [IdleFrame EXCEPT !.pc = "acquire", !.album = a])
  /\ UNCHANGED <<catalogVars, inflight, batch, fill, process>>

\* After an applied match the album's queue row is deleted.
CleanupQueue ==
  /\ call[Matcher].pc = "cleanup"
  /\ queue' = DeleteRefreshByEntity(queue, call[Matcher].album)
  /\ batch' = [i \in DOMAIN batch |->
                 [batch[i] EXCEPT !.live = @ /\ batch[i].album # call[Matcher].album]]
  /\ Set(Matcher, IdleFrame)
  /\ UNCHANGED <<meta, rows, inflight, fill, process>>

\* The recheck job without an automatic identity provider.
ReArm ==
  /\ queue' = ReArmTerminalAlbums(queue)
  /\ queue' # queue
  /\ UNCHANGED <<meta, rows, engineVars, fill, process>>

----------------------------------------------------------------------------
(* The backfill: every legacy row is written over the album, outside the slot *)

BackfillTracks(a) ==
  /\ fill.pc = "rows" /\ a \in fill.todo
  /\ rows' = [rows EXCEPT ![a] = "library"]
  /\ fill' = [fill EXCEPT !.pc = "meta", !.album = a]
  /\ UNCHANGED <<queue, meta, engineVars, process>>

\* A row that does not parse is skipped; its album is left to the remainder.
SkipUnreadable(a) ==
  /\ fill.pc = "rows" /\ a \in fill.todo
  /\ fill' = [fill EXCEPT !.pc = IF fill.todo = {a} THEN "remainder" ELSE "rows",
                          !.todo = @ \ {a}]
  /\ UNCHANGED <<catalogVars, engineVars, process>>

\* The row keeps the age of the cached one, which is left open.
BackfillMetadata ==
  LET left == fill.todo \ {fill.album}
  IN /\ fill.pc = "meta"
     /\ \E old \in BOOLEAN :
          meta' = [meta EXCEPT ![fill.album] =
                     [link |-> NoSource, status |-> "fresh", partial |-> FALSE, old |-> old]]
     /\ fill' = [pc |-> IF left = {} THEN "remainder" ELSE "rows",
                 todo |-> left, album |-> NoCaller]
     /\ UNCHANGED <<queue, rows, engineVars, process>>

\* enqueueRemainder reads the ids first and queues them one by one.
ReadRemainder ==
  /\ fill.pc = "remainder"
  /\ fill' = [fill EXCEPT !.pc = IF UnmaterializedAlbums = {} THEN "done" ELSE "enqueue",
                          !.todo = UnmaterializedAlbums]
  /\ UNCHANGED <<catalogVars, engineVars, process>>

EnqueueRemainder(a) ==
  /\ fill.pc = "enqueue" /\ a \in fill.todo
  /\ queue' = EnqueueRefresh(queue, a)
  /\ fill' = [fill EXCEPT !.pc = IF fill.todo = {a} THEN "done" ELSE "enqueue",
                          !.todo = @ \ {a}]
  /\ UNCHANGED <<meta, rows, engineVars, process>>

----------------------------------------------------------------------------
(* Time, configuration, restarts *)

\* A backoff or a cooldown wait of a row is over.
RowDue(a) ==
  /\ queue[a].due = "later"
  /\ queue' = [queue EXCEPT ![a].due = "now"]
  /\ UNCHANGED <<meta, rows, engineVars, fill, process>>

\* Ninety days without a write: metadata is old and parked rows are due.
QuarterPasses ==
  /\ \A c \in Callers : call[c].pc = "idle"
  /\ meta' = [a \in CatAlbums |-> IF meta[a].status = "none" THEN meta[a]
                                  ELSE [meta[a] EXCEPT !.old = TRUE]]
  /\ queue' = [a \in CatAlbums |-> IF ~queue[a].queued THEN NoRow
                                   ELSE [queue[a] EXCEPT !.due = "now"]]
  /\ UNCHANGED <<rows, call, inflight, batch, fill, process>>

\* A stop, orderly or not: the tables and the persisted cooldowns survive.
Restart ==
  /\ process.left > 0
  /\ process' = [process EXCEPT !.left = @ - 1]
  /\ call' = [c \in Callers |-> IdleFrame]
  /\ inflight' = [a \in CatAlbums |-> NoCaller]
  /\ batch' = <<>>
  /\ fill' = FillAtStart
  /\ UNCHANGED catalogVars

Next ==
  \/ EngineStep /\ UNCHANGED <<fill, process>>
  \/ \E c \in Callers : CallStep(c) /\ UNCHANGED <<fill, process>>
  \/ \E c \in Callers : ContextEnds(c) /\ UNCHANGED <<fill, process>>
  \/ \E c \in Callers : WaitEnds(c) /\ UNCHANGED <<fill, process>>
  \/ CleanupQueue
  \/ \E a \in CatAlbums : ColdFetch(a) \/ OpenStaleAlbum(a) \/ EnqueueAlbum(a) \/ WarmLibrary(a) \/ RowDue(a)
  \/ \E a \in CatAlbums : MatchAlbum(a)
  \/ MaterializeResolved /\ UNCHANGED <<fill, process>>
  \/ \E a \in CatAlbums : BackfillTracks(a) \/ SkipUnreadable(a) \/ EnqueueRemainder(a)
  \/ BackfillMetadata \/ ReadRemainder
  \/ ReArm \/ QuarterPasses \/ Restart

\* The loop and the backfill run on, a call that was started is carried on by
\* its goroutine, and the matcher gets a slot that is free again and again.
Fairness ==
  /\ WF_refreshVars(EngineStep /\ UNCHANGED <<fill, process>>)
  /\ \A c \in Callers : WF_refreshVars(CallStep(c) /\ UNCHANGED <<fill, process>>)

Spec == Init /\ [][Next]_refreshVars /\ Fairness
=============================================================================
