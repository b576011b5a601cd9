-------------------------- MODULE CatalogInvariants --------------------------
(***************************************************************************)
(* What the catalog and the refresh engine promise.                        *)
(***************************************************************************)
EXTENDS CatalogRefresh

Outcomes == {"none", "matched", "unmatched", "transient", "ctx", "hard", "later", "applied"}
Pcs == {"idle", "join", "acquire", "touch", "link", "unlink", "search", "unmatch",
        "rows", "meta", "publish", "cleanup", "book", "failure", "retry"}

\* The steps of the owner of an album's slot.
Working == {"touch", "link", "unlink", "search", "unmatch", "rows", "meta", "publish"}

Meta == [link : Sources \cup {NoSource}, partial : BOOLEAN, old : BOOLEAN,
         status : {"none", "fresh", "pending", "unmatched", "failed"}]
Plan == [link : Sources \cup {NoSource}, tracks : {"none", "full", "single"}, partial : BOOLEAN]
Misses == {"none", "cooling", "searchBusy", "transient", "fetchBusy", "ctx", "hard", "rate"}
Frame == [pc : Pcs, album : CatAlbums \cup {NoCaller}, prev : Meta, todo : Seq(Sources),
          searched : SUBSET Sources, miss : Misses, plan : Plan, out : Outcomes]
Claimed == [album : CatAlbums, att : 0 .. MaxAttempts - 1, live : BOOLEAN]

\* Every table and every frame holds values of its kind.
CatalogTypeOK ==
  /\ queue \in [CatAlbums -> [queued : BOOLEAN, due : Due, att : 0 .. MaxAttempts - 1]]
  /\ meta \in [CatAlbums -> Meta]
  /\ rows \in [CatAlbums -> {"none", "library", "full", "single"}]
  /\ call \in [Callers -> Frame]
  /\ inflight \in [CatAlbums -> Callers \cup {NoCaller}]
  /\ batch \in Seq(Claimed) /\ Len(batch) <= BatchSize
  /\ process \in [order : Seq(Sources), identity : SUBSET Sources,
                 legacy : SUBSET CatAlbums, left : Nat]
  /\ fill \in [pc : {"rows", "meta", "remainder", "enqueue", "done"},
               todo : SUBSET CatAlbums, album : CatAlbums \cup {NoCaller}]

\* The refreshes, the cold fetches, the warm job and the identity matches of an
\* album exclude one another: whoever works on it holds its slot, so no two
\* interleave their tracklist and metadata writes (refresh/service.go inflight).
OneWriter ==
  \A c \in Callers : call[c].pc \in Working => inflight[call[c].album] = c

\* An album is never called fresh while it has no tracklist: the page would
\* show it complete and empty, and nothing would queue it again.
FreshHasRows == \A a \in CatAlbums : meta[a].status = "fresh" => rows[a] # "none"

\* An album is declared unmatched, and parked for ninety days, only after every
\* live provider was searched and answered: a cooling, busy or failing one
\* makes the verdict inconclusive.
SearchedBeforeUnmatched ==
  \A c \in Callers : call[c].pc = "unmatch" => call[c].searched = ToSet(process.order)

\* A single row kept on purpose, because the provider's release holds tracks
\* the library never had, is not expanded into the whole release by a later
\* refresh or match.  Where a legacy cache row is still to be backfilled it may
\* be: the backfill writes over the album beside everybody else, and the copy a
\* failure is booked on brings the partial mark back (service.go:1053).
PartialNotExpanded ==
  [][\A a \in CatAlbums :
       process.legacy = {} /\ meta[a].partial /\ rows[a] = "single" => rows'[a] # "full"]_refreshVars

(***************************************************************************)
(* The inductive strengthening of the four invariants.                     *)
(***************************************************************************)

\* Where a frame stands fixes what it holds: a call works on an album, a search
\* has a provider left, a write has a tracklist, the engine an item.
FramesWell ==
  /\ \A c \in Callers :
       /\ call[c].pc # "idle" => call[c].album \in CatAlbums
       /\ call[c].pc = "search" => call[c].todo # <<>>
       /\ call[c].pc \in {"rows", "meta"} => call[c].plan.tracks # "none"
  /\ call[Engine].pc # "idle" => batch # <<>>
  /\ fill.pc = "meta" => fill.album \in CatAlbums
  /\ process.order # <<>>

\* While nothing was missed, every provider is either searched or yet to come.
SearchAccounted ==
  \A c \in Callers :
    call[c].pc = "search" /\ call[c].miss = "none" =>
      call[c].searched \cup ToSet(call[c].todo) = ToSet(process.order)

\* Nobody is about to call an album fresh that has no tracklist: neither a
\* materialization between its two writes, nor the backfill between its two,
\* nor a copy of the metadata row that will be written back.
FreshToBeHasRows ==
  /\ \A c \in Callers :
       /\ call[c].pc = "meta" => rows[call[c].album] # "none"
       /\ call[c].pc # "idle" /\ call[c].prev.status = "fresh" => rows[call[c].album] # "none"
  /\ fill.pc = "meta" => rows[fill.album] # "none"

CatalogInv ==
  /\ CatalogTypeOK /\ FramesWell
  /\ OneWriter
  /\ SearchAccounted /\ SearchedBeforeUnmatched
  /\ FreshHasRows /\ FreshToBeHasRows

(***************************************************************************)
(* The strengthening for PartialNotExpanded.                               *)
(***************************************************************************)

\* The steps of a call that may end in replacing the tracklist.
Expanding(f) == f.pc \in {"link", "unlink", "search", "unmatch", "rows", "meta"}

\* A partial album is not being expanded, a call that looks for a release read
\* a row that was not partial and one that stamps it a partial one, a row still
\* to be matched is not partial, and only a single row is kept partial.
PartialFrame(f) ==
  /\ f.pc = "touch" => f.prev.partial
  /\ Expanding(f) => ~meta[f.album].partial
  /\ Expanding(f) \/ f.pc = "acquire" => ~f.prev.partial
  /\ f.prev.status \in {"none", "unmatched"} => ~f.prev.partial
  /\ f.pc \in {"rows", "meta"} /\ f.plan.partial => f.plan.tracks = "single"

\* The copy a failure is booked on is up to date in this, too.
PartialKept == process.legacy = {} =>
  /\ \A a \in CatAlbums : meta[a].status \in {"none", "unmatched"} => ~meta[a].partial
  /\ \A c \in Callers : PartialFrame(call[c])
  /\ call[Engine].pc = "failure" /\ call[Engine].prev.partial => meta[call[Engine].album].partial
  /\ fill.pc \notin {"rows", "meta"}

\* A due row is finished or backed off and does not block the queue; only a call
\* of the loop that times out leaves the row as it is.
DueRowHandled ==
  \A a \in CatAlbums : queue[a].due = "now" ~> (queue[a].due # "now" \/ call[Engine].out = "ctx")

\* Whoever joined a materialization in flight gets its outcome, or leaves.
WaitersAnswered ==
  \A c \in Callers : call[c].pc = "join" ~> call[c].pc # "join"
=============================================================================
