----------------------------- MODULE CatalogStore -----------------------------
(***************************************************************************)
(* The tables behind the metadata catalog: the refresh queue, one metadata *)
(* row per album, and the expected tracklist of an album.  Every operator  *)
(* below is one call of the store, that is one transaction on the single   *)
(* connection, and yields the new contents of the tables it writes.        *)
(***************************************************************************)
EXTENDS Integers, Sequences, FiniteSets, SequencesExt

CONSTANTS
  CatAlbums,      \* ids of library albums
  Sources,        \* the metadata providers
  NoSource        \* an empty provider name

ASSUME CatalogAssumption == NoSource \notin Sources /\ IsFiniteSet(CatAlbums)

VARIABLES
  queue,    \* metadata_refresh_queue, by album (no code queues an artist)
  meta,     \* album_metadata, by album
  rows      \* album_tracks, by album: what kind of tracklist is stored

catalogVars == <<queue, meta, rows>>

\* due: "now" is due_at <= now, "later" a backoff or a cooldown ahead, "long"
\* the 90 days of UnmatchedRetry.
Due == {"now", "later", "long"}
NoRow == [queued |-> FALSE, due |-> "long", att |-> 0]

\* old: last_refreshed_at of a materialized album is past the stale TTL, or
\* updated_at of any other one past UnmatchedRetry.
NoMeta == [link |-> NoSource, status |-> "none", partial |-> FALSE, old |-> FALSE]

Terminal(m) == m.status \in {"unmatched", "failed"}
Materialized(m) == m.status \in {"fresh", "stale"}

\* A queued album keeps its row and its attempts and becomes due.
EnqueueRefresh(q, a) ==
  [q EXCEPT ![a] = IF @.queued THEN [@ EXCEPT !.due = "now"]
                   ELSE [queued |-> TRUE, due |-> "now", att |-> 0]]

DueAlbums(q) == {a \in CatAlbums : q[a].queued /\ q[a].due = "now"}

\* A claimed row.  Finish and retry address it by its id, which no later row
\* of the album has: live tells that the row is still there.
Item(q, a) == [album |-> a, att |-> q[a].att, live |-> TRUE]

\* Up to limit of the due rows, in any order: the priority, which only orders
\* them, is left out.  Claiming changes nothing.
ClaimDueRefresh(q, limit) ==
  {LET s == SubSeq(t, 1, IF Len(t) < limit THEN Len(t) ELSE limit)
   IN [i \in DOMAIN s |-> Item(q, s[i])] : t \in SetToSeqs(DueAlbums(q))}

FinishRefresh(q, it) == IF it.live THEN [q EXCEPT ![it.album] = NoRow] ELSE q

RetryRefresh(q, it, attempts, due) ==
  IF it.live THEN [q EXCEPT ![it.album].att = attempts, ![it.album].due = due] ELSE q

DeleteRefreshByEntity(q, a) == [q EXCEPT ![a] = NoRow]

\* A parked row of a terminal album becomes due; a failed album, which has no
\* row, gets a new one.  (The cap of 100000 albums is out of reach here.)
ReArmTerminalAlbums(q) ==
  [a \in CatAlbums |->
     IF Terminal(meta[a]) /\ (q[a].queued \/ meta[a].status = "failed")
     THEN EnqueueRefresh(q, a)[a] ELSE q[a]]

\* ListUnmatchedAlbums and GetUnmatchedAlbum.  No code deletes an album, so the
\* join with the albums table drops nothing.
UnmatchedAlbums == {a \in CatAlbums : meta[a].status = "unmatched"}

\* unmaterializedAlbumIDs: no tracklist, and no metadata row that is fresh or
\* parked within its retry window.
UnmaterializedAlbums ==
  {a \in CatAlbums : /\ rows[a] = "none"
               /\ ~Materialized(meta[a])
               /\ ~(Terminal(meta[a]) /\ ~meta[a].old)}

=============================================================================
