------------------------------- MODULE Tracking -------------------------------
(***************************************************************************)
(* One tracked artist and its albums (internal/tracking): a refresh that   *)
(* reconciles the provider's discography, a search that queues what is     *)
(* wanted, the import that links an album back, and the user, who edits    *)
(* the same rows meanwhile.  Each statement on the store is a step.        *)
(***************************************************************************)
EXTENDS Integers, FiniteSets

CONSTANTS
  Discography,      \* the provider's albums
  Future,           \* those of a coming year
  searchBatchSize,
  MaxSearches, MaxRefreshes, MaxEdits   \* bounds

ASSUME TrackAssumption == MaxSearches \in Nat

VARIABLES
  artist,     \* the tracked_artists row
  albums,     \* tracked_albums, by album
  library,    \* albums the library holds
  downloads,  \* by album: its newest download record
  refresh,    \* a run of AddArtist or RefreshArtist
  search,     \* a run of SearchMissing
  linker,     \* a run of LinkImportedAlbum
  recompute,  \* a run of recomputeArtistAlbums
  spent       \* how often each actor began

trackVars == <<artist, albums, library, downloads, refresh, search, linker, recompute, spent>>

NoArtist == [there |-> FALSE, monitored |-> FALSE, mode |-> "all"]
NoAlbum == [status |-> "none", monitored |-> FALSE, link |-> FALSE, searched |-> 0]
NoRefresh == [at |-> "off", todo |-> {}, artist |-> NoArtist, lib |-> {}, album |-> "none", row |-> NoAlbum]
NoSearch == [at |-> "off", active |-> {}, rearm |-> {}, todo |-> {}, album |-> "none"]
NoLink == [at |-> "off", album |-> "none", row |-> NoAlbum]
NoRecompute == [at |-> "off", wanted |-> [a \in Discography |-> FALSE], todo |-> {}]

TrackInit ==
  /\ artist = NoArtist
  /\ albums = [a \in Discography |-> NoAlbum]
  /\ library = {}
  /\ downloads = [a \in Discography |-> "none"]
  /\ refresh = NoRefresh /\ search = NoSearch /\ linker = NoLink /\ recompute = NoRecompute
  /\ spent = [refresh |-> 0, search |-> 0, edit |-> 0]

Tracked == {a \in Discography : albums[a].status # "none"}

desiredMonitored(who, a) ==
  who.monitored /\ who.mode # "none" /\ (who.mode = "future" => a \in Future)

\* Mutant: the conflict clause takes the incoming row as it is.
UpsertTrackedAlbumWhole(a, row) ==
  albums' = [albums EXCEPT ![a] = [row EXCEPT !.searched = albums[a].searched]]

\* The conflict clause: forward only, the user's toggle and a link survive.
UpsertTrackedAlbum(a, row) ==
  LET old == albums[a]
      status == IF old.status \notin {"downloaded", "ignored"} /\ row.status = "downloaded" THEN "downloaded" ELSE old.status
  IN albums' = [albums EXCEPT ![a] = IF old.status = "none" THEN row
                                     ELSE [old EXCEPT !.status = status, !.link = row.link \/ old.link]]

MarkAlbumStatus(a, status) ==
  albums' = IF a \in Tracked THEN [albums EXCEPT ![a].status = status] ELSE albums
UpdateAlbumMonitor(a, on) ==
  albums' = IF a \in Tracked THEN [albums EXCEPT ![a].monitored = on] ELSE albums
MarkAlbumSearched(a) ==
  albums' = IF a \in Tracked THEN [albums EXCEPT ![a].searched = spent.search] ELSE albums

----------------------------------------------------------------------------
\* AddArtist creates the row or sets an existing one's monitoring, without
\* touching its albums; RefreshArtist takes it as it is.  Either has fetched the
\* discography before.
AddArtist(monitored, mode) ==
  artist' = [there |-> TRUE, monitored |-> monitored /\ mode # "none", mode |-> mode]
RefreshArtist == artist.there /\ UNCHANGED artist

BeginRefresh ==
  /\ refresh.at = "off" /\ spent.refresh < MaxRefreshes
  /\ RefreshArtist \/ \E m \in {"all", "future", "none"}, on \in BOOLEAN : AddArtist(on, m)
  /\ refresh' = [NoRefresh EXCEPT !.at = "read"]
  /\ spent' = [spent EXCEPT !.refresh = @ + 1]
  /\ UNCHANGED <<albums, library, downloads, search, linker, recompute>>

\* ReconcileAlbums: the artist and the library's albums as they are now.
ReadArtist ==
  /\ refresh.at = "read"
  /\ refresh' = IF artist.there
                THEN [refresh EXCEPT !.at = "album", !.todo = Discography, !.artist = artist, !.lib = library]
                ELSE NoRefresh
  /\ UNCHANGED <<artist, albums, library, downloads, search, linker, recompute, spent>>

\* reconcileAlbum reads the row ...
ReadAlbum(a) ==
  /\ refresh.at = "album" /\ a \in refresh.todo
  /\ refresh' = [refresh EXCEPT !.at = "write", !.album = a, !.row = albums[a]]
  /\ UNCHANGED <<artist, albums, library, downloads, search, linker, recompute, spent>>

\* ... resolves it against that snapshot ...
resolveMonitored(who, existing, a) ==
  IF existing.status # "none" THEN existing.monitored ELSE desiredMonitored(who, a)
resolveStatus(existing, matched) ==
  CASE matched -> "downloaded" [] ~matched /\ existing.status # "none" -> existing.status [] OTHER -> "wanted"

Reconciled(a) ==
  LET matched == refresh.row.link \/ a \in refresh.lib
  IN [status |-> resolveStatus(refresh.row, matched),
      monitored |-> resolveMonitored(refresh.artist, refresh.row, a), link |-> matched, searched |-> 0]

\* ... and writes it; a row of a deleted artist is refused and ends the run.
\* The last one is followed by a search when the configuration asks for one.
WriteAlbum ==
  /\ refresh.at = "write"
  /\ IF artist.there
     THEN /\ UpsertTrackedAlbum(refresh.album, Reconciled(refresh.album))
          /\ refresh' = IF refresh.todo = {refresh.album} THEN NoRefresh
                        ELSE [refresh EXCEPT !.at = "album", !.todo = @ \ {refresh.album}]
     ELSE refresh' = NoRefresh /\ UNCHANGED albums
  /\ UNCHANGED <<artist, library, downloads, search, linker, recompute, spent>>

----------------------------------------------------------------------------
\* SearchMissing: the downloads, indexed by title: those at work, and those that
\* used up their retries a day ago.  Tracks queued one by one have other titles.
downloadIndex ==
  /\ search.at = "off" /\ artist.there /\ spent.search < MaxSearches
  /\ search' = [NoSearch EXCEPT !.at = "requeue",
                  !.active = {a \in Discography : downloads[a] = "active"},
                  !.rearm = {a \in Discography : downloads[a] = "exhausted"}]
  /\ spent' = [spent EXCEPT !.search = @ + 1]
  /\ UNCHANGED <<artist, albums, library, downloads, refresh, linker, recompute>>

requeueStalled ==
  /\ search.at = "requeue"
  /\ albums' = [a \in Discography |->
                  IF albums[a].status = "downloading" /\ a \in search.rearm
                  THEN [albums[a] EXCEPT !.status = "wanted"] ELSE albums[a]]
  /\ search' = [search EXCEPT !.at = "list"]
  /\ UNCHANGED <<artist, library, downloads, refresh, linker, recompute, spent>>

ListWanted == {a \in Tracked : albums[a].monitored /\ albums[a].status = "wanted"}

\* The least recently searched first, at most searchBatchSize of them.
sortWanted(todo, picked) ==
  \A a \in picked, b \in todo \ picked : albums[a].searched <= albums[b].searched
searchBatch ==
  /\ search.at = "list"
  /\ \E picked \in SUBSET ListWanted :
       /\ Cardinality(picked) = IF Cardinality(ListWanted) <= searchBatchSize
                                THEN Cardinality(ListWanted) ELSE searchBatchSize
       /\ sortWanted(ListWanted, picked)
       /\ search' = IF picked = {} THEN NoSearch ELSE [search EXCEPT !.at = "album", !.todo = picked]
  /\ UNCHANGED <<artist, albums, library, downloads, refresh, linker, recompute, spent>>

\* processWanted: retries the exhausted download, leaves an active one alone, or
\* queues the album as one release or track by track.
Queued(a, kind) ==
  /\ downloads' = [downloads EXCEPT ![a] = kind]
  /\ search' = [search EXCEPT !.at = "mark", !.album = a]
NotQueued(a) ==
  /\ search' = [search EXCEPT !.at = "searched", !.album = a]
  /\ UNCHANGED downloads

processWanted(a) ==
  /\ search.at = "album" /\ a \in search.todo
  /\ \/ a \in search.rearm /\ Queued(a, "active")
     \/ a \notin search.rearm \cup search.active /\ \E kind \in {"active", "tracks"} : Queued(a, kind)
     \/ NotQueued(a)
  /\ UNCHANGED <<artist, albums, library, refresh, linker, recompute, spent>>

MarkDownloading ==
  /\ search.at = "mark"
  /\ MarkAlbumStatus(search.album, "downloading")
  /\ search' = [search EXCEPT !.at = "searched"]
  /\ UNCHANGED <<artist, library, downloads, refresh, linker, recompute, spent>>

markAlbumSearched ==
  /\ search.at = "searched"
  /\ MarkAlbumSearched(search.album)
  /\ search' = IF search.todo = {search.album} THEN NoSearch
               ELSE [search EXCEPT !.at = "album", !.todo = @ \ {search.album}]
  /\ UNCHANGED <<artist, library, downloads, refresh, linker, recompute, spent>>

----------------------------------------------------------------------------
\* A download uses up its retries, or its import puts the album into the library
\* and calls LinkImportedAlbum, which reads the row and writes it promoted.
DownloadExhausted(a) ==
  /\ downloads[a] = "active"
  /\ downloads' = [downloads EXCEPT ![a] = "exhausted"]
  /\ UNCHANGED <<artist, albums, library, refresh, search, linker, recompute, spent>>

LinkImportedAlbum(a) ==
  /\ downloads[a] \in {"active", "tracks"} /\ linker.at = "off"
  /\ downloads' = [downloads EXCEPT ![a] = "none"]
  /\ library' = library \cup {a}
  /\ linker' = IF albums[a].status \in {"none", "downloaded", "ignored"} THEN NoLink
               ELSE [at |-> "write", album |-> a, row |-> albums[a]]
  /\ UNCHANGED <<artist, albums, refresh, search, recompute, spent>>

promoteImported ==
  /\ linker.at = "write"
  /\ IF artist.there
     THEN UpsertTrackedAlbum(linker.album, [linker.row EXCEPT !.status = "downloaded", !.link = TRUE, !.searched = 0])
     ELSE UNCHANGED albums
  /\ linker' = NoLink
  /\ UNCHANGED <<artist, library, downloads, refresh, search, recompute, spent>>

----------------------------------------------------------------------------
\* The user.
Edit == artist.there /\ spent.edit < MaxEdits /\ spent' = [spent EXCEPT !.edit = @ + 1]

SetAlbumStatus(a, status) ==
  /\ Edit /\ a \in Tracked
  /\ MarkAlbumStatus(a, status)
  /\ UNCHANGED <<artist, library, downloads, refresh, search, linker, recompute>>

SetAlbumMonitored(a, on) ==
  /\ Edit /\ a \in Tracked
  /\ UpdateAlbumMonitor(a, on)
  /\ UNCHANGED <<artist, library, downloads, refresh, search, linker, recompute>>

\* The artist's row first, then its albums one by one.
SetArtistMonitor(on, mode) ==
  /\ Edit /\ recompute.at = "off"
  /\ artist' = [artist EXCEPT !.monitored = on /\ mode # "none", !.mode = mode]
  /\ recompute' = [NoRecompute EXCEPT !.at = "list"]
  /\ UNCHANGED <<albums, library, downloads, refresh, search, linker>>

recomputeList ==
  /\ recompute.at = "list"
  /\ recompute' =
       LET differ == {a \in Tracked : albums[a].status # "ignored" /\ albums[a].monitored # desiredMonitored(artist, a)}
       IN IF differ = {} THEN NoRecompute
          ELSE [at |-> "write", wanted |-> [a \in Discography |-> desiredMonitored(artist, a)], todo |-> differ]
  /\ UNCHANGED <<artist, albums, library, downloads, refresh, search, linker, spent>>

recomputeArtistAlbums(a) ==
  /\ recompute.at = "write" /\ a \in recompute.todo
  /\ UpdateAlbumMonitor(a, recompute.wanted[a])
  /\ recompute' = IF recompute.todo = {a} THEN NoRecompute ELSE [recompute EXCEPT !.todo = @ \ {a}]
  /\ UNCHANGED <<artist, library, downloads, refresh, search, linker, spent>>

\* Its albums go with it.
DeleteTrackedArtist ==
  /\ Edit
  /\ artist' = NoArtist
  /\ albums' = [a \in Discography |-> NoAlbum]
  /\ UNCHANGED <<library, downloads, refresh, search, linker, recompute>>

TrackNext ==
  \/ BeginRefresh \/ ReadArtist \/ WriteAlbum
  \/ downloadIndex \/ requeueStalled \/ searchBatch \/ MarkDownloading \/ markAlbumSearched
  \/ promoteImported \/ recomputeList \/ DeleteTrackedArtist
  \/ \E a \in Discography :
       \/ ReadAlbum(a) \/ processWanted(a) \/ DownloadExhausted(a) \/ LinkImportedAlbum(a)
       \/ recomputeArtistAlbums(a)
       \/ \E s \in {"wanted", "ignored"} : SetAlbumStatus(a, s)
       \/ \E on \in BOOLEAN : SetAlbumMonitored(a, on)
  \/ \E on \in BOOLEAN, m \in {"all", "future", "none"} : SetArtistMonitor(on, m)

AlbumStatuses == {"none", "wanted", "downloading", "downloaded", "ignored"}
TrackTypeOK ==
  /\ \A a \in Discography : albums[a].status \in AlbumStatuses /\ albums[a].searched \in 0..MaxSearches
  /\ ~artist.there => Tracked = {}
  /\ \A a \in Discography : downloads[a] \in {"none", "active", "tracks", "exhausted"}

----------------------------------------------------------------------------
\* Whatever the user did between a refresh's or an import's read of a row and
\* its write, the write takes nothing back: an album that is ignored or
\* downloaded stays so, a toggle survives, and a library link is never lost.
ForwardOnly ==
  [][\A a \in Tracked :
       (refresh.at = "write" /\ refresh' # refresh) \/ (linker.at = "write" /\ linker' # linker) =>
          /\ albums[a].status \in {"downloaded", "ignored"} => albums'[a].status = albums[a].status
          /\ albums'[a].monitored = albums[a].monitored
          /\ albums[a].link => albums'[a].link]_trackVars
=============================================================================
