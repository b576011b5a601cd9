------------------------------ MODULE Playlist ------------------------------
(***************************************************************************)
(* One imported playlist: its rows, its folder and the goroutines that     *)
(* rewrite them (playlist/service.go).  An import, a guarded sync, a       *)
(* "download missing" and a folder build each run beside the others; they  *)
(* meet in playlist_tracks, in the downloads table and on the disk.        *)
(***************************************************************************)
EXTENDS Naturals, Sequences, FiniteSets

CONSTANTS
  Songs,        \* what a playlist lists
  Answers,      \* the lists its source may answer with
  Runners,      \* goroutines
  ListLength,   \* bound: of an answer
  MaxStarts, MaxTurns   \* bounds: what users and timers start, turns of records

ASSUME ListAssumption ==
  /\ "none" \notin Songs /\ Answers \subseteq Seq(Songs)
  /\ ListLength \in Nat \ {0}

VARIABLES
  playlist,   \* the playlists row
  listing,       \* playlist_tracks, by position
  held,       \* the songs of the library
  record,     \* by song: its download of this playlist
  folder,     \* the files, as position and song
  syncing,    \* Service.syncing
  run,        \* by goroutine: what it does
  owed,       \* goroutines that were started and have not begun, by kind
  worker,     \* a pass of retryPendingDownloads
  begun       \* how often a user or timer started something, and records turned

listVars == <<playlist, listing, held, record, folder, syncing, run, owed, worker, begun>>

Kinds == {"sync", "missing", "folder"}
Positions == 1 .. ListLength
NoRow == [song |-> "none", linked |-> FALSE]
NoRows == [i \in Positions |-> NoRow]
NoPlaylist == [there |-> FALSE, mode |-> "mirror", auto |-> FALSE]
Off == [kind |-> "off", at |-> "off", copy |-> NoPlaylist, answer |-> <<>>, rows |-> NoRows,
        next |-> 1, already |-> {}, rearm |-> {}, unmatched |-> FALSE, queued |-> FALSE]

(* A playlist that was imported, with auto sync turned on and nothing      *)
(* found yet.                                                              *)
ListInit ==
  /\ playlist = [there |-> TRUE, mode |-> "mirror", auto |-> TRUE]
  /\ \E s \in Songs : listing = [NoRows EXCEPT ![1] = [song |-> s, linked |-> FALSE]]
  /\ held = {} /\ record = [s \in Songs |-> "none"] /\ folder = {}
  /\ syncing = FALSE /\ run = [w \in Runners |-> Off] /\ owed = [k \in Kinds |-> 0]
  /\ worker = {} /\ begun = [starts |-> 0, turns |-> 0]

At(w, kinds, at) == run[w].kind \in kinds /\ run[w].at = at
With(r, fields) == [x \in DOMAIN r |-> IF x \in DOMAIN fields THEN fields[x] ELSE r[x]]
Goes(w, fields) == run' = [run EXCEPT ![w] = With(run[w], fields)]
Afresh(w, fields) == run' = [run EXCEPT ![w] = With([Off EXCEPT !.kind = run[w].kind], fields)]
Goroutine(kinds) == owed' = [k \in Kinds |-> owed[k] + (IF k \in kinds THEN 1 ELSE 0)]
findInLibrary(s) == s \in held

(* playlist_tracks: a write to a deleted playlist breaks the foreign key   *)
(* and is only logged.                                                     *)
UpsertPlaylistTrack(i, s, linked) ==
  listing' = IF playlist.there THEN [listing EXCEPT ![i] = [song |-> s, linked |-> linked]] ELSE listing

-----------------------------------------------------------------------------
(* ImportPlaylist.  Nothing keeps it apart from a sync of the playlist.    *)
handleImportPlaylist(w) ==
  /\ run[w].kind = "off" /\ begun.starts < MaxStarts
  /\ begun' = [begun EXCEPT !.starts = @ + 1]
  /\ Goes(w, [kind |-> "import", at |-> "fetch"])
  /\ UNCHANGED <<playlist, listing, held, record, folder, syncing, owed, worker>>

(* upsertPlaylist keeps the flags of a known playlist and sets its mode.   *)
upsertPlaylist(mode) ==
  playlist' = IF playlist.there THEN [playlist EXCEPT !.mode = mode]
              ELSE [there |-> TRUE, mode |-> mode, auto |-> FALSE]

ImportFetched(w) ==
  /\ At(w, {"import"}, "fetch")
  /\ \/ run' = [run EXCEPT ![w] = Off] /\ UNCHANGED playlist
     \/ \E answer \in Answers, mode \in {"mirror", "append"} :
          upsertPlaylist(mode) /\ Goes(w, [at |-> "clear", answer |-> answer])
  /\ UNCHANGED <<listing, held, record, folder, syncing, owed, worker, begun>>

DeletePlaylistTracks(w) ==
  /\ At(w, {"import", "sync"}, "clear")
  /\ listing' = NoRows
  /\ Goes(w, [at |-> "write", next |-> 1, unmatched |-> FALSE])
  /\ UNCHANGED <<playlist, held, record, folder, syncing, owed, worker, begun>>

WriteTrack(w) ==
  /\ At(w, {"import", "sync"}, "write") /\ run[w].next <= Len(run[w].answer)
  /\ LET s == run[w].answer[run[w].next] IN
       /\ UpsertPlaylistTrack(run[w].next, s, findInLibrary(s))
       /\ Goes(w, [next |-> run[w].next + 1, unmatched |-> run[w].unmatched \/ ~findInLibrary(s)])
  /\ UNCHANGED <<playlist, held, record, folder, syncing, owed, worker, begun>>

Imported(w) ==
  /\ At(w, {"import"}, "write") /\ run[w].next > Len(run[w].answer)
  /\ Goroutine(IF run[w].unmatched THEN {"folder", "missing"} ELSE {"folder"})
  /\ run' = [run EXCEPT ![w] = Off]
  /\ UNCHANGED <<playlist, listing, held, record, folder, syncing, worker, begun>>

-----------------------------------------------------------------------------
(* SyncPlaylistGuarded: from the job, the auto-sync worker or a            *)
(* DownloadMissing that queued something.  A second one skips.             *)
AskSync(w) == 
  /\ run[w].kind = "off" /\ begun.starts < MaxStarts
  /\ begun' = [begun EXCEPT !.starts = @ + 1]
  /\ Goes(w, [kind |-> "sync", at |-> "enter"])
  /\ UNCHANGED owed

handleSyncPlaylist(w) == AskSync(w) /\ UNCHANGED <<playlist, listing, held, record, folder, syncing, worker>>
syncAutoPlaylists(w) == playlist.there /\ playlist.auto /\ handleSyncPlaylist(w)

EnterSyncUnmarked(w) ==
  /\ At(w, {"sync"}, "enter")
  /\ IF syncing THEN run' = [run EXCEPT ![w] = Off] ELSE Goes(w, [at |-> "begin"])
  /\ UNCHANGED syncing

EnterSync(w) ==
  /\ At(w, {"sync"}, "enter")
  /\ IF syncing THEN run' = [run EXCEPT ![w] = Off] ELSE Goes(w, [at |-> "begin"])
  /\ syncing' = TRUE

LeaveSync(w) == run' = [run EXCEPT ![w] = Off] /\ syncing' = FALSE

(* SyncPlaylist holds the row it reads here until it writes it back.       *)
BeginSync(w) ==
  /\ At(w, {"sync"}, "begin")
  /\ IF playlist.there THEN Goes(w, [at |-> "wait", copy |-> playlist]) /\ UNCHANGED syncing ELSE LeaveSync(w)
  /\ UNCHANGED <<playlist, listing, held, record, folder, owed, worker, begun>>

(* The wait ends with the last active download or after five minutes; then *)
(* only an answer that lists something replaces the rows.                  *)
RebuildFromAny(w, answer) == Goes(w, [at |-> "clear", answer |-> answer])
RebuildFrom(w, answer) ==
  IF answer = <<>> THEN Goes(w, [at |-> "relink"]) ELSE Goes(w, [at |-> "clear", answer |-> answer])

SyncFetched(w) ==
  /\ At(w, {"sync"}, "wait")
  /\ \/ Goes(w, [at |-> "relink"])
     \/ \E answer \in Answers : RebuildFrom(w, answer)
  /\ UNCHANGED <<playlist, listing, held, record, folder, syncing, owed, worker, begun>>

(* The second pass looks at every unlinked row of one read again.          *)
Relink(w) ==
  /\ \/ At(w, {"sync"}, "relink")
     \/ At(w, {"sync"}, "write") /\ run[w].next > Len(run[w].answer)
  /\ Afresh(w, [at |-> "link", rows |-> listing, copy |-> run[w].copy])
  /\ UNCHANGED <<playlist, listing, held, record, folder, syncing, owed, worker, begun>>

LinkRow(w) ==
  /\ At(w, {"sync"}, "link") /\ run[w].next \in Positions
  /\ LET row == run[w].rows[run[w].next]
         looks == row # NoRow /\ ~row.linked
         found == looks /\ findInLibrary(row.song) IN
       /\ IF found THEN UpsertPlaylistTrack(run[w].next, row.song, TRUE) ELSE UNCHANGED listing
       /\ Goes(w, [next |-> run[w].next + 1, unmatched |-> run[w].unmatched \/ (looks /\ ~found)])
  /\ UNCHANGED <<playlist, held, record, folder, syncing, owed, worker, begun>>

(* The whole row goes back, flags and mode included.                       *)
StampSynced(w) ==
  /\ At(w, {"sync"}, "link") /\ run[w].next \notin Positions
  /\ playlist' = IF playlist.there THEN run[w].copy ELSE playlist
  /\ Afresh(w, [at |-> IF run[w].unmatched THEN "ask" ELSE "end"])
  /\ UNCHANGED <<listing, held, record, folder, syncing, owed, worker, begun>>

Synced(w) ==
  /\ At(w, {"sync"}, "end")
  /\ Goroutine({"folder"}) /\ LeaveSync(w)
  /\ UNCHANGED <<playlist, listing, held, record, folder, worker, begun>>

-----------------------------------------------------------------------------
(* DownloadMissing: from the handler, an import or the end of a sync.      *)
Take(w, kind, at) ==
  /\ run[w].kind = "off" /\ owed[kind] > 0
  /\ owed' = [owed EXCEPT ![kind] = @ - 1]
  /\ Goes(w, [kind |-> kind, at |-> at])
  /\ UNCHANGED <<playlist, listing, held, record, folder, syncing, worker, begun>>

handleDownloadMissing(w) ==
  /\ run[w].kind = "off" /\ playlist.there /\ begun.starts < MaxStarts
  /\ begun' = [begun EXCEPT !.starts = @ + 1]
  /\ Goes(w, [kind |-> "missing", at |-> "ask"])
  /\ UNCHANGED <<playlist, listing, held, record, folder, syncing, owed, worker>>

(* What the downloads table says of the list now is believed until the     *)
(* run ends: "spent" out of retries, "exhausted" so for a day.             *)
ReadMissing(w) ==
  /\ At(w, {"missing", "sync"}, "ask")
  /\ Afresh(w, [at |-> "queue", rows |-> listing,
              already |-> {s \in Songs : record[s] \notin {"none", "exhausted"}},
              rearm |-> {s \in Songs : record[s] = "exhausted"}])
  /\ UNCHANGED <<playlist, listing, held, record, folder, syncing, owed, worker, begun>>

(* Retry wants a record that failed; QueuePending leaves an active one.    *)
Retryable(s) == record[s] \in {"pending", "spent", "exhausted", "ignored"}
Requeued(w, s) == 
  IF s \in run[w].rearm
  THEN IF Retryable(s) THEN [record EXCEPT ![s] = "queued"] ELSE record
  ELSE [record EXCEPT ![s] = "queued"]

QueueMissing(w) ==
  /\ At(w, {"missing", "sync"}, "queue") /\ run[w].next \in Positions
  /\ LET row == run[w].rows[run[w].next]
         s == row.song
         skip == row = NoRow \/ row.linked \/ s \in run[w].already \/ s \in held
         did == ~skip /\ (s \notin run[w].rearm \/ Retryable(s)) IN
       /\ record' = IF skip THEN record ELSE Requeued(w, s)
       /\ Goes(w, [next |-> run[w].next + 1, queued |-> run[w].queued \/ did])
  /\ UNCHANGED <<playlist, listing, held, folder, syncing, owed, worker, begun>>

MissingDone(w) ==
  /\ At(w, {"missing", "sync"}, "queue") /\ run[w].next \notin Positions
  /\ Goroutine(IF run[w].queued THEN {"sync"} ELSE {})
  /\ IF run[w].kind = "sync" THEN Afresh(w, [at |-> "end"]) ELSE run' = [run EXCEPT ![w] = Off]
  /\ UNCHANGED <<playlist, listing, held, record, folder, syncing, worker, begun>>

-----------------------------------------------------------------------------
(* buildPlaylistFolder: copies the linked rows of one read, then in mirror *)
(* mode removes every file that read does not know.                        *)
Wanted(rs) == {<<i, rs[i].song>> : i \in {j \in Positions : rs[j] # NoRow /\ rs[j].linked}}

ReadFolder(w) ==
  /\ At(w, {"folder"}, "read")
  /\ IF playlist.there THEN Goes(w, [at |-> "copy", copy |-> playlist, rows |-> listing])
     ELSE run' = [run EXCEPT ![w] = Off]
  /\ UNCHANGED <<playlist, listing, held, record, folder, syncing, owed, worker, begun>>

CopyFiles(w) ==
  /\ At(w, {"folder"}, "copy")
  /\ \E copied \in SUBSET Wanted(run[w].rows) : folder' = folder \cup copied
  /\ Goes(w, [at |-> "sweep"])
  /\ UNCHANGED <<playlist, listing, held, record, syncing, owed, worker, begun>>

SweepFolder(w) ==
  /\ At(w, {"folder"}, "sweep")
  /\ folder' = IF run[w].copy.mode = "mirror" THEN folder \cap Wanted(run[w].rows) ELSE folder
  /\ run' = [run EXCEPT ![w] = Off]
  /\ UNCHANGED <<playlist, listing, held, record, syncing, owed, worker, begun>>

-----------------------------------------------------------------------------
(* retryPendingDownloads: a second retry loop beside the monitor's.  It    *)
(* writes back whole records it read before the searches.                  *)
ReadPending ==
  /\ worker = {} /\ worker' = {s \in Songs : record[s] = "pending"} /\ worker' # {}
  /\ UNCHANGED <<playlist, listing, held, record, folder, syncing, run, owed, begun>>

retryPendingDownloads(s) ==
  /\ s \in worker /\ worker' = worker \ {s}
  /\ \/ UNCHANGED record                               \* its backoff runs
     \/ record' = [record EXCEPT ![s] = "spent"]       \* out of retries
     \/ s \in held /\ record' = [record EXCEPT ![s] = "ignored"]
     \/ s \notin held /\ \E found \in {"queued", "pending"} : record' = [record EXCEPT ![s] = found]
  /\ UNCHANGED <<playlist, listing, held, folder, syncing, run, owed, begun>>

(* What the download pipeline, its user and the day do to a record.        *)
Turn(s, from, to) ==
  /\ record[s] \in from /\ begun.turns < MaxTurns
  /\ record' = [record EXCEPT ![s] = to]
  /\ held' = IF to = "completed" THEN held \cup {s} ELSE held
  /\ begun' = [begun EXCEPT !.turns = @ + 1]
  /\ UNCHANGED <<playlist, listing, folder, syncing, run, owed, worker>>

PipelineTurns(s) ==
  \/ Turn(s, {"queued"}, "completed") \/ Turn(s, {"queued"}, "pending")
  \/ Turn(s, {"pending"}, "queued") \/ Turn(s, {"pending"}, "spent")
  \/ Turn(s, {"queued", "pending"}, "ignored") \/ Turn(s, {"spent"}, "exhausted")

-----------------------------------------------------------------------------
handleUpdatePlaylist ==
  /\ playlist.there /\ begun.starts < MaxStarts
  /\ \/ playlist' = [playlist EXCEPT !.auto = ~@]
     \/ \E mode \in {"mirror", "append"} : playlist' = [playlist EXCEPT !.mode = mode]
  /\ begun' = [begun EXCEPT !.starts = @ + 1]
  /\ UNCHANGED <<listing, held, record, folder, syncing, run, owed, worker>>

handleDeletePlaylist ==
  /\ playlist.there /\ begun.starts < MaxStarts
  /\ playlist' = NoPlaylist /\ listing' = NoRows
  /\ begun' = [begun EXCEPT !.starts = @ + 1]
  /\ UNCHANGED <<held, record, folder, syncing, run, owed, worker>>

ListNext ==
  \/ \E w \in Runners :
       \/ handleImportPlaylist(w) \/ ImportFetched(w) \/ DeletePlaylistTracks(w) \/ WriteTrack(w) \/ Imported(w)
       \/ handleSyncPlaylist(w) \/ syncAutoPlaylists(w)
       \/ Take(w, "sync", "enter") \/ Take(w, "missing", "ask") \/ Take(w, "folder", "read")
       \/ EnterSync(w) /\ UNCHANGED <<playlist, listing, held, record, folder, owed, worker, begun>>
       \/ BeginSync(w) \/ SyncFetched(w) \/ Relink(w) \/ LinkRow(w) \/ StampSynced(w) \/ Synced(w)
       \/ handleDownloadMissing(w) \/ ReadMissing(w) \/ QueueMissing(w) \/ MissingDone(w)
       \/ ReadFolder(w) \/ CopyFiles(w) \/ SweepFolder(w)
  \/ ReadPending \/ \E s \in Songs : retryPendingDownloads(s) \/ PipelineTurns(s)
  \/ handleUpdatePlaylist \/ handleDeletePlaylist

-----------------------------------------------------------------------------
ListTypeOK ==
  /\ playlist \in [there : BOOLEAN, mode : {"mirror", "append"}, auto : BOOLEAN]
  /\ listing \in [Positions -> [song : Songs \cup {"none"}, linked : BOOLEAN]]
  /\ record \in [Songs -> {"none", "queued", "completed", "pending", "spent", "exhausted", "ignored"}]
  /\ held \subseteq Songs /\ folder \subseteq (Positions \X Songs) /\ worker \subseteq Songs

(* Two guarded syncs never work on the playlist at once, and the flag is   *)
(* down whenever none runs: a sync that ended early would otherwise block  *)
(* every later one (SyncPlaylistGuarded).                                  *)
InSync == {w \in Runners : run[w].kind = "sync" /\ run[w].at # "enter"}
SyncExclusive == Cardinality(InSync) = (IF syncing THEN 1 ELSE 0)

(* The rows go away only with the playlist, to an import, or to a sync     *)
(* that holds other rows to write: a source that fails or answers with     *)
(* nothing never empties a playlist that was there (SyncPlaylist).         *)
Replaces(w) == At(w, {"import"}, "clear") \/ (At(w, {"sync"}, "clear") /\ run[w].answer # <<>>)
RowsKept ==
  [][listing # NoRows /\ listing' = NoRows
       => ~playlist'.there \/ \E w \in Runners : Replaces(w) /\ run'[w].at = "write"]_listVars
=============================================================================
