------------------------------- MODULE Library -------------------------------
(***************************************************************************)
(* The library tables and the audio files they name (library/sqlite,       *)
(* library/scanner.go, library/organizer.go).  A download's import chain,  *)
(* the job in the manager's slot and the artist merge of the HTTP API      *)
(* write them beside one another; what holds them together is SQLite's     *)
(* foreign keys.  An album has one title, a file one song.                 *)
(***************************************************************************)
EXTENDS Naturals, FiniteSets

CONSTANTS
  Spellings,     \* of one artist's name: equal but for case
  ArtistIds, DiscIds, RowIds,   \* bounds: the keys AUTOINCREMENT may hand out
  Merges,        \* requests to merge two artists
  MaxLibraryJobs \* bound: jobs started

VARIABLES
  names,      \* artists.name, by id
  discs,      \* albums.artist_id, by id
  tracks,     \* tracks: album_id, artist_id and file_path, by id
  given,      \* the highest id each table has given
  shelf,      \* the audio files under the library root, as file and folder
  hand,       \* who imports, organizes or enriches, and what it has read
  merging,    \* by request: where handleLibraryArtistMerge is
  undone,     \* files whose row an enrichment wrote back to an older path
  jobsBegun

libVars == <<names, discs, tracks, given, shelf, hand, merging, undone, jobsBegun>>

Hands == {"chain", "slot"}
Unnamed == "none"
NoDisc == 0

ASSUME LibraryAssumption ==
  /\ {"A", "a"} \subseteq Spellings /\ Unnamed \notin Spellings
  /\ \A Ids \in {ArtistIds, DiscIds, RowIds} : {1, 2} \subseteq Ids /\ Ids \subseteq Nat \ {0}

NoTrack == [disc |-> NoDisc, artist |-> 0, path |-> <<"none", "none">>]
Idle == [kind |-> "off", at |-> "off", path |-> NoTrack.path, says |-> Unnamed, artist |-> 0,
         disc |-> NoDisc, row |-> 0, copy |-> NoTrack, page |-> [a \in ArtistIds |-> Unnamed],
         seen |-> {}, albums |-> {}, rows |-> {}]
NoMerge == [at |-> "new", keep |-> 0, remove |-> 0, canonical |-> Unnamed]

ArtistThere(a) == a # 0 /\ names[a] # Unnamed
DiscThere(d) == d # NoDisc /\ discs[d] # 0
TrackThere(r) == r # 0 /\ tracks[r] # NoTrack
Lowest(S) == CHOOSE x \in S : \A y \in S : x <= y
FirstArtists(n) == [a \in ArtistIds |-> IF a = 1 THEN "A" ELSE IF a = 2 /\ n = 2 THEN "a" ELSE Unnamed]

(* A library that has two spellings of an artist, each with its album, or  *)
(* one that is still empty and has files for a first scan.                 *)
LibraryInit ==
  /\ \/ /\ names = FirstArtists(2)
        /\ discs = [d \in DiscIds |-> IF d <= 2 THEN d ELSE 0]
        /\ tracks = [r \in RowIds |-> CASE r = 1 -> [disc |-> 1, artist |-> 1, path |-> <<"e", "A">>]
                                        [] r = 2 -> [disc |-> 2, artist |-> 2, path |-> <<"f", "a">>]
                                        [] OTHER -> NoTrack]
        /\ given = [artist |-> 2, disc |-> 2, row |-> 2]
        /\ shelf = {<<"e", "A">>, <<"f", "a">>}
     \/ /\ names = [a \in ArtistIds |-> Unnamed]
        /\ discs = [d \in DiscIds |-> 0]
        /\ tracks = [r \in RowIds |-> NoTrack]
        /\ given = [artist |-> 0, disc |-> 0, row |-> 0]
        /\ shelf = {<<"e", "inbox">>}
  /\ hand = [w \in Hands |-> Idle]
  /\ merging = [m \in Merges |-> NoMerge]
  /\ undone = {} /\ jobsBegun = 0

Hand(w, kinds, at) == hand[w].kind \in kinds /\ hand[w].at = at
Becomes(w, h) == hand' = [hand EXCEPT ![w] = h]
GoesTo(w, at) == Becomes(w, [hand[w] EXCEPT !.at = at])
Tables == <<names, discs, tracks, given>>

-----------------------------------------------------------------------------
(* ImportTrack: artist, album and track are three statements of their own. *)

(* An import leaves the chain for good, a scan goes on with the next file. *)
Leaves(w, at) ==
  IF hand[w].kind = "import" THEN Becomes(w, [hand[w] EXCEPT !.at = at, !.copy = NoTrack])
  ELSE Becomes(w, [hand[w] EXCEPT !.at = "walk", !.says = Unnamed, !.artist = 0, !.disc = NoDisc,
                                     !.row = 0, !.path = NoTrack.path])

(* GetTrackByFilePath.  A path that has a row is not imported again.       *)
GetTrackByFilePath(w) ==
  /\ Hand(w, {"scan", "import"}, "look")
  /\ LET known == {r \in RowIds : TrackThere(r) /\ tracks[r].path = hand[w].path} IN
     IF known = {} THEN GoesTo(w, "artist")
     ELSE IF hand[w].kind = "scan" THEN Leaves(w, "walk")
     ELSE Becomes(w, [hand[w] EXCEPT !.at = "enrich", !.row = Lowest(known)])
  /\ UNCHANGED <<Tables, shelf, merging, undone, jobsBegun>>

(* A scan takes the artist's name from the file's tags, an import from the *)
(* record; the look is NOCASE and takes the oldest.                        *)
GetArtistByName == {a \in ArtistIds : ArtistThere(a)}

getOrCreateArtist(w) ==
  /\ Hand(w, {"scan", "import"}, "artist")
  /\ \E s \in IF hand[w].says = Unnamed THEN Spellings ELSE {hand[w].says} :
       IF GetArtistByName = {} THEN Becomes(w, [hand[w] EXCEPT !.at = "newArtist", !.says = s])
       ELSE Becomes(w, [hand[w] EXCEPT !.at = "disc", !.says = s, !.artist = Lowest(GetArtistByName)])
  /\ UNCHANGED <<Tables, shelf, merging, undone, jobsBegun>>

(* INSERT OR IGNORE against a unique index that tells the spellings apart. *)
UpsertArtist(w) ==
  /\ Hand(w, {"scan", "import"}, "newArtist")
  /\ \/ /\ \E a \in ArtistIds : names[a] = hand[w].says
        /\ Becomes(w, [hand[w] EXCEPT !.at = "disc", !.artist = Lowest(GetArtistByName)])
        /\ UNCHANGED Tables
     \/ /\ \A a \in ArtistIds : names[a] # hand[w].says
        /\ given.artist + 1 \in ArtistIds
        /\ given' = [given EXCEPT !.artist = @ + 1]
        /\ names' = [names EXCEPT ![given.artist + 1] = hand[w].says]
        /\ Becomes(w, [hand[w] EXCEPT !.at = "disc", !.artist = given.artist + 1])
        /\ UNCHANGED <<discs, tracks>>
  /\ UNCHANGED <<shelf, merging, undone, jobsBegun>>

getOrCreateAlbum(w) ==
  /\ Hand(w, {"scan", "import"}, "disc")
  /\ LET found == {d \in DiscIds : discs[d] = hand[w].artist} IN
     IF found = {} THEN GoesTo(w, "newDisc")
     ELSE Becomes(w, [hand[w] EXCEPT !.at = "row", !.disc = Lowest(found)])
  /\ UNCHANGED <<Tables, shelf, merging, undone, jobsBegun>>

(* The insert of an album or a track is refused when a merge has deleted   *)
(* what it names; no index keeps a second album of the title away.         *)
UpsertAlbum(w) ==
  /\ Hand(w, {"scan", "import"}, "newDisc")
  /\ \/ /\ ArtistThere(hand[w].artist) /\ given.disc + 1 \in DiscIds
        /\ given' = [given EXCEPT !.disc = @ + 1]
        /\ discs' = [discs EXCEPT ![given.disc + 1] = hand[w].artist]
        /\ Becomes(w, [hand[w] EXCEPT !.at = "row", !.disc = given.disc + 1])
     \/ /\ ~ArtistThere(hand[w].artist) /\ Leaves(w, "failed") /\ UNCHANGED <<given, discs>>
  /\ UNCHANGED <<names, tracks, shelf, merging, undone, jobsBegun>>

KeysHold(t) == ArtistThere(t.artist) /\ DiscThere(t.disc)

UpsertTrack(w) ==
  /\ Hand(w, {"scan", "import"}, "row")
  /\ LET t == [disc |-> hand[w].disc, artist |-> hand[w].artist, path |-> hand[w].path] IN
     \/ /\ KeysHold(t) /\ given.row + 1 \in RowIds
        /\ given' = [given EXCEPT !.row = @ + 1]
        /\ tracks' = [tracks EXCEPT ![given.row + 1] = t]
        /\ IF hand[w].kind = "scan" THEN Leaves(w, "walk")
           ELSE Becomes(w, [hand[w] EXCEPT !.at = "enrich", !.row = given.row + 1])
     \/ /\ ~KeysHold(t) /\ Leaves(w, "failed") /\ UNCHANGED <<given, tracks>>
  /\ UNCHANGED <<names, discs, shelf, merging, undone, jobsBegun>>

-----------------------------------------------------------------------------
(* The download's import chain: the renamer puts the file into the folder  *)
(* of the name the record carries, then it is imported and enriched.       *)
RenameDownload ==
  /\ Hand("chain", {"off"}, "off")
  /\ \E s \in Spellings :
       /\ shelf' = shelf \cup {<<"g", s>>}
       /\ Becomes("chain", [Idle EXCEPT !.kind = "import", !.at = "look", !.path = <<"g", s>>, !.says = s])
  /\ UNCHANGED <<Tables, merging, undone, jobsBegun>>

-----------------------------------------------------------------------------
(* enrichTrack reads the rows, asks providers and writes the whole rows it *)
(* read.  The chain enriches what it imported; the enrich job any track.   *)
EnrichRead(w) ==
  /\ Hand(w, {"import", "enrich"}, "enrich")
  /\ LET r == hand[w].row IN
     IF TrackThere(r) /\ KeysHold(tracks[r])
     THEN Becomes(w, [hand[w] EXCEPT !.at = "providers", !.copy = tracks[r]])
     ELSE GoesTo(w, "done")
  /\ UNCHANGED <<Tables, shelf, merging, undone, jobsBegun>>

(* What the copy cannot be written for is only logged.                     *)
EnrichWriteTrack(w) ==
  /\ Hand(w, {"import", "enrich"}, "providers")
  /\ LET r == hand[w].row  copy == hand[w].copy IN
     \/ /\ KeysHold(copy)
        /\ tracks' = [tracks EXCEPT ![r] = copy]
        /\ undone' = IF copy.path = tracks[r].path THEN undone ELSE undone \cup {copy.path[1]}
     \/ UNCHANGED <<tracks, undone>>
  /\ GoesTo(w, "album")
  /\ UNCHANGED <<names, discs, given, shelf, merging, jobsBegun>>

EnrichWriteAlbum(w) ==
  /\ Hand(w, {"import", "enrich"}, "album")
  /\ discs' = IF KeysHold(hand[w].copy) THEN [discs EXCEPT ![hand[w].copy.disc] = hand[w].copy.artist]
              ELSE discs
  /\ GoesTo(w, "done")
  /\ UNCHANGED <<names, tracks, given, shelf, merging, undone, jobsBegun>>

-----------------------------------------------------------------------------
(* The manager's slot runs one job at a time.                              *)
SlotFree == hand["slot"].at = "off" /\ jobsBegun < MaxLibraryJobs
TakesSlot(job) == Becomes("slot", job) /\ jobsBegun' = jobsBegun + 1

StartScan ==
  /\ SlotFree /\ TakesSlot([Idle EXCEPT !.kind = "scan", !.at = "walk"])
  /\ UNCHANGED <<Tables, shelf, merging, undone>>

ScanPathWithProgress ==
  /\ Hand("slot", {"scan"}, "walk")
  /\ \E p \in shelf \ hand["slot"].seen :
       Becomes("slot", [hand["slot"] EXCEPT !.at = "look", !.path = p, !.seen = @ \cup {p}])
  /\ UNCHANGED <<Tables, shelf, merging, undone, jobsBegun>>

(* Organize takes the names of all artists in one page, and the albums and *)
(* the tracks of each when it gets there.                                  *)
StartOrganize ==
  /\ SlotFree
  /\ TakesSlot([Idle EXCEPT !.kind = "organize", !.at = "artist", !.page = names])
  /\ UNCHANGED <<Tables, shelf, merging, undone>>

GetAlbumsByArtist ==
  /\ Hand("slot", {"organize"}, "artist")
  /\ \E a \in ArtistIds \ hand["slot"].seen :
       /\ hand["slot"].page[a] # Unnamed
       /\ Becomes("slot", [hand["slot"] EXCEPT !.at = "album", !.artist = a, !.seen = @ \cup {a},
                                              !.albums = {d \in DiscIds : discs[d] = a}])
  /\ UNCHANGED <<Tables, shelf, merging, undone, jobsBegun>>

GetTracks(S) == {<<r, tracks[r]>> : r \in {x \in RowIds : TrackThere(x)} \cap S}

GetTracksByAlbum ==
  /\ Hand("slot", {"organize"}, "album")
  /\ \/ \E d \in hand["slot"].albums :
          Becomes("slot", [hand["slot"] EXCEPT !.at = "track", !.albums = @ \ {d},
                                              !.rows = GetTracks({r \in RowIds : tracks[r].disc = d})])
     \/ hand["slot"].albums = {} /\ GoesTo("slot", "artist")
  /\ UNCHANGED <<Tables, shelf, merging, undone, jobsBegun>>

(* Organizer.Organize: a track in place, whose target exists or whose file *)
(* is gone is left; otherwise the file is moved before its row is written. *)
Target(copy) == <<copy.path[1], hand["slot"].page[hand["slot"].artist]>>
Movable(copy) == Target(copy) # copy.path /\ Target(copy) \notin shelf /\ copy.path \in shelf
AfterTracks == IF hand["slot"].kind = "merge" THEN "done" ELSE "album"

RenameFor ==
  /\ Hand("slot", {"organize", "merge"}, "track")
  /\ \/ \E e \in hand["slot"].rows :
          LET left == hand["slot"].rows \ {e} IN
          IF Movable(e[2])
          THEN /\ shelf' = (shelf \ {e[2].path}) \cup {Target(e[2])}
               /\ Becomes("slot", [hand["slot"] EXCEPT !.at = "moved", !.row = e[1], !.copy = e[2],
                                                      !.rows = left])
          ELSE shelf' = shelf /\ Becomes("slot", [hand["slot"] EXCEPT !.rows = left])
     \/ hand["slot"].rows = {} /\ shelf' = shelf /\ GoesTo("slot", AfterTracks)
  /\ UNCHANGED <<Tables, merging, undone, jobsBegun>>

\* Mutant: the file stays where it was moved.
LeaveFile(copy) == shelf' = shelf

moveFileBack(copy) == shelf' = (shelf \ {Target(copy)}) \cup {copy.path}
(* The row is written whole from the copy; a merge that deleted its artist *)
(* meanwhile makes that fail.                                              *)
Organized ==
  /\ Hand("slot", {"organize", "merge"}, "moved")
  /\ LET copy == hand["slot"].copy IN
     IF KeysHold(copy)
     THEN tracks' = [tracks EXCEPT ![hand["slot"].row] = [copy EXCEPT !.path = Target(copy)]] /\ shelf' = shelf
     ELSE tracks' = tracks /\ moveFileBack(copy)
  /\ Becomes("slot", [hand["slot"] EXCEPT !.at = "track", !.row = 0, !.copy = NoTrack])
  /\ UNCHANGED <<names, discs, given, merging, undone, jobsBegun>>

StartEnrichJob ==
  /\ SlotFree
  /\ \E r \in RowIds : TrackThere(r) /\ TakesSlot([Idle EXCEPT !.kind = "enrich", !.at = "enrich", !.row = r])
  /\ UNCHANGED <<Tables, shelf, merging, undone>>

(* A job ends when its list is through or, between items, by its context.  *)
JobEnds ==
  /\ \/ Hand("slot", {"scan"}, "walk") \/ Hand("slot", {"organize"}, "artist")
     \/ Hand("slot", {"organize", "merge"}, "track") \/ hand["slot"].at = "done"
  /\ Becomes("slot", Idle)
  /\ UNCHANGED <<Tables, shelf, merging, undone, jobsBegun>>

-----------------------------------------------------------------------------
(* handleLibraryArtistMerge.  MergeArtists looks at both artists before it *)
(* begins the transaction.                                                 *)
MergeRead(m) ==
  /\ merging[m].at = "new"
  /\ \E k, r \in ArtistIds :
       /\ k # r /\ ArtistThere(k) /\ ArtistThere(r)
       /\ merging' = [merging EXCEPT ![m] = [NoMerge EXCEPT !.at = "begin", !.keep = k, !.remove = r]]
  /\ UNCHANGED <<Tables, shelf, hand, undone, jobsBegun>>

Given(k, r, f) == [x \in DOMAIN f |-> IF f[x].artist = r THEN [f[x] EXCEPT !.artist = k] ELSE f[x]]
DiscsGiven(k, r) == [d \in DiscIds |-> IF discs[d] = r THEN k ELSE discs[d]]
Cascade(r, f) == [x \in DOMAIN f |-> IF f[x].artist = r THEN NoTrack ELSE f[x]]

(* The transaction; rows given to an artist that is gone make it fail.     *)
\* Mutant: the tracks' own artist_id is forgotten, and their rows cascade.
MergeAlbumsOnly(k, r) ==
  /\ discs' = DiscsGiven(k, r)
  /\ tracks' = Cascade(r, tracks)
  /\ names' = [names EXCEPT ![r] = Unnamed]

MergeArtists(k, r) ==
  \/ /\ ArtistThere(k)
     /\ discs' = DiscsGiven(k, r)
     /\ tracks' = Given(k, r, tracks)
     /\ names' = [names EXCEPT ![r] = Unnamed]
  \/ /\ ~ArtistThere(k) /\ UNCHANGED <<discs, tracks, names>>
MergeCommit(m) ==
  /\ merging[m].at = "begin"
  /\ MergeArtists(merging[m].keep, merging[m].remove)
  /\ merging' = [merging EXCEPT ![m].at = IF ArtistThere(merging[m].keep) THEN "lookup" ELSE "refused"]
  /\ UNCHANGED <<given, shelf, hand, undone, jobsBegun>>

(* The canonical spelling, from the duplicate scan or a provider.          *)
MergeCanonical(m) ==
  /\ merging[m].at = "lookup"
  /\ LET k == merging[m].keep IN
     \E c \in Spellings \cup {Unnamed} :
       merging' = [merging EXCEPT ![m].at = "rename",
                     ![m].canonical = IF ArtistThere(k) /\ names[k] # c THEN c ELSE Unnamed]
  /\ UNCHANGED <<Tables, shelf, hand, undone, jobsBegun>>

(* A spelling another artist has breaks the unique index; it is logged.    *)
RenameArtist(m) ==
  /\ merging[m].at = "rename"
  /\ LET k == merging[m].keep  c == merging[m].canonical IN
     names' = IF c # Unnamed /\ ArtistThere(k) /\ \A a \in ArtistIds : names[a] # c
              THEN [names EXCEPT ![k] = c] ELSE names
  /\ merging' = [merging EXCEPT ![m].at = "organize"]
  /\ UNCHANGED <<discs, tracks, given, shelf, hand, undone, jobsBegun>>

(* OrganizeArtist, if the slot is free.  It reads name and tracks at once  *)
(* here; nothing else moves files while it has the slot.                   *)
MergeOrganize(m) ==
  /\ merging[m].at = "organize"
  /\ LET k == merging[m].keep IN
     \/ /\ SlotFree /\ ArtistThere(k)
        /\ TakesSlot([Idle EXCEPT !.kind = "merge", !.at = "track", !.artist = k, !.page = names,
                                !.rows = GetTracks({r \in RowIds : tracks[r].artist = k})])
     \/ UNCHANGED <<hand, jobsBegun>>
  /\ merging' = [merging EXCEPT ![m].at = "answered"]
  /\ UNCHANGED <<Tables, shelf, undone>>

LibraryNext ==
  \/ \E w \in Hands :
       \/ GetTrackByFilePath(w) \/ getOrCreateArtist(w) \/ UpsertArtist(w) \/ getOrCreateAlbum(w)
       \/ UpsertAlbum(w) \/ UpsertTrack(w)
       \/ EnrichRead(w) \/ EnrichWriteTrack(w) \/ EnrichWriteAlbum(w)
  \/ RenameDownload \/ StartScan \/ ScanPathWithProgress
  \/ StartOrganize \/ GetAlbumsByArtist \/ GetTracksByAlbum \/ RenameFor \/ Organized
  \/ StartEnrichJob \/ JobEnds
  \/ \E m \in Merges :
       MergeRead(m) \/ MergeCommit(m) \/ MergeCanonical(m) \/ RenameArtist(m) \/ MergeOrganize(m)

-----------------------------------------------------------------------------
(* Keys point at rows, and a track and its album have one artist: of the   *)
(* import, the enrichment, the organizer and the merge, who each write     *)
(* rows they read earlier, none can part them (library/sqlite/store.go).   *)
LibraryTypeOK ==
  /\ names \in [ArtistIds -> Spellings \cup {Unnamed}]
  /\ \A a, b \in ArtistIds : ArtistThere(a) /\ names[a] = names[b] => a = b
  /\ \A d \in DiscIds : DiscThere(d) => ArtistThere(discs[d])
  /\ \A r \in RowIds : TrackThere(r) => KeysHold(tracks[r]) /\ discs[tracks[r].disc] = tracks[r].artist

Moving(f) == hand["slot"].at = "moved" /\ hand["slot"].copy.path[1] = f

(* A file that has rows has one that names where the file is, but while    *)
(* the organizer moves it: when the row cannot be written, the file goes   *)
(* back (organizer.go:156).  Excepted are files whose row the enrichment   *)
(* of a download wrote back to an older path (handler_enrichment.go:431).  *)
FilesFollowed ==
  \A r \in RowIds :
    LET f == tracks[r].path[1] IN
    TrackThere(r) /\ f \notin undone /\ ~Moving(f)
      => \E q \in RowIds : TrackThere(q) /\ tracks[q].path[1] = f /\ tracks[q].path \in shelf

(* No merge, rename or stale write ever takes a track out of the library   *)
(* (library/sqlite/store.go MergeArtists: tracks cascade from both keys).  *)
TracksKept == [][\A r \in RowIds : TrackThere(r) => TrackThere(r)']_libVars
===========================================================================
