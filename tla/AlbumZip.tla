-------------------------------- MODULE AlbumZip --------------------------------
(***************************************************************************)
(* The download of an album as a zip (api/handlers_library_download.go):   *)
(* a few requests at a time, each of which looks up what there is and then *)
(* streams the files into the response, while the library's jobs may move  *)
(* or remove them.                                                         *)
(***************************************************************************)
EXTENDS Naturals, Sequences, FiniteSets, FiniteSetsExt

CONSTANTS
  ZipRequests,         \* requests for the album
  albumZipMaxConcurrent,
  ZipItems             \* the album's tracks, then cover and playlists: file, name, kind

VARIABLES
  zipSlots,   \* tokens in the semaphore
  onDisk,     \* files that are there
  archive     \* per request: where it is and what it wrote

zipVars == <<zipSlots, onDisk, archive>>

(* A name is a sequence: a number that tells it from others goes to its    *)
(* end.                                                                    *)
ASSUME ZipAssumption ==
  /\ albumZipMaxConcurrent \in Nat \ {0}
  /\ DOMAIN ZipItems = 1 .. Len(ZipItems) /\ Len(ZipItems) \in Nat
  /\ \A i \in DOMAIN ZipItems : LET name == ZipItems[i].name IN
       /\ Len(name) \in Nat /\ name = [k \in 1 .. Len(name) |-> name[k]]

AllZipFiles == {ZipItems[i].file : i \in DOMAIN ZipItems}
\* plan: the items still to be written, which go in their order
NoArchive == [at |-> "idle", plan |-> {}, entries |-> <<>>, unread |-> {}]

ZipInit ==
  /\ zipSlots = 0 /\ onDisk = AllZipFiles
  /\ archive = [r \in ZipRequests |-> NoArchive]

FileGoes(f) ==
  /\ f \in onDisk /\ onDisk' = onDisk \ {f}
  /\ UNCHANGED <<zipSlots, archive>>

To(r, at) == archive' = [archive EXCEPT ![r].at = at]

(* acquireAlbumZip never waits: a request beyond the limit is told to come *)
(* back.                                                                   *)
acquireAlbumZip(r) ==
  /\ archive[r].at = "idle"
  /\ IF zipSlots < albumZipMaxConcurrent
     THEN zipSlots' = zipSlots + 1 /\ To(r, "resolve")
     ELSE UNCHANGED zipSlots /\ To(r, "busy")
  /\ UNCHANGED onDisk

releaseAlbumZip == zipSlots' = IF zipSlots = 0 THEN 0 ELSE zipSlots - 1
Ends(r, how) == releaseAlbumZip /\ To(r, how)

(* Every way out before the first byte: an error, nothing to serve, a HEAD.*)
AnswerWithoutZip(r) ==
  /\ archive[r].at = "resolve" /\ Ends(r, "answered")
  /\ UNCHANGED onDisk

(* What resolves is in the archive's plan: the tracks' rows, cover and     *)
(* playlists of the first track's directory.                               *)
ResolveEntries(r) ==
  /\ archive[r].at = "resolve"
  /\ LET planned == {i \in DOMAIN ZipItems : ZipItems[i].file \in onDisk} IN
     IF \E i \in planned : ZipItems[i].kind = "track"
     THEN /\ archive' = [archive EXCEPT ![r].at = "entry", ![r].plan = planned]
          /\ UNCHANGED zipSlots
     ELSE Ends(r, "answered")
  /\ UNCHANGED onDisk

dedupeZipName(name, used) ==
  IF name \notin used THEN name
  ELSE Append(name, Min({i \in 2 .. Cardinality(used) + 2 : Append(name, i) \notin used}))

NamesOf(entries) == {entries[i].name : i \in DOMAIN entries}

(* writeZipFileEntry: a file that cannot be opened takes no name.  A track *)
(* that breaks off ends the response, cover and playlists do not.          *)
ZipEntry(item, z, whole) ==
  [file |-> item.file, whole |-> whole, kind |-> item.kind,
   name |-> dedupeZipName(item.name, NamesOf(z.entries))]
WriteZipEntry(r) ==
  /\ archive[r].at = "entry" /\ archive[r].plan # {}
  /\ LET z == archive[r]
         next == Min(z.plan)
         item == ZipItems[next]
         after == [z EXCEPT !.plan = z.plan \ {next}]
         put(whole) == [after EXCEPT !.entries = Append(z.entries, ZipEntry(item, z, whole))]
         becomes(y) == archive' = [archive EXCEPT ![r] = y] IN
     IF item.file \notin onDisk
     THEN becomes([after EXCEPT !.unread = z.unread \cup {item.file}]) /\ UNCHANGED zipSlots
     ELSE \/ becomes(put(TRUE)) /\ UNCHANGED zipSlots
          \/ IF item.kind = "track"
             THEN releaseAlbumZip /\ becomes([put(FALSE) EXCEPT !.at = "broken"])
             ELSE becomes(put(FALSE)) /\ UNCHANGED zipSlots
  /\ UNCHANGED onDisk

CloseZip(r) ==
  /\ archive[r].at = "entry" /\ archive[r].plan = {}
  /\ Ends(r, "closed") \/ Ends(r, "broken")
  /\ UNCHANGED onDisk

ZipNext ==
  \/ \E f \in AllZipFiles : FileGoes(f)
  \/ \E r \in ZipRequests :
       \/ acquireAlbumZip(r) \/ AnswerWithoutZip(r) \/ ResolveEntries(r)
       \/ WriteZipEntry(r) \/ CloseZip(r)

-----------------------------------------------------------------------------
ZipTypeOK ==
  /\ zipSlots \in 0 .. albumZipMaxConcurrent /\ onDisk \subseteq AllZipFiles
  /\ \A r \in ZipRequests : archive[r].at \in {"idle", "busy", "resolve", "entry", "answered",
                                               "broken", "closed"}

(* A slot is held by a request under way and by nothing else; and a zip    *)
(* that was finished has every file that is still there, under a name of   *)
(* its own, and no track but whole.                                        *)
ArchiveWhole ==
  /\ zipSlots = Cardinality({r \in ZipRequests : archive[r].at \in {"resolve", "entry"}})
  /\ \A r \in ZipRequests : LET z == archive[r] IN z.at = "closed" =>
       /\ Cardinality(NamesOf(z.entries)) = Len(z.entries)
       /\ onDisk \subseteq {z.entries[i].file : i \in DOMAIN z.entries} /\ z.unread \cap onDisk = {}
       /\ \A i \in DOMAIN z.entries : z.entries[i].whole \/ z.entries[i].kind # "track"
=============================================================================
