------------------------------- MODULE Enrichment -------------------------------
(***************************************************************************)
(* Metadata enrichment of one artist's albums                              *)
(* (download/handler_enrichment.go): the bulk job's workers and the import *)
(* chain fill what is missing in a track's and its album's row from the    *)
(* providers, one after the other in the configured order, and fetch cover *)
(* and artist image.                                                       *)
(***************************************************************************)
EXTENDS Naturals, Sequences, FiniteSets, SequencesExt, TLC

CONSTANTS
  AlbumTracks,    \* album -> the sequence of its tracks
  EnrichProviders,\* how many metadata providers, numbered in the configured order
  BulkWorkers,    \* the job's workers
  TrackFields, AlbumFields,  \* what providers fill; album titles and thumbs are among AlbumFields
  MaxEnrichJobs, MaxEnrichImports \* bounds: runs of the job, imports of the chain

VARIABLES
  trackRow, albumFields,     \* the library's rows: per field who filled it, 0: nobody
  covers,      \* albums with a cover file
  artistThumb, imageTried,   \* the artist's image; imageAttempted within its time
  coolingDown, \* providers in the shared cooldown
  groups,      \* the running job's albums nobody has taken yet
  enricher,    \* per worker, and the chain: where it is and its copies of the rows
  enrichRuns, imageRuns, \* bound; ghost: image searches since imageAttempted was cleared
  limited, pestered,     \* ghosts: who was told to wait by whom; one was asked all the same
  mixed        \* ghost: albums the job and the chain had copies of at once

enrichmentVars == <<trackRow, albumFields, covers, artistThumb, imageTried, coolingDown, groups,
                    enricher, enrichRuns, imageRuns, limited, pestered, mixed>>

Chain == 0
Enrichers == BulkWorkers \cup {Chain}
ProvidersInOrder == 1 .. EnrichProviders
Free == [at |-> "free"]
AlbumsHeard == DOMAIN AlbumTracks
TracksHeard == UNION {ToSet(AlbumTracks[a]) : a \in AlbumsHeard}

\* A track's row names one album.
ASSUME EnrichmentAssumption ==
  /\ IsFiniteSet(AlbumsHeard) /\ \A a \in AlbumsHeard : AlbumTracks[a] \in Seq(TracksHeard)
  /\ \A a, b \in AlbumsHeard : a # b => ToSet(AlbumTracks[a]) \cap ToSet(AlbumTracks[b]) = {}
  /\ EnrichProviders \in Nat /\ Chain \notin BulkWorkers /\ {"title", "thumb"} \subseteq AlbumFields

AlbumHolding(t) == CHOOSE a \in AlbumsHeard : t \in ToSet(AlbumTracks[a])

(* groupTracksByAlbum: an album's tracks are one worker's.                 *)
groupTracksByAlbum == SetToSeq({AlbumTracks[a] : a \in AlbumsHeard})
EnrichmentInit ==
  /\ trackRow = [t \in TracksHeard |-> [f \in TrackFields |-> 0]]
  /\ albumFields = [a \in AlbumsHeard |-> [f \in AlbumFields |-> 0]]
  /\ covers = {} /\ artistThumb = FALSE /\ imageTried = FALSE /\ coolingDown = {}
  /\ groups = <<>> /\ enricher = [w \in Enrichers |-> Free] /\ enrichRuns = [jobs |-> 0, imports |-> 0]
  /\ imageRuns = 0 /\ limited = {} /\ pestered = FALSE /\ mixed = {}

GoesOn(w, at) == enricher' = [enricher EXCEPT ![w].at = at]
TurnsTo(w, at, prov) == enricher' = [enricher EXCEPT ![w].at = at, ![w].prov = prov]
Rows == <<trackRow, albumFields>>
ImageGate == <<imageTried, imageRuns>>
Asked == <<coolingDown, limited, pestered>>
EnrichJob == <<groups, enrichRuns>>

-----------------------------------------------------------------------------
(* The job: one at a time; it clears the image attempts, never the cooldown.*)
EnrichAll ==
  /\ groups = <<>> /\ \A w \in BulkWorkers : enricher[w] = Free
  /\ enrichRuns.jobs < MaxEnrichJobs /\ enrichRuns' = [enrichRuns EXCEPT !.jobs = @ + 1]
  /\ groups' = groupTracksByAlbum
  /\ imageTried' = FALSE /\ imageRuns' = 0
  /\ UNCHANGED <<Rows, covers, artistThumb, enricher, Asked, mixed>>

\* The slots of the job's semaphore are all alike: the first free one is taken.
TakeGroup(w) ==
  /\ enricher[w] = Free /\ \A v \in BulkWorkers : v < w => enricher[v] # Free
  /\ groups # <<>>
  /\ enricher' = [enricher EXCEPT ![w] = [at |-> "next", todo |-> Head(groups), late |-> FALSE]]
  /\ groups' = Tail(groups)
  /\ UNCHANGED <<Rows, covers, artistThumb, ImageGate, Asked, enrichRuns, mixed>>

GroupDone(w) ==
  /\ w # Chain /\ enricher[w].at = "next" /\ enricher[w].todo = <<>>
  /\ enricher' = [enricher EXCEPT ![w] = Free]
  /\ UNCHANGED <<Rows, covers, artistThumb, ImageGate, Asked, EnrichJob, mixed>>

(* The import chain reaches a track that is in the library.                *)
HandleImport(t) ==
  /\ enricher[Chain] = Free /\ enrichRuns.imports < MaxEnrichImports
  /\ enrichRuns' = [enrichRuns EXCEPT !.imports = @ + 1]
  /\ enricher' = [enricher EXCEPT ![Chain] = [at |-> "next", todo |-> <<t>>, late |-> FALSE]]
  /\ UNCHANGED <<Rows, covers, artistThumb, ImageGate, Asked, groups, mixed>>

TrackDone(w) ==
  IF w = Chain THEN enricher' = [enricher EXCEPT ![w] = Free]
  ELSE enricher' = [enricher EXCEPT ![w] =
                      [at |-> "next", todo |-> Tail(@.todo), late |-> FALSE]]

Filled(fields) == \A f \in DOMAIN fields : fields[f] # 0
NothingMissing(t, a, album) ==
  Filled(t) /\ Filled([f \in DOMAIN a \ {"thumb"} |-> a[f]]) /\ album \in covers

Holding(w) == IF enricher[w] = Free \/ enricher[w].at = "next" THEN {} ELSE {enricher[w].album}
Others(w) == IF w = Chain THEN BulkWorkers ELSE {Chain}
MarkAttempt == imageTried' = TRUE /\ imageRuns' = imageRuns + 1

(* The rows are read; the job leaves a complete track alone, but for the   *)
(* artist's image, which is searched for once in its time.  A row that     *)
(* cannot be read ends the track.                                          *)
ReadForEnrich(w) ==
  /\ enricher[w].at = "next" /\ enricher[w].todo # <<>>
  /\ LET t == Head(enricher[w].todo)
         a == AlbumHolding(t)
         CopyFor(at) ==
           enricher' = [enricher EXCEPT ![w] =
             [at |-> at, todo |-> @.todo, late |-> @.late, track |-> t, album |-> a,
              trackCopy |-> trackRow[t], albumCopy |-> albumFields[a], trackMod |-> FALSE, albumMod |-> FALSE,
              prov |-> 1, asked |-> FALSE, skipImage |-> w # Chain /\ imageTried, only |-> at = "image"]]
         whole == w # Chain /\ NothingMissing(trackRow[t], albumFields[a], a) IN
     \/ TrackDone(w) /\ UNCHANGED <<ImageGate, mixed>>
     \/ /\ IF ~whole THEN CopyFor("provider") /\ UNCHANGED ImageGate
           ELSE IF artistThumb \/ imageTried THEN TrackDone(w) /\ UNCHANGED ImageGate
           ELSE CopyFor("image") /\ MarkAttempt
        /\ mixed' = IF \E o \in Others(w) : a \in Holding(o) THEN mixed \cup {a} ELSE mixed
  /\ UNCHANGED <<Rows, covers, artistThumb, Asked, EnrichJob>>

(* The deadline of one track's provider pass, in the job only.             *)
DeadlinePasses(w) ==
  /\ w # Chain /\ enricher[w].at \in {"provider", "title", "cover", "meta", "image"}
  /\ ~enricher[w].late /\ enricher' = [enricher EXCEPT ![w].late = TRUE]
  /\ UNCHANGED <<Rows, covers, artistThumb, ImageGate, Asked, EnrichJob, mixed>>

(* The next provider, unless the time is over, nothing is missing any more *)
(* or none is left.  After the pass: the image, unless the pass ran out of *)
(* time, somebody tried lately or tries now.                               *)
markImageAttemptDue(w, timedOut) ==
  IF ~timedOut /\ ~enricher[w].skipImage /\ ~imageTried
  THEN MarkAttempt /\ TurnsTo(w, "image", 1)
  ELSE UNCHANGED ImageGate /\ GoesOn(w, "thumb")

ProviderTurn(w) ==
  /\ enricher[w].at = "provider"
  /\ LET e == enricher[w]  p == e.prov IN
     IF p > EnrichProviders \/ e.late
        \/ (w # Chain /\ e.asked /\ NothingMissing(e.trackCopy, e.albumCopy, e.album))
     THEN markImageAttemptDue(w, e.late)
     ELSE /\ UNCHANGED ImageGate
          /\ IF w # Chain /\ p \in coolingDown THEN enricher' = [enricher EXCEPT ![w].prov = p + 1, ![w].asked = FALSE]
             ELSE GoesOn(w, "title")
  /\ UNCHANGED <<Rows, covers, artistThumb, Asked, EnrichJob, mixed>>

(* A provider is asked.  The job, and only the job, notes that it wants to *)
(* be left alone; a question on an expired context is not answered.        *)
AskProvider(w, p, answer) ==
  /\ answer = "none" \/ ~enricher[w].late
  /\ pestered' = (pestered \/ <<w, p>> \in limited)
  /\ IF answer = "limited" /\ w # Chain
     THEN coolingDown' = coolingDown \cup {p} /\ limited' = limited \cup {<<w, p>>}
     ELSE UNCHANGED <<coolingDown, limited>>
Backs(w, answer) == answer = "limited" /\ w # Chain
ProviderDone(w) ==
  enricher' = [enricher EXCEPT ![w].at = "provider", ![w].prov = @ + 1, ![w].asked = TRUE]

(* enrichFromProvider: the album's title where it has none, then the cover *)
(* where there is none, then the track.  A question without result is put  *)
(* again with the primary artist's name, or the release's id, like it.     *)
AskTitle(w) ==
  /\ enricher[w].at = "title"
  /\ IF enricher[w].albumCopy.title # 0 THEN GoesOn(w, "cover") /\ UNCHANGED Asked
     ELSE \E answer \in {"found", "none", "limited"} :
            /\ AskProvider(w, enricher[w].prov, answer)
            /\ IF answer = "found"
               THEN enricher' = [enricher EXCEPT ![w].at = "cover", ![w].albumMod = TRUE,
                                                  ![w].albumCopy.title = enricher[w].prov]
               ELSE ProviderDone(w)
  /\ UNCHANGED <<Rows, covers, artistThumb, ImageGate, EnrichJob, mixed>>

AskCover(w) ==
  /\ enricher[w].at = "cover"
  /\ IF enricher[w].album \in covers THEN GoesOn(w, "meta") /\ UNCHANGED <<Asked, covers>>
     ELSE \E answer \in {"found", "none", "limited"} :
            /\ AskProvider(w, enricher[w].prov, answer)
            /\ covers' = IF answer = "found" THEN covers \cup {enricher[w].album} ELSE covers
            /\ IF Backs(w, answer) THEN ProviderDone(w) ELSE GoesOn(w, "meta")
  /\ UNCHANGED <<Rows, artistThumb, ImageGate, EnrichJob, mixed>>

FillIn(fields, which, p) == [f \in DOMAIN fields |-> IF f \in which /\ fields[f] = 0 THEN p ELSE fields[f]]
EnrichTrack(w) ==
  /\ enricher[w].at = "meta"
  /\ LET e == enricher[w] IN
     \/ \E answer \in {"none", "limited"} : AskProvider(w, e.prov, answer) /\ ProviderDone(w)
     \/ \E tf \in SUBSET TrackFields, af \in SUBSET (AlbumFields \ {"title", "thumb"}) :
          LET t == FillIn(e.trackCopy, tf, e.prov)  a == FillIn(e.albumCopy, af, e.prov) IN
          /\ AskProvider(w, e.prov, "found")
          /\ enricher' = [enricher EXCEPT ![w].at = "provider", ![w].prov = @ + 1, ![w].asked = TRUE,
                            ![w].trackCopy = t, ![w].albumCopy = a,
                            ![w].trackMod = @ \/ t # e.trackCopy, ![w].albumMod = @ \/ a # e.albumCopy]
  /\ UNCHANGED <<Rows, covers, artistThumb, ImageGate, EnrichJob, mixed>>

-----------------------------------------------------------------------------
ImageOver(w) == IF enricher[w].only THEN TrackDone(w) ELSE GoesOn(w, "thumb")
(* Every discovery provider under the artist's name, then under the        *)
(* primary one's; the cooldown is looked at before each question.          *)
enrichArtistImage(w) ==
  /\ enricher[w].at = "image"
  /\ LET n == enricher[w].prov
         p == ((n - 1) % EnrichProviders) + 1
         on == TurnsTo(w, "image", n + 1) IN
     IF n > 2 * EnrichProviders THEN ImageOver(w) /\ UNCHANGED <<artistThumb, Asked>>
     ELSE IF w # Chain /\ p \in coolingDown THEN on /\ UNCHANGED <<artistThumb, Asked>>
     ELSE \E answer \in {"found", "none", "limited"} :
            /\ AskProvider(w, p, answer)
            /\ IF answer = "found" THEN artistThumb' = TRUE /\ ImageOver(w)
               ELSE UNCHANGED artistThumb /\ IF artistThumb THEN ImageOver(w) ELSE on
  /\ UNCHANGED <<Rows, covers, ImageGate, EnrichJob, mixed>>

SyncThumb(w) ==
  /\ enricher[w].at = "thumb"
  /\ LET e == enricher[w] IN
     IF e.albumCopy.thumb = 0 /\ e.album \in covers
     THEN enricher' = [enricher EXCEPT ![w].at = "track", ![w].albumMod = TRUE, ![w].albumCopy.thumb = 1]
     ELSE GoesOn(w, "track")
  /\ UNCHANGED <<Rows, covers, artistThumb, ImageGate, Asked, EnrichJob, mixed>>

(* The rows are written whole, each if it was changed, and failures are    *)
(* passed over.                                                            *)
WriteTrackRow(w) ==
  /\ enricher[w].at = "track" /\ GoesOn(w, "album")
  /\ \/ enricher[w].trackMod /\ trackRow' = [trackRow EXCEPT ![enricher[w].track] = enricher[w].trackCopy]
     \/ UNCHANGED trackRow
  /\ UNCHANGED <<albumFields, covers, artistThumb, ImageGate, Asked, EnrichJob, mixed>>

WriteAlbumRow(w) ==
  /\ enricher[w].at = "album" /\ TrackDone(w)
  /\ \/ enricher[w].albumMod /\ albumFields' = [albumFields EXCEPT ![enricher[w].album] = enricher[w].albumCopy]
     \/ UNCHANGED albumFields
  /\ UNCHANGED <<trackRow, covers, artistThumb, ImageGate, Asked, EnrichJob, mixed>>

-----------------------------------------------------------------------------
CoolsOff(p) ==
  /\ p \in coolingDown /\ coolingDown' = coolingDown \ {p}
  /\ limited' = {l \in limited : l[2] # p}
  /\ UNCHANGED <<Rows, covers, artistThumb, ImageGate, pestered, EnrichJob, enricher, mixed>>

ImageTimeOver ==
  /\ imageTried /\ imageTried' = FALSE /\ imageRuns' = 0
  /\ UNCHANGED <<Rows, covers, artistThumb, Asked, EnrichJob, enricher, mixed>>

Enriches(w) ==
  \/ ReadForEnrich(w) \/ ProviderTurn(w) \/ AskTitle(w) \/ AskCover(w) \/ EnrichTrack(w)
  \/ enrichArtistImage(w) \/ SyncThumb(w) \/ WriteTrackRow(w) \/ WriteAlbumRow(w)
EnrichmentNext ==
  \/ EnrichAll \/ \E w \in BulkWorkers : TakeGroup(w) \/ GroupDone(w) \/ DeadlinePasses(w)
  \/ \E t \in TracksHeard : HandleImport(t)
  \/ \E w \in Enrichers : Enriches(w)
  \/ \E p \in ProvidersInOrder : CoolsOff(p)
  \/ ImageTimeOver

-----------------------------------------------------------------------------
EnrichmentTypeOK ==
  /\ coolingDown \subseteq ProvidersInOrder /\ covers \subseteq AlbumsHeard
  /\ \A t \in TracksHeard : \A f \in TrackFields : trackRow[t][f] \in 0 .. EnrichProviders
  /\ \A w \in BulkWorkers : enricher[w] # Free => \E a \in AlbumsHeard : Len(enricher[w].todo) <= Len(AlbumTracks[a])

(* Job and chain together search for one artist's image once in its time,  *)
(* and a worker the provider told to wait does not ask it again before its *)
(* time is over, whatever it asks for.                                     *)
EnrichmentSpares == imageRuns <= 1 /\ ~pestered

(* What one of the job's workers filled in, no other takes away again: the *)
(* rows are written whole, but an album is in one worker's hands.  Only a  *)
(* chain that had the album at the same time may undo it.                  *)
FieldsKept ==
  [][\A a \in AlbumsHeard : a \notin mixed' =>
       /\ \A f \in AlbumFields : albumFields[a][f] \in {0, albumFields'[a][f]}
       /\ \A i \in DOMAIN AlbumTracks[a] : \A f \in TrackFields :
            trackRow[AlbumTracks[a][i]][f] \in {0, trackRow'[AlbumTracks[a][i]][f]}]_enrichmentVars
=============================================================================
