------------------------------ MODULE AlbumImport ------------------------------
(***************************************************************************)
(* The import of a downloaded album (download/handler_album_import.go).    *)
(* The folder is scanned, its files are matched with the tracks the album  *)
(* should have, and each goes through the import chain of single downloads *)
(* (rename, library) under a record made for it, which stands in the       *)
(* downloads table for as long as that takes.  The process may end between *)
(* any two steps, and a failed album may be downloaded and imported again  *)
(* under the same id.                                                      *)
(***************************************************************************)
EXTENDS Naturals, Sequences, FiniteSets, FiniteSetsExt, Functions

CONSTANTS
  AlbumFolders, \* albums: the files as they are sorted, the expected tracks
  ScanAttempts, \* scanWithRetry's maxRetries (6)
  MaxImports    \* bound: imports of the album

VARIABLES
  release,   \* the album of this behaviour, once its download ended
  albumFolder, \* its files still in the download folder
  visible,   \* the folder is there for this process (a mount may lag)
  placed,     \* library directory: target path -> file
  trackRows, \* library tracks, by target path
  albumRow,  \* the album's record: state and imported tracks
  synths,    \* numbers of the synthetic records in the downloads table
  importer,  \* the handler: where it is and what it has
  imports, interrupted, linked  \* bound; ghosts: a restart hit an import; HandleAlbum calls

albumImportVars == <<release, albumFolder, visible, placed, trackRows, albumRow, synths, importer,
                     imports, interrupted, linked>>

(* A file: what the number in front of its name is (0: none) and what is   *)
(* left of the name (extractTrackNumber, cleanTrackFilename).              *)
TargetPath(m) == <<m.num, m.title>>
Match(f, t) == [file |-> f, num |-> t.num, title |-> t.title]

(* matchFiles, a file at a time: by its number, by its position when no    *)
(* track bears that number, by its title when it has none, and otherwise   *)
(* under its own name.  A number is given to one file only.                *)
Numbered(expected, n) == {i \in DOMAIN expected : expected[i].num = n}
Untold(expected, tracked, f) ==
  {i \in DOMAIN expected :
     expected[i].num \notin tracked /\ expected[i].title # "" /\ expected[i].title = f.clean}
GivenNumber(acc, f, t, n) == [tracked |-> acc.tracked \cup {n}, out |-> Append(acc.out, Match(f.file, t))]
OwnName(f) == [num |-> f.num, title |-> f.clean]

\* The number of a file is looked up whoever has it already.
MatchFileAgain(expected, acc, f) ==
  IF Numbered(expected, f.num) # {} THEN GivenNumber(acc, f, expected[Max(Numbered(expected, f.num))], f.num)
  ELSE GivenNumber(acc, f, OwnName(f), f.num)
MatchFile(expected, acc, f) ==
  LET free == f.num \notin acc.tracked
      told == Untold(expected, acc.tracked, f) IN
  IF free /\ Numbered(expected, f.num) # {} THEN GivenNumber(acc, f, expected[Max(Numbered(expected, f.num))], f.num)
  ELSE IF free /\ f.num \in DOMAIN expected /\ expected[f.num].num > 0 THEN GivenNumber(acc, f, expected[f.num], f.num)
  ELSE IF f.num = 0 /\ told # {} THEN GivenNumber(acc, f, expected[Min(told)], expected[Min(told)].num)
  ELSE IF f.clean = "" THEN acc
  ELSE [tracked |-> acc.tracked, out |-> Append(acc.out, Match(f.file, OwnName(f)))]
Matched(files, folder, expected) ==
  LET matched[i \in 0 .. Len(files)] ==
        IF i = 0 THEN [tracked |-> {}, out |-> <<>>]
        ELSE IF files[i].file \in folder THEN MatchFile(expected, matched[i - 1], files[i])
        ELSE matched[i - 1]
  IN matched
matchFiles(files, folder, expected) == Matched(files, folder, expected)[Len(files)].out

-----------------------------------------------------------------------------
NoRelease == [files |-> <<>>, expected |-> <<>>]
FilesOf(r) == {r.files[i].file : i \in DOMAIN r.files}
Waiting == [at |-> "waiting"]
NonePlaced == << >>

\* A release is a list of files, each with a path of its own, and one of tracks.
ASSUME AlbumAssumption ==
  /\ ScanAttempts \in Nat /\ MaxImports \in Nat
  /\ \A r \in AlbumFolders :
       /\ Len(r.files) \in Nat /\ DOMAIN r.files = 1 .. Len(r.files)
       /\ Len(r.expected) \in Nat /\ DOMAIN r.expected = 1 .. Len(r.expected)
       /\ \A i \in DOMAIN r.files : r.files[i].num \in Nat
       /\ \A i, j \in DOMAIN r.files : i # j => r.files[i].file # r.files[j].file

AlbumImportInit ==
  /\ release = NoRelease /\ albumFolder = {} /\ visible = FALSE
  /\ placed = NonePlaced /\ trackRows = {} /\ synths = {}
  /\ albumRow = [state |-> "downloading", imported |-> {}]
  /\ importer = Waiting /\ imports = 0 /\ interrupted = FALSE /\ linked = 0

(* The album's download ends, the first time or after a retry; what an     *)
(* earlier import moved away is in the new folder again.                   *)
AlbumDownloaded(r) ==
  /\ albumRow.state = "downloading" /\ imports < MaxImports
  /\ imports = 0 \/ r = release
  /\ release' = r /\ albumFolder' = FilesOf(r) /\ visible' \in BOOLEAN
  /\ albumRow' = [albumRow EXCEPT !.state = "import_pending"] /\ imports' = imports + 1
  /\ UNCHANGED <<placed, trackRows, synths, importer, interrupted, linked>>

RetryAlbum ==
  /\ albumRow.state = "failed" /\ albumRow' = [albumRow EXCEPT !.state = "downloading"]
  /\ UNCHANGED <<release, albumFolder, visible, placed, trackRows, synths, importer, imports, interrupted, linked>>

ClaimAlbum ==
  /\ importer = Waiting /\ albumRow.state = "import_pending"
  /\ albumRow' = [albumRow EXCEPT !.state = "importing"]
  /\ importer' = [at |-> "scan", tries |-> 0]
  /\ UNCHANGED <<release, albumFolder, visible, placed, trackRows, synths, imports, interrupted, linked>>

FolderAppears ==
  /\ importer.at = "scan" /\ ~visible /\ visible' = TRUE
  /\ UNCHANGED <<release, albumFolder, placed, trackRows, albumRow, synths, importer, imports, interrupted, linked>>

Fails == albumRow' = [albumRow EXCEPT !.state = "failed"] /\ importer' = Waiting

(* A missing folder is waited for; an empty one fails the album.  The      *)
(* resolver may answer with the tracks the album should have, or not: the  *)
(* record has none of its own then.                                        *)
ScanFolder ==
  /\ importer.at = "scan"
  /\ IF ~visible
     THEN IF importer.tries + 1 = ScanAttempts THEN Fails
          ELSE importer' = [importer EXCEPT !.tries = @ + 1] /\ UNCHANGED albumRow
     ELSE IF albumFolder = {} THEN Fails
     ELSE \E expected \in {release.expected, <<>>} :
            /\ importer' = [at |-> "next", todo |-> matchFiles(release.files, albumFolder, expected), number |-> 1,
                            ids |-> {}, skipped |-> {}, failed |-> {}, scanned |-> albumFolder]
            /\ UNCHANGED albumRow
  /\ UNCHANGED <<release, albumFolder, visible, placed, trackRows, synths, imports, interrupted, linked>>

(* Per match: the synthetic record is inserted under the album's id and    *)
(* the match's number; one that is there already skips the file.           *)
ToNextMatch(skipped) ==
  importer' = [importer EXCEPT !.at = "next", !.todo = Tail(@), !.number = @ + 1, !.skipped = @ \cup skipped]
InsertSynth ==
  /\ importer.at = "next" /\ importer.todo # <<>>
  /\ IF importer.number \in synths
     THEN ToNextMatch({Head(importer.todo).file}) /\ UNCHANGED synths
     ELSE importer' = [importer EXCEPT !.at = "rename"] /\ synths' = synths \cup {importer.number}
  /\ UNCHANGED <<release, albumFolder, visible, placed, trackRows, albumRow, imports, interrupted, linked>>

ChainFails == importer' = [importer EXCEPT !.at = "drop", !.failed = @ \cup {Head(importer.todo).file}]
(* The renamer moves the file to the path made of number and title, over   *)
(* what is there.                                                          *)
RenameFile ==
  /\ importer.at = "rename"
  /\ LET m == Head(importer.todo) IN
     \/ /\ albumFolder' = albumFolder \ {m.file}
        /\ placed' = [p \in DOMAIN placed \cup {TargetPath(m)} |-> IF p = TargetPath(m) THEN m.file ELSE placed[p]]
        /\ importer' = [importer EXCEPT !.at = "row"]
     \/ ChainFails /\ UNCHANGED <<albumFolder, placed>>
  /\ UNCHANGED <<release, visible, trackRows, albumRow, synths, imports, interrupted, linked>>

(* The library importer takes the row of that path or makes one; what may  *)
(* fail here is the record's update, the file's stat or the insert.        *)
ImportRow ==
  /\ importer.at = "row"
  /\ LET path == TargetPath(Head(importer.todo)) IN
     \/ trackRows' = trackRows \cup {path} /\ importer' = [importer EXCEPT !.at = "drop", !.ids = @ \cup {path}]
     \/ ChainFails /\ UNCHANGED trackRows
  /\ UNCHANGED <<release, albumFolder, visible, placed, albumRow, synths, imports, interrupted, linked>>

\* The record stays.
KeepSynth ==
  /\ importer.at = "drop" /\ UNCHANGED synths
  /\ ToNextMatch({})
  /\ UNCHANGED <<release, albumFolder, visible, placed, trackRows, albumRow, imports, interrupted, linked>>
DeleteSynth ==
  /\ importer.at = "drop"
  /\ synths' = synths \ {importer.number}
  /\ ToNextMatch({})
  /\ UNCHANGED <<release, albumFolder, visible, placed, trackRows, albumRow, imports, interrupted, linked>>

(* The record gets what was imported, the album is linked to its tracked   *)
(* one, once; the caller sets it to imported, whatever was imported.       *)
FinishTracks ==
  /\ importer.at = "next" /\ importer.todo = <<>>
  /\ albumRow' = [albumRow EXCEPT !.imported = IF importer.ids = {} THEN @ ELSE importer.ids]
  /\ importer' = [importer EXCEPT !.at = "link"]
  /\ UNCHANGED <<release, albumFolder, visible, placed, trackRows, synths, imports, interrupted, linked>>

LinkAlbum ==
  /\ importer.at = "link" /\ linked' = linked + 1
  /\ importer' = [importer EXCEPT !.at = "done"]
  /\ UNCHANGED <<release, albumFolder, visible, placed, trackRows, albumRow, synths, imports, interrupted>>

SetImported ==
  /\ importer.at = "done"
  /\ albumRow' = [albumRow EXCEPT !.state = "imported"] /\ importer' = Waiting
  /\ UNCHANGED <<release, albumFolder, visible, placed, trackRows, synths, imports, interrupted, linked>>

(* The process ends and starts again: recoverOrphans fails what was being  *)
(* imported, the synthetic record among it, whose row stays.               *)
RestartImport ==
  /\ importer # Waiting
  /\ Fails /\ interrupted' = TRUE
  /\ UNCHANGED <<release, albumFolder, visible, placed, trackRows, synths, imports, linked>>

AlbumImportNext ==
  \/ \E r \in AlbumFolders : AlbumDownloaded(r)
  \/ RetryAlbum \/ ClaimAlbum \/ FolderAppears \/ ScanFolder \/ InsertSynth \/ RenameFile
  \/ ImportRow \/ DeleteSynth \/ FinishTracks \/ LinkAlbum \/ SetImported \/ RestartImport

-----------------------------------------------------------------------------
AlbumImportTypeOK ==
  /\ albumRow.state \in {"downloading", "import_pending", "importing", "failed", "imported"}
  /\ albumRow.imported \subseteq trackRows /\ Cardinality(synths) <= MaxImports

Regular(expected) == \A i \in DOMAIN expected : expected[i].num = i
Complete == importer.at \in {"link", "done"}

(* No file is named like one before it, nor exactly like an expected track *)
(* that a file before it would be given by its number or title.            *)
NamesApart(r) ==
  \A i, j \in DOMAIN r.files : i < j =>
    LET f == r.files[i]
        g == r.files[j] IN
    /\ f.num = g.num => f.clean # g.clean
    /\ g.num \in DOMAIN r.expected /\ g.clean = r.expected[g.num].title =>
         f.num # g.num /\ ~ (f.num = 0 /\ f.clean = g.clean)

(* Where the expected tracks are numbered from one on and the files' names *)
(* are apart, an import accounts for every file it scanned, several discs, *)
(* missing tracks and files without number included: it stands in the      *)
(* library directory or is still in the folder, never replaced by another  *)
(* file of the same album; what failed nowhere has its library row; and    *)
(* only a record an interrupted import left in the table makes the next    *)
(* one skip a file.                                                        *)
AlbumAccounted ==
  Complete =>
    /\ Regular(release.expected) /\ NamesApart(release) =>
         /\ importer.scanned \subseteq albumFolder \cup Range(placed)
         /\ \A f \in importer.scanned \ (importer.failed \cup albumFolder) :
              \E path \in trackRows : path \in DOMAIN placed /\ placed[path] = f
    /\ importer.ids \subseteq trackRows /\ linked <= imports
    /\ ~interrupted => synths = {} /\ importer.skipped = {}
=============================================================================
