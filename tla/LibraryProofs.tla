---------------------------- MODULE LibraryProofs ----------------------------
(***************************************************************************)
(* Proofs about the library: no merge, rename, import or stale write takes *)
(* a track out of it, parts a track from its album's artist or loses the   *)
(* way to a file, for any number of artists, albums, tracks, merges and    *)
(* jobs; and about enrichment: what one worker filled in no other one      *)
(* takes back.                                                             *)
(***************************************************************************)
EXTENDS MCProviders, FiniteSetTheorems, SequenceTheorems, WellFoundedInduction, TLAPS

-----------------------------------------------------------------------------
(* What the tables and the hands hold *)

Files == {"none", "e", "f", "g"}
Folders == Spellings \cup {Unnamed, "inbox"}
Paths == Files \X Folders
Names == Spellings \cup {Unnamed}
LibraryRow == [disc : DiscIds \cup {NoDisc}, artist : ArtistIds \cup {0}, path : Paths]
HandKinds == {"off", "import", "scan", "organize", "merge", "enrich"}
ImportSteps == {"look", "artist", "newArtist", "disc", "newDisc", "row"}
HandSteps == ImportSteps \cup {"off", "walk", "failed", "enrich", "providers", "album", "done", "track", "moved"}
HandState ==
  [kind : HandKinds, at : HandSteps, path : Paths, says : Names, artist : ArtistIds \cup {0},
   disc : DiscIds \cup {NoDisc}, row : RowIds \cup {0}, copy : LibraryRow, page : [ArtistIds -> Names],
   seen : SUBSET (ArtistIds \cup Paths), albums : SUBSET DiscIds, rows : SUBSET (RowIds \X LibraryRow)]
MergeState ==
  [at : {"new", "begin", "lookup", "refused", "rename", "organize", "answered"},
   keep : ArtistIds \cup {0}, remove : ArtistIds \cup {0}, canonical : Names]

TablesTyped ==
  /\ names \in [ArtistIds -> Names] /\ discs \in [DiscIds -> ArtistIds \cup {0}]
  /\ tracks \in [RowIds -> LibraryRow]
  /\ given \in [artist : Nat, disc : Nat, row : Nat]
  /\ shelf \subseteq Paths

HandsTyped ==
  /\ hand \in [Hands -> HandState]
  /\ hand["chain"].kind \in {"off", "import"} /\ hand["chain"].at # "moved" /\ hand["chain"].rows = {}
  /\ hand["slot"].kind # "import"
  /\ hand["slot"].kind \in {"organize", "merge"} /\ hand["slot"].at \in {"album", "track", "moved"}
       => hand["slot"].artist \in ArtistIds
  /\ hand["slot"].at = "moved" => hand["slot"].kind \in {"organize", "merge"}

LibTyped == TablesTyped /\ HandsTyped /\ merging \in [Merges -> MergeState]

\* Keys are given once.
KeysOnce ==
  /\ \A a \in ArtistIds : a > given.artist => names[a] = Unnamed
  /\ \A d \in DiscIds : d > given.disc => discs[d] = 0
  /\ \A r \in RowIds : r > given.row => tracks[r] = NoTrack

\* An album somebody read for its artist is his as long as he is there.
Fits(d, a) == a <= given.artist /\ (ArtistThere(a) => d \in DiscIds /\ discs[d] = a)

HandFits(h) ==
  /\ h.at \in {"disc", "newDisc", "row"} => h.artist <= given.artist
  /\ h.at = "row" => Fits(h.disc, h.artist)
  /\ h.at = "newArtist" => h.says # Unnamed
  /\ Fits(h.copy.disc, h.copy.artist)
  /\ \A e \in h.rows : Fits(e[2].disc, e[2].artist)

MergeFits(g) == g.at = "begin" => g.remove \notin {0, g.keep}

KeysInv ==
  /\ LibraryTypeOK /\ KeysOnce
  /\ \A w \in Hands : HandFits(hand[w])
  /\ \A m \in Merges : MergeFits(merging[m])

-----------------------------------------------------------------------------
(* Where the files are *)

FollowedBy(q, f) == TrackThere(q) /\ tracks[q].path[1] = f /\ tracks[q].path \in shelf
FileOk(f) == f \in undone \/ Moving(f) \/ \E q \in RowIds : FollowedBy(q, f)

\* A row an organizer read still names the path it read, or is excepted.
SameFile(r, c) == r \in RowIds /\ TrackThere(r) /\ tracks[r].path[1] = c.path[1]
Entry(r, c) == SameFile(r, c) /\ (tracks[r].path = c.path \/ c.path[1] \in undone)

HandFiles(h) ==
  /\ h.kind \in {"scan", "import"} /\ h.at \in ImportSteps => h.path \in shelf \/ FileOk(h.path[1])
  /\ h.at = "providers" => SameFile(h.row, h.copy)
  /\ \A e \in h.rows : Entry(e[1], e[2])
  /\ \A e, g \in h.rows : e[1] = g[1] => e = g
  /\ h.at = "moved" => Entry(h.row, h.copy) /\ \A e \in h.rows : e[1] # h.row

FilesInv ==
  /\ \A r \in RowIds : TrackThere(r) => FileOk(tracks[r].path[1])
  /\ \A w \in Hands : HandFiles(hand[w])
  /\ hand["slot"].at = "moved" => Target(hand["slot"].copy) \in shelf

LibInv == LibTyped /\ KeysInv /\ FilesInv
-----------------------------------------------------------------------------
(* The operators *)

Smaller == {p \in Nat \X Nat : p[1] < p[2]}

LEMMA SmallerWellFounded == IsWellFoundedOn(Smaller, Nat)
  BY NatLessThanWellFounded DEF OpToRel, Smaller

LEMMA LowestIn ==
  ASSUME NEW S, S \subseteq Nat, S # {}
  PROVE  Lowest(S) \in S
<1>1. PICK x \in S : \A y \in S : ~(<<y, x>> \in Smaller)
  BY SmallerWellFounded, WFMin
<1>2. ASSUME NEW y \in S PROVE x <= y
  <2>1. x \in Nat /\ y \in Nat /\ <<y, x>> \in Nat \X Nat
    OBVIOUS
  <2>2. <<y, x>> \notin Smaller
    BY <1>1
  <2>3. ~(<<y, x>>[1] < <<y, x>>[2])
    BY <2>1, <2>2 DEF Smaller
  <2> QED
    BY <2>1, <2>3
<1> QED
  BY <1>2 DEF Lowest

LEMMA IdsTyped ==
  /\ ArtistIds \subseteq Nat \ {0} /\ DiscIds \subseteq Nat \ {0} /\ RowIds \subseteq Nat \ {0}
  /\ \A Ids \in {ArtistIds, DiscIds, RowIds} : 1 \in Ids /\ 2 \in Ids
  /\ "A" \in Spellings /\ "a" \in Spellings
  BY LibraryAssumption

LEMMA ValuesTyped ==
  /\ NoTrack \in LibraryRow /\ Idle \in HandState /\ NoMerge \in MergeState
  /\ Idle.kind = "off" /\ Idle.at = "off" /\ Idle.rows = {} /\ Idle.copy = NoTrack
  /\ NoTrack.artist = 0 /\ NoTrack.disc = 0
<1>1. NoTrack \in LibraryRow /\ NoTrack.artist = 0 /\ NoTrack.disc = 0 /\ NoTrack.path \in Paths
  BY DEF NoTrack, LibraryRow, Paths, Files, Folders, Unnamed, NoDisc
<1>2. Idle \in HandState
  BY <1>1 DEF Idle, HandState, HandKinds, HandSteps, ImportSteps, Names, NoDisc
<1>3. NoMerge \in MergeState
  BY DEF NoMerge, MergeState, Names
<1> QED
  BY <1>1, <1>2, <1>3 DEF Idle

\* A row whose artist is there is no gap in the table.
LEMMA RowsThere ==
  ASSUME NEW t, KeysHold(t)
  PROVE  t # NoTrack
  BY ValuesTyped DEF KeysHold, ArtistThere

LEMMA LibTypedInit == LibraryInit => LibTyped
<1> SUFFICES ASSUME LibraryInit PROVE LibTyped
  OBVIOUS
<1>1. names \in [ArtistIds -> Names]
  BY IdsTyped DEF LibraryInit, FirstArtists, Names
<1>2. discs \in [DiscIds -> ArtistIds \cup {0}]
  BY IdsTyped DEF LibraryInit
<1>3. /\ [disc |-> 1, artist |-> 1, path |-> <<"e", "A">>] \in LibraryRow
      /\ [disc |-> 2, artist |-> 2, path |-> <<"f", "a">>] \in LibraryRow
      /\ {<<"e", "A">>, <<"f", "a">>, <<"e", "inbox">>} \subseteq Paths
  BY IdsTyped DEF LibraryRow, Paths, Files, Folders
<1>4. tracks \in [RowIds -> LibraryRow]
  BY <1>3, ValuesTyped DEF LibraryInit
<1>5. given \in [artist : Nat, disc : Nat, row : Nat] /\ shelf \subseteq Paths
  BY <1>3 DEF LibraryInit
<1>6. hand = [w \in Hands |-> Idle] /\ merging \in [Merges -> MergeState]
  BY ValuesTyped DEF LibraryInit
<1>7. HandsTyped
  BY <1>6, ValuesTyped DEF HandsTyped, Hands
<1> QED
  BY <1>1, <1>2, <1>4, <1>5, <1>6, <1>7 DEF LibTyped, TablesTyped

-----------------------------------------------------------------------------
(* What a step that leaves the tables alone has to keep *)

KindFits(w, h) ==
  IF w = "chain" THEN h.kind \in {"off", "import"} /\ h.at # "moved" /\ h.rows = {}
  ELSE /\ h.kind # "import"
       /\ h.kind \in {"organize", "merge"} /\ h.at \in {"album", "track", "moved"} => h.artist \in ArtistIds
       /\ h.at = "moved" => h.kind \in {"organize", "merge"}

LEMMA HandGoes ==
  ASSUME HandsTyped, NEW w \in Hands, NEW h \in HandState, KindFits(w, h), Becomes(w, h)
  PROVE  HandsTyped'
<1>1. hand' \in [Hands -> HandState]
  BY DEF Becomes, HandsTyped
<1>2. hand'[w] = h /\ \A v \in Hands : v # w => hand'[v] = hand[v]
  BY DEF Becomes, HandsTyped
<1>3. "chain" \in Hands /\ "slot" \in Hands /\ (w = "chain" \/ w = "slot")
  BY DEF Hands
<1> QED
  BY <1>1, <1>2, <1>3 DEF HandsTyped, KindFits

LEMMA QuietKeeps ==
  ASSUME LibInv, NEW w \in Hands, NEW h \in HandState, Becomes(w, h), KindFits(w, h),
         hand[w].at # "moved", h.at # "moved", HandFits(h), HandFiles(h),
         UNCHANGED <<Tables, shelf, undone>>,
         merging' \in [Merges -> MergeState],
         \A m \in Merges : merging'[m].at = "begin" => merging[m] = merging'[m]
  PROVE  LibInv'
<1>1. UNCHANGED <<names, discs, tracks, given, shelf, undone>>
  BY DEF Tables
<1>2. hand' \in [Hands -> HandState] /\ hand'[w] = h /\ \A v \in Hands : v # w => hand'[v] = hand[v]
  BY DEF Becomes, LibInv, LibTyped, HandsTyped
<1>3. LibTyped'
  BY <1>1, HandGoes DEF LibInv, LibTyped, TablesTyped
<1>4. \A v \in Hands : HandFits(hand'[v])
  BY <1>2 DEF LibInv, KeysInv
<1>5. KeysInv'
  <2>1. \A g : HandFits(g)' <=> HandFits(g)
    BY <1>1 DEF HandFits, Fits, ArtistThere
  <2>2. (LibraryTypeOK /\ KeysOnce)'
    BY <1>1 DEF LibInv, KeysInv, LibraryTypeOK, KeysOnce, ArtistThere, DiscThere, TrackThere, KeysHold
  <2>3. \A m \in Merges : MergeFits(merging'[m])
    BY DEF LibInv, KeysInv, MergeFits
  <2> QED
    BY <1>4, <2>1, <2>2, <2>3 DEF KeysInv
<1>6. \/ hand'["slot"].at # "moved" /\ hand["slot"].at # "moved"
      \/ hand'["slot"] = hand["slot"]
  BY <1>2 DEF Hands
<1>7. \A f : FileOk(f)' <=> FileOk(f)
  BY <1>1, <1>6 DEF FileOk, Moving, FollowedBy, TrackThere
<1>8. \A g : HandFiles(g)' <=> HandFiles(g)
  <2>1. \A r, c : Entry(r, c)' = Entry(r, c) /\ SameFile(r, c)' = SameFile(r, c)
    BY <1>1 DEF Entry, SameFile, TrackThere
  <2> QED
    BY <1>1, <1>7, <2>1 DEF HandFiles
<1>9. \A v \in Hands : HandFiles(hand'[v])
  BY <1>2 DEF LibInv, FilesInv
<1>10. (hand["slot"].at = "moved" => Target(hand["slot"].copy) \in shelf)'
  <2>1. CASE hand'["slot"].at # "moved"
    BY <2>1
  <2>2. CASE hand'["slot"] = hand["slot"]
    <3>1. Target(hand["slot"].copy)' = Target(hand["slot"].copy)
      BY <2>2 DEF Target
    <3> QED
      BY <1>1, <2>2, <3>1 DEF LibInv, FilesInv
  <2> QED
    BY <1>6, <2>1, <2>2
<1>11. FilesInv'
  <2>1. \A r \in RowIds : TrackThere(r)' => FileOk(tracks'[r].path[1])
    BY <1>1 DEF LibInv, FilesInv, TrackThere
  <2> HIDE DEF FilesInv
  <2> QED
    BY <1>1, <1>7, <1>8, <1>9, <1>10, <2>1 DEF FilesInv
<1> QED
  BY <1>3, <1>5, <1>11 DEF LibInv

LEMMA NothingFits ==
  ASSUME LibTyped
  PROVE  Fits(NoTrack.disc, NoTrack.artist)
  BY ValuesTyped DEF LibTyped, TablesTyped, Fits, ArtistThere

\* Who imports goes on, or leaves.
LEMMA ImportGoes ==
  ASSUME LibInv, NEW w \in Hands, hand[w].kind \in {"scan", "import"}, hand[w].at \in ImportSteps,
         NEW h \in HandState, h.kind = hand[w].kind, h.rows = hand[w].rows,
         h.path = hand[w].path \/ h.at \notin ImportSteps, h.copy = hand[w].copy \/ h.copy = NoTrack,
         h.at \notin {"providers", "track", "moved"},
         h.at \in {"disc", "newDisc", "row"} => h.artist <= given.artist,
         h.at = "row" => Fits(h.disc, h.artist),
         h.at = "newArtist" => h.says # Unnamed
  PROVE  KindFits(w, h) /\ HandFits(h) /\ HandFiles(h)
<1>1. HandFits(hand[w]) /\ HandFiles(hand[w])
  BY DEF LibInv, KeysInv, FilesInv
<1>2. KindFits(w, h)
  BY DEF KindFits, LibInv, LibTyped, HandsTyped, Hands
<1>3. HandFits(h)
  BY <1>1, NothingFits DEF HandFits, LibInv
<1>4. HandFiles(h)
  BY <1>1 DEF HandFiles
<1> QED
  BY <1>2, <1>3, <1>4

LEMMA OnOneHand ==
  ASSUME LibInv, NEW w \in Hands
  PROVE  hand[w] \in HandState /\ HandFits(hand[w]) /\ HandFiles(hand[w])
  BY DEF LibInv, LibTyped, HandsTyped, KeysInv, FilesInv

LEMMA NewAt ==
  ASSUME NEW h \in HandState, NEW at \in HandSteps
  PROVE  [h EXCEPT !.at = at] \in HandState
  BY DEF HandState

LEMMA QuietHand ==
  ASSUME LibInv, NEW w \in Hands, UNCHANGED <<Tables, shelf, merging, undone>>, hand[w].at # "moved",
         NEW h \in HandState, Becomes(w, h), KindFits(w, h), HandFits(h), HandFiles(h), h.at # "moved"
  PROVE  LibInv'
  BY QuietKeeps DEF LibInv, LibTyped

\* Importing: what w reads takes it to h, nothing else happens.
LEMMA ImportReads ==
  ASSUME LibInv, NEW w \in Hands, hand[w].kind \in {"scan", "import"}, hand[w].at \in ImportSteps,
         UNCHANGED <<Tables, shelf, merging, undone>>, NEW h \in HandState, Becomes(w, h),
         h.kind = hand[w].kind, h.rows = hand[w].rows,
         h.path = hand[w].path \/ h.at \notin ImportSteps, h.copy = hand[w].copy \/ h.copy = NoTrack,
         h.at \notin {"providers", "track", "moved"},
         h.at \in {"disc", "newDisc", "row"} => h.artist <= given.artist,
         h.at = "row" => Fits(h.disc, h.artist),
         h.at = "newArtist" => h.says # Unnamed
  PROVE  LibInv'
<1>1. KindFits(w, h) /\ HandFits(h) /\ HandFiles(h)
  BY ImportGoes
<1>2. hand[w].at # "moved"
  BY DEF ImportSteps
<1> QED
  BY <1>1, <1>2, QuietHand

\* Where Leaves takes a hand.
LEMMA LeavesTo ==
  ASSUME LibInv, NEW w \in Hands, hand[w].kind \in {"scan", "import"},
         NEW at \in {"walk", "failed"}, Leaves(w, at)
  PROVE  \E h \in HandState :
           /\ Becomes(w, h) /\ h.kind = hand[w].kind /\ h.rows = hand[w].rows
           /\ h.at \in {"walk", "failed"} /\ (h.copy = hand[w].copy \/ h.copy = NoTrack)
<1>1. hand[w] \in HandState /\ NoTrack \in LibraryRow /\ NoTrack.path \in Paths
  BY OnOneHand, ValuesTyped DEF LibraryRow
<1>2. CASE hand[w].kind = "import"
  <2> DEFINE h == [hand[w] EXCEPT !.at = at, !.copy = NoTrack]
  <2>1. h \in HandState /\ h.at = at /\ h.kind = hand[w].kind /\ h.rows = hand[w].rows /\ h.copy = NoTrack
    BY <1>1 DEF HandState, HandSteps
  <2>2. Becomes(w, h)
    BY <1>2 DEF Leaves
  <2> HIDE DEF h
  <2> QED
    BY <2>1, <2>2
<1>3. CASE hand[w].kind = "scan"
  <2> DEFINE h == [hand[w] EXCEPT !.at = "walk", !.says = Unnamed, !.artist = 0, !.disc = NoDisc,
                                  !.row = 0, !.path = NoTrack.path]
  <2>1. h \in HandState /\ h.at = "walk" /\ h.kind = hand[w].kind /\ h.rows = hand[w].rows
        /\ h.copy = hand[w].copy
    BY <1>1 DEF HandState, HandSteps, Names, NoDisc
  <2>2. Becomes(w, h)
    BY <1>3 DEF Leaves
  <2> HIDE DEF h
  <2> QED
    BY <2>1, <2>2
<1> QED
  BY <1>2, <1>3

LEMMA LeavesKeeps ==
  ASSUME LibInv, NEW w \in Hands, hand[w].kind \in {"scan", "import"}, hand[w].at \in ImportSteps,
         UNCHANGED <<Tables, shelf, merging, undone>>, NEW at \in {"walk", "failed"}, Leaves(w, at)
  PROVE  LibInv'
<1>1. PICK h \in HandState :
        /\ Becomes(w, h) /\ h.kind = hand[w].kind /\ h.rows = hand[w].rows
        /\ h.at \in {"walk", "failed"} /\ (h.copy = hand[w].copy \/ h.copy = NoTrack)
  BY LeavesTo
<1>2. h.at \notin ImportSteps
  BY <1>1 DEF ImportSteps
<1> QED
  BY <1>1, <1>2, ImportReads

LEMMA GetTrackByFilePathKeeps ==
  ASSUME LibInv, NEW w \in Hands, GetTrackByFilePath(w)
  PROVE  LibInv'
<1> DEFINE known == {r \in RowIds : TrackThere(r) /\ tracks[r].path = hand[w].path}
<1>1. /\ hand[w].kind \in {"scan", "import"} /\ hand[w].at = "look" /\ hand[w].at \in ImportSteps
      /\ UNCHANGED <<Tables, shelf, merging, undone>>
  BY DEF GetTrackByFilePath, Hand, ImportSteps
<1>2. CASE GoesTo(w, "artist")
  <2> DEFINE h == [hand[w] EXCEPT !.at = "artist"]
  <2>1. h \in HandState /\ h.at = "artist" /\ h.kind = hand[w].kind /\ h.rows = hand[w].rows
        /\ h.path = hand[w].path /\ h.copy = hand[w].copy
    BY OnOneHand DEF HandState, HandSteps, ImportSteps
  <2>2. Becomes(w, h)
    BY <1>2 DEF GoesTo
  <2> HIDE DEF h
  <2> QED
    BY <1>1, <2>1, <2>2, ImportReads
<1>3. CASE Leaves(w, "walk")
  BY <1>1, <1>3, LeavesKeeps
<1>4. CASE known # {} /\ Becomes(w, [hand[w] EXCEPT !.at = "enrich", !.row = Lowest(known)])
  <2> DEFINE h == [hand[w] EXCEPT !.at = "enrich", !.row = Lowest(known)]
  <2>1. Lowest(known) \in RowIds
    BY <1>4, LowestIn, IdsTyped
  <2>2. h \in HandState /\ h.at = "enrich" /\ h.kind = hand[w].kind /\ h.rows = hand[w].rows
        /\ h.path = hand[w].path /\ h.copy = hand[w].copy
    BY <2>1, OnOneHand, ZenonT(40) DEF HandState, HandSteps
  <2>3. Becomes(w, h)
    BY <1>4
  <2> HIDE DEF h
  <2> QED
    BY <1>1, <2>2, <2>3, ImportReads
<1> QED
  BY <1>2, <1>3, <1>4 DEF GetTrackByFilePath

\* Whom the look by name finds has a key that was given.
LEMMA ArtistFound ==
  ASSUME LibInv, GetArtistByName # {}
  PROVE  Lowest(GetArtistByName) \in ArtistIds /\ Lowest(GetArtistByName) <= given.artist
<1>1. Lowest(GetArtistByName) \in GetArtistByName
  BY LowestIn, IdsTyped DEF GetArtistByName
<1>2. \A a \in ArtistIds : a \in Nat /\ given.artist \in Nat
  BY IdsTyped DEF LibInv, LibTyped, TablesTyped
<1> QED
  BY <1>1, <1>2 DEF GetArtistByName, ArtistThere, LibInv, KeysInv, KeysOnce

LEMMA getOrCreateArtistKeeps ==
  ASSUME LibInv, NEW w \in Hands, getOrCreateArtist(w)
  PROVE  LibInv'
<1>1. /\ hand[w].kind \in {"scan", "import"} /\ hand[w].at = "artist" /\ hand[w].at \in ImportSteps
      /\ UNCHANGED <<Tables, shelf, merging, undone>> /\ hand[w] \in HandState
  BY OnOneHand DEF getOrCreateArtist, Hand, ImportSteps
<1>2. PICK s \in Spellings :
        IF GetArtistByName = {} THEN Becomes(w, [hand[w] EXCEPT !.at = "newArtist", !.says = s])
        ELSE Becomes(w, [hand[w] EXCEPT !.at = "disc", !.says = s, !.artist = Lowest(GetArtistByName)])
  BY <1>1 DEF getOrCreateArtist, HandState, Names
<1> s # Unnamed /\ s \in Names
  BY LibraryAssumption DEF Names
<1>3. CASE GetArtistByName = {}
  <2> DEFINE h == [hand[w] EXCEPT !.at = "newArtist", !.says = s]
  <2>1. h \in HandState /\ h.at = "newArtist" /\ h.kind = hand[w].kind /\ h.rows = hand[w].rows
        /\ h.path = hand[w].path /\ h.copy = hand[w].copy /\ h.says = s
    BY <1>1 DEF HandState, HandSteps, ImportSteps
  <2>2. Becomes(w, h)
    BY <1>2, <1>3
  <2> HIDE DEF h
  <2> QED
    BY <1>1, <2>1, <2>2, ImportReads
<1>4. CASE GetArtistByName # {}
  <2> DEFINE a == Lowest(GetArtistByName)
             h == [hand[w] EXCEPT !.at = "disc", !.says = s, !.artist = a]
  <2>1. a \in ArtistIds /\ a <= given.artist
    BY <1>4, ArtistFound
  <2>2. Becomes(w, h)
    BY <1>2, <1>4
  <2> HIDE DEF a
  <2>3. h \in HandState /\ h.at = "disc" /\ h.kind = hand[w].kind /\ h.rows = hand[w].rows
        /\ h.path = hand[w].path /\ h.copy = hand[w].copy /\ h.artist = a
    BY <1>1, <2>1 DEF HandState, HandSteps, ImportSteps
  <2> HIDE DEF h
  <2> QED
    BY <1>1, <2>1, <2>2, <2>3, ImportReads
<1> QED
  BY <1>3, <1>4

LEMMA getOrCreateAlbumKeeps ==
  ASSUME LibInv, NEW w \in Hands, getOrCreateAlbum(w)
  PROVE  LibInv'
<1> DEFINE found == {d \in DiscIds : discs[d] = hand[w].artist}
<1>1. /\ hand[w].kind \in {"scan", "import"} /\ hand[w].at = "disc" /\ hand[w].at \in ImportSteps
      /\ UNCHANGED <<Tables, shelf, merging, undone>> /\ hand[w] \in HandState
      /\ hand[w].artist <= given.artist
  BY OnOneHand DEF getOrCreateAlbum, Hand, ImportSteps, HandFits
<1>2. CASE GoesTo(w, "newDisc")
  <2> DEFINE h == [hand[w] EXCEPT !.at = "newDisc"]
  <2>1. h \in HandState /\ h.at = "newDisc" /\ h.kind = hand[w].kind /\ h.rows = hand[w].rows
        /\ h.path = hand[w].path /\ h.copy = hand[w].copy /\ h.artist = hand[w].artist
    BY <1>1 DEF HandState, HandSteps, ImportSteps
  <2>2. Becomes(w, h)
    BY <1>2 DEF GoesTo
  <2> HIDE DEF h
  <2> QED
    BY <1>1, <2>1, <2>2, ImportReads
<1>3. CASE found # {} /\ Becomes(w, [hand[w] EXCEPT !.at = "row", !.disc = Lowest(found)])
  <2> DEFINE d == Lowest(found)
             h == [hand[w] EXCEPT !.at = "row", !.disc = d]
  <2>1. d \in DiscIds /\ discs[d] = hand[w].artist
    BY <1>3, LowestIn, IdsTyped
  <2>2. Becomes(w, h)
    BY <1>3
  <2> HIDE DEF d
  <2>3. h \in HandState /\ h.at = "row" /\ h.kind = hand[w].kind /\ h.rows = hand[w].rows
        /\ h.path = hand[w].path /\ h.copy = hand[w].copy /\ h.artist = hand[w].artist /\ h.disc = d
    BY <1>1, <2>1 DEF HandState, HandSteps, ImportSteps
  <2> HIDE DEF h
  <2>4. Fits(h.disc, h.artist)
    BY <1>1, <2>1, <2>3 DEF Fits
  <2> QED
    BY <1>1, <2>2, <2>3, <2>4, ImportReads
<1> QED
  BY <1>2, <1>3 DEF getOrCreateAlbum

LEMMA EnrichReadKeeps ==
  ASSUME LibInv, NEW w \in Hands, EnrichRead(w)
  PROVE  LibInv'
<1> DEFINE r == hand[w].row
<1>1. /\ hand[w].kind \in {"import", "enrich"} /\ hand[w].at = "enrich"
      /\ UNCHANGED <<Tables, shelf, merging, undone>> /\ hand[w] \in HandState
      /\ HandFits(hand[w]) /\ HandFiles(hand[w])
  BY OnOneHand DEF EnrichRead, Hand
<1>2. CASE TrackThere(r) /\ KeysHold(tracks[r]) /\ Becomes(w, [hand[w] EXCEPT !.at = "providers", !.copy = tracks[r]])
  <2> DEFINE h == [hand[w] EXCEPT !.at = "providers", !.copy = tracks[r]]
  <2>1. r \in RowIds
    BY <1>1, <1>2 DEF HandState, TrackThere
  <2>2. tracks[r] \in LibraryRow
    BY <2>1 DEF LibInv, LibTyped, TablesTyped
  <2>3. Becomes(w, h)
    BY <1>2
  <2>4. h \in HandState /\ h.at = "providers" /\ h.kind = hand[w].kind /\ h.rows = hand[w].rows
        /\ h.copy = tracks[r] /\ h.row = r
    BY <1>1, <2>2 DEF HandState, HandSteps
  <2> HIDE DEF h
  <2>5. Fits(tracks[r].disc, tracks[r].artist)
    <3>1. /\ tracks[r].disc \in DiscIds /\ discs[tracks[r].disc] = tracks[r].artist /\ tracks[r].artist \in ArtistIds
          /\ ArtistThere(tracks[r].artist)
      BY <1>2, <2>1, <2>2 DEF KeysHold, DiscThere, ArtistThere, LibraryRow, LibInv, KeysInv, LibraryTypeOK
    <3>2. \A a \in ArtistIds : a \in Nat /\ given.artist \in Nat
      BY IdsTyped DEF LibInv, LibTyped, TablesTyped
    <3>3. tracks[r].artist <= given.artist
      BY <3>1, <3>2 DEF LibInv, KeysInv, KeysOnce, ArtistThere
    <3> QED
      BY <3>1, <3>3 DEF Fits
  <2>6. KindFits(w, h)
    BY <1>1, <2>4 DEF KindFits, LibInv, LibTyped, HandsTyped, Hands
  <2>7. HandFits(h)
    BY <1>1, <2>4, <2>5 DEF HandFits
  <2>8. HandFiles(h)
    BY <1>1, <1>2, <2>1, <2>4 DEF HandFiles, SameFile, ImportSteps
  <2> QED
    BY <1>1, <2>3, <2>4, <2>6, <2>7, <2>8, QuietHand
<1>3. CASE GoesTo(w, "done")
  <2> DEFINE h == [hand[w] EXCEPT !.at = "done"]
  <2>1. h \in HandState /\ h.at = "done" /\ h.kind = hand[w].kind /\ h.rows = hand[w].rows
        /\ h.copy = hand[w].copy
    BY <1>1 DEF HandState, HandSteps
  <2>2. Becomes(w, h)
    BY <1>3 DEF GoesTo
  <2> HIDE DEF h
  <2>3. KindFits(w, h)
    BY <1>1, <2>1 DEF KindFits, LibInv, LibTyped, HandsTyped, Hands
  <2>4. HandFits(h) /\ HandFiles(h)
    BY <1>1, <2>1 DEF HandFits, HandFiles, ImportSteps
  <2> QED
    BY <1>1, <2>1, <2>2, <2>3, <2>4, QuietHand
<1> QED
  BY <1>2, <1>3 DEF EnrichRead

-----------------------------------------------------------------------------
(* The job in the slot *)

\* What a list of tracks says, it says of the table.
LEMMA GetTracksFit ==
  ASSUME LibInv, NEW S
  PROVE  /\ GetTracks(S) \in SUBSET (RowIds \X LibraryRow)
         /\ \A e \in GetTracks(S) : Fits(e[2].disc, e[2].artist) /\ Entry(e[1], e[2])
         /\ \A e, g \in GetTracks(S) : e[1] = g[1] => e = g
<1>1. ASSUME NEW r \in RowIds, TrackThere(r)
      PROVE  tracks[r] \in LibraryRow /\ Fits(tracks[r].disc, tracks[r].artist) /\ Entry(r, tracks[r])
  <2>1. tracks[r] \in LibraryRow
    BY DEF LibInv, LibTyped, TablesTyped
  <2>2. /\ tracks[r].disc \in DiscIds /\ discs[tracks[r].disc] = tracks[r].artist /\ tracks[r].artist \in ArtistIds
        /\ ArtistThere(tracks[r].artist)
    BY <1>1, <2>1 DEF KeysHold, DiscThere, ArtistThere, LibraryRow, LibInv, KeysInv, LibraryTypeOK
  <2>3. \A a \in ArtistIds : a \in Nat /\ given.artist \in Nat
    BY IdsTyped DEF LibInv, LibTyped, TablesTyped
  <2>4. tracks[r].artist <= given.artist
    BY <2>2, <2>3 DEF LibInv, KeysInv, KeysOnce, ArtistThere
  <2> QED
    BY <1>1, <2>1, <2>2, <2>4 DEF Fits, Entry, SameFile
<1>2. ASSUME NEW e \in GetTracks(S)
      PROVE  \E r \in RowIds : TrackThere(r) /\ e = <<r, tracks[r]>>
  BY DEF GetTracks
<1>3. \A e \in GetTracks(S) : e \in RowIds \X LibraryRow /\ Fits(e[2].disc, e[2].artist) /\ Entry(e[1], e[2])
  BY <1>1, <1>2
<1>4. \A e, g \in GetTracks(S) : e[1] = g[1] => e = g
  BY <1>2
<1> QED
  BY <1>3, <1>4

\* A job begins from nothing.
LEMMA JobBegins ==
  ASSUME LibInv, NEW h \in HandState, h.copy = NoTrack, h.kind \notin {"import", "scan"} \/ h.at = "walk",
         h.kind # "import", h.at \in {"off", "walk", "artist", "enrich", "track"},
         h.kind \in {"organize", "merge"} /\ h.at = "track" => h.artist \in ArtistIds,
         h.rows = {} \/ \E S : h.rows = GetTracks(S)
  PROVE  KindFits("slot", h) /\ HandFits(h) /\ HandFiles(h) /\ h.at # "moved"
<1>1. KindFits("slot", h)
  BY DEF KindFits
<1>2. /\ \A e \in h.rows : Fits(e[2].disc, e[2].artist) /\ Entry(e[1], e[2])
      /\ \A e, g \in h.rows : e[1] = g[1] => e = g
  BY GetTracksFit
<1>3. HandFits(h)
  BY <1>2, NothingFits DEF HandFits, LibInv
<1>4. HandFiles(h)
  BY <1>2 DEF HandFiles, ImportSteps
<1> QED
  BY <1>1, <1>3, <1>4

LEMMA JobStarts ==
  ASSUME LibInv, StartScan \/ StartOrganize \/ StartEnrichJob \/ JobEnds
  PROVE  LibInv'
<1>1. /\ UNCHANGED <<Tables, shelf, merging, undone>> /\ "slot" \in Hands
      /\ hand["slot"].at # "moved"
  BY DEF StartScan, StartOrganize, StartEnrichJob, JobEnds, SlotFree, Hand, Hands
<1>2. ASSUME NEW h \in HandState, Becomes("slot", h), h.copy = NoTrack,
             h.kind \notin {"import", "scan"} \/ h.at = "walk",
             h.kind # "import", h.at \in {"off", "walk", "artist", "enrich"}, h.rows = {}
      PROVE  LibInv'
  BY <1>1, <1>2, JobBegins, QuietHand
<1>3. /\ {"off", "scan", "organize", "enrich"} \subseteq HandKinds
      /\ {"off", "walk", "artist", "enrich"} \subseteq HandSteps
      /\ names \in [ArtistIds -> Names]
  BY DEF HandKinds, HandSteps, ImportSteps, LibInv, LibTyped, TablesTyped
<1>4. CASE StartScan
  <2> DEFINE h == [Idle EXCEPT !.kind = "scan", !.at = "walk"]
  <2>1. Becomes("slot", h)
    BY <1>4 DEF StartScan, TakesSlot
  <2>2. h \in HandState /\ h.kind = "scan" /\ h.at = "walk" /\ h.copy = NoTrack /\ h.rows = {}
    BY <1>3, ValuesTyped DEF HandState
  <2> HIDE DEF h
  <2> QED
    BY <1>2, <2>1, <2>2
<1>5. CASE StartOrganize
  <2> DEFINE h == [Idle EXCEPT !.kind = "organize", !.at = "artist", !.page = names]
  <2>1. Becomes("slot", h)
    BY <1>5 DEF StartOrganize, TakesSlot
  <2>2. h \in HandState /\ h.kind = "organize" /\ h.at = "artist" /\ h.copy = NoTrack /\ h.rows = {}
    BY <1>3, ValuesTyped DEF HandState
  <2> HIDE DEF h
  <2> QED
    BY <1>2, <2>1, <2>2
<1>6. CASE StartEnrichJob
  <2>1. PICK r \in RowIds : Becomes("slot", [Idle EXCEPT !.kind = "enrich", !.at = "enrich", !.row = r])
    BY <1>6 DEF StartEnrichJob, TakesSlot
  <2> DEFINE h == [Idle EXCEPT !.kind = "enrich", !.at = "enrich", !.row = r]
  <2>2. h \in HandState /\ h.kind = "enrich" /\ h.at = "enrich" /\ h.copy = NoTrack /\ h.rows = {}
    BY <1>3, ValuesTyped DEF HandState
  <2>3. Becomes("slot", h)
    BY <2>1
  <2> HIDE DEF h
  <2> QED
    BY <1>2, <2>2, <2>3
<1>7. CASE JobEnds
  <2>1. Becomes("slot", Idle)
    BY <1>7 DEF JobEnds
  <2> QED
    BY <1>2, <2>1, ValuesTyped
<1> QED
  BY <1>4, <1>5, <1>6, <1>7

\* Where nobody goes on, the import chain stays where it is.
LEMMA HandStays ==
  ASSUME LibInv, hand' = hand
  PROVE  \E h \in HandState :
           /\ Becomes("chain", h) /\ KindFits("chain", h) /\ HandFits(h) /\ HandFiles(h)
           /\ h = hand["chain"] /\ h.at # "moved"
<1>1. "chain" \in Hands /\ hand \in [Hands -> HandState]
  BY DEF Hands, LibInv, LibTyped, HandsTyped
<1>2. /\ hand["chain"] \in HandState /\ HandFits(hand["chain"]) /\ HandFiles(hand["chain"])
      /\ Becomes("chain", hand["chain"])
  BY <1>1, OnOneHand DEF Becomes
<1>3. KindFits("chain", hand["chain"]) /\ hand["chain"].at # "moved"
  BY DEF KindFits, LibInv, LibTyped, HandsTyped
<1> QED
  BY <1>2, <1>3

LEMMA MergeOrganizeKeeps ==
  ASSUME LibInv, NEW m \in Merges, MergeOrganize(m)
  PROVE  LibInv'
<1> DEFINE k == merging[m].keep
           list == GetTracks({r \in RowIds : tracks[r].artist = k})
           h == [Idle EXCEPT !.kind = "merge", !.at = "track", !.artist = k, !.page = names, !.rows = list]
<1>1. UNCHANGED <<Tables, shelf, undone>> /\ merging' = [merging EXCEPT ![m].at = "answered"]
  BY DEF MergeOrganize
<1>2. /\ merging' \in [Merges -> MergeState]
      /\ \A n \in Merges : merging'[n].at = "begin" => merging[n] = merging'[n]
      /\ k \in ArtistIds \cup {0}
  BY <1>1 DEF LibInv, LibTyped, MergeState
<1>3. CASE Becomes("slot", h) /\ SlotFree /\ ArtistThere(k)
  <2>1. list \in SUBSET (RowIds \X LibraryRow) /\ \E S : list = GetTracks(S)
    BY GetTracksFit
  <2>2. k \in ArtistIds /\ "slot" \in Hands /\ hand["slot"].at # "moved"
    BY <1>2, <1>3 DEF ArtistThere, SlotFree, Hands
  <2>3. names \in [ArtistIds -> Names] /\ "merge" \in HandKinds /\ "track" \in HandSteps
    BY DEF HandKinds, HandSteps, LibInv, LibTyped, TablesTyped
  <2> HIDE DEF list, k
  <2>4. /\ h \in HandState /\ h.kind = "merge" /\ h.at = "track" /\ h.copy = NoTrack /\ h.rows = list
        /\ h.artist = k
    BY <2>1, <2>2, <2>3, ValuesTyped DEF HandState
  <2>5. Becomes("slot", h)
    BY <1>3
  <2> HIDE DEF h
  <2>6. KindFits("slot", h) /\ HandFits(h) /\ HandFiles(h) /\ h.at # "moved"
    BY <2>1, <2>2, <2>4, JobBegins
  <2> QED
    BY <1>1, <1>2, <2>2, <2>4, <2>5, <2>6, QuietKeeps
<1>4. CASE hand' = hand
  <2>1. PICK g \in HandState : Becomes("chain", g) /\ KindFits("chain", g) /\ HandFits(g) /\ HandFiles(g)
                                /\ g = hand["chain"] /\ g.at # "moved"
    BY <1>4, HandStays
  <2> QED
    BY <1>1, <1>2, <2>1, QuietKeeps DEF Hands
<1> QED
  BY <1>3, <1>4 DEF MergeOrganize, TakesSlot

\* The job in the slot goes on to h.
LEMMA JobGoes ==
  ASSUME LibInv, hand["slot"].at # "moved", UNCHANGED <<Tables, shelf, merging, undone>>,
         NEW h \in HandState, Becomes("slot", h), h.kind = hand["slot"].kind, h.copy = hand["slot"].copy,
         h.rows \subseteq hand["slot"].rows \/ \E S : h.rows = GetTracks(S),
         \/ h.at = "look" /\ h.kind = "scan" /\ h.path \in shelf
         \/ h.at \in {"walk", "artist", "done"} /\ h.kind # "scan"
         \/ h.at \in {"album", "track"} /\ h.kind \in {"organize", "merge"} /\ h.artist \in ArtistIds
  PROVE  LibInv'
<1>1. "slot" \in Hands /\ HandFits(hand["slot"]) /\ HandFiles(hand["slot"])
  BY OnOneHand DEF Hands
<1>2. KindFits("slot", h) /\ h.at # "moved"
  BY DEF KindFits, LibInv, LibTyped, HandsTyped
<1>3. /\ \A e \in h.rows : Fits(e[2].disc, e[2].artist) /\ Entry(e[1], e[2])
      /\ \A e, g \in h.rows : e[1] = g[1] => e = g
  BY <1>1, GetTracksFit DEF HandFits, HandFiles
<1>4. HandFits(h)
  BY <1>1, <1>3 DEF HandFits
<1>5. HandFiles(h)
  <2>1. h.kind \in {"scan", "import"} /\ h.at \in ImportSteps => h.path \in shelf
    BY DEF LibInv, LibTyped, HandsTyped
  <2>2. h.at # "providers" /\ h.at # "moved"
    OBVIOUS
  <2> QED
    BY <1>3, <2>1, <2>2 DEF HandFiles
<1> QED
  BY <1>1, <1>2, <1>4, <1>5, QuietHand

LEMMA SlotTyped ==
  ASSUME LibInv
  PROVE  "slot" \in Hands /\ hand["slot"] \in HandState
  BY OnOneHand DEF Hands

LEMMA ScanPathKeeps ==
  ASSUME LibInv, ScanPathWithProgress
  PROVE  LibInv'
<1>1. PICK p \in shelf \ hand["slot"].seen :
        Becomes("slot", [hand["slot"] EXCEPT !.at = "look", !.path = p, !.seen = @ \cup {p}])
  BY DEF ScanPathWithProgress
<1> DEFINE h == [hand["slot"] EXCEPT !.at = "look", !.path = p, !.seen = @ \cup {p}]
<1>2. /\ UNCHANGED <<Tables, shelf, merging, undone>> /\ hand["slot"].at # "moved"
      /\ hand["slot"].kind = "scan"
  BY DEF ScanPathWithProgress, Hand
<1>3. p \in Paths
  BY DEF LibInv, LibTyped, TablesTyped
<1>4. /\ h \in HandState /\ h.kind = "scan" /\ h.at = "look" /\ h.path = p
      /\ h.copy = hand["slot"].copy /\ h.rows = hand["slot"].rows
  BY <1>2, <1>3, SlotTyped DEF HandState, HandSteps, ImportSteps
<1>5. Becomes("slot", h)
  BY <1>1
<1> HIDE DEF h
<1> QED
  BY <1>2, <1>4, <1>5, JobGoes

LEMMA GetAlbumsKeeps ==
  ASSUME LibInv, GetAlbumsByArtist
  PROVE  LibInv'
<1>1. PICK a \in ArtistIds \ hand["slot"].seen :
        Becomes("slot", [hand["slot"] EXCEPT !.at = "album", !.artist = a, !.seen = @ \cup {a},
                                             !.albums = {d \in DiscIds : discs[d] = a}])
  BY DEF GetAlbumsByArtist
<1> DEFINE h == [hand["slot"] EXCEPT !.at = "album", !.artist = a, !.seen = @ \cup {a},
                                     !.albums = {d \in DiscIds : discs[d] = a}]
<1>2. /\ UNCHANGED <<Tables, shelf, merging, undone>> /\ hand["slot"].at # "moved"
      /\ hand["slot"].kind = "organize"
  BY DEF GetAlbumsByArtist, Hand
<1>3. /\ h \in HandState /\ h.kind = "organize" /\ h.at = "album" /\ h.artist = a
      /\ h.copy = hand["slot"].copy /\ h.rows = hand["slot"].rows
  BY <1>2, SlotTyped DEF HandState, HandSteps, ImportSteps
<1>4. Becomes("slot", h)
  BY <1>1
<1> HIDE DEF h
<1> QED
  BY <1>2, <1>3, <1>4, JobGoes

LEMMA GetTracksKeeps ==
  ASSUME LibInv, GetTracksByAlbum
  PROVE  LibInv'
<1>1. /\ UNCHANGED <<Tables, shelf, merging, undone>> /\ hand["slot"].at # "moved"
      /\ hand["slot"].kind = "organize" /\ hand["slot"].at = "album" /\ hand["slot"].artist \in ArtistIds
  BY DEF GetTracksByAlbum, Hand, LibInv, LibTyped, HandsTyped
<1>2. ASSUME NEW d \in hand["slot"].albums, NEW list, list = GetTracks({r \in RowIds : tracks[r].disc = d}),
             Becomes("slot", [hand["slot"] EXCEPT !.at = "track", !.albums = @ \ {d}, !.rows = list])
      PROVE  LibInv'
  <2> DEFINE h == [hand["slot"] EXCEPT !.at = "track", !.albums = @ \ {d}, !.rows = list]
  <2>1. list \in SUBSET (RowIds \X LibraryRow) /\ \E S : list = GetTracks(S)
    BY <1>2, GetTracksFit
  <2>2. /\ h \in HandState /\ h.kind = "organize" /\ h.at = "track" /\ h.rows = list
        /\ h.copy = hand["slot"].copy /\ h.artist = hand["slot"].artist
    BY <1>1, <2>1, SlotTyped DEF HandState, HandSteps
  <2>3. Becomes("slot", h)
    BY <1>2
  <2> HIDE DEF h
  <2> QED
    BY <1>1, <2>1, <2>2, <2>3, JobGoes
<1>3. CASE GoesTo("slot", "artist")
  <2> DEFINE h == [hand["slot"] EXCEPT !.at = "artist"]
  <2>1. /\ h \in HandState /\ h.kind = "organize" /\ h.at = "artist" /\ h.rows = hand["slot"].rows
        /\ h.copy = hand["slot"].copy
    BY <1>1, SlotTyped DEF HandState, HandSteps, ImportSteps
  <2>2. Becomes("slot", h)
    BY <1>3 DEF GoesTo
  <2> HIDE DEF h
  <2> QED
    BY <1>1, <2>1, <2>2, JobGoes
<1> QED
  BY <1>2, <1>3 DEF GetTracksByAlbum

-----------------------------------------------------------------------------
(* What a step that writes has to keep *)

\* Artists and albums are not brought back, nor given to others as long as
\* the artist is there.
KeysGrow ==
  /\ given.artist <= given'.artist
  /\ \A a \in ArtistIds : a <= given.artist /\ ArtistThere(a)' => ArtistThere(a)
  /\ \A d \in DiscIds, a \in ArtistIds : discs[d] = a /\ ArtistThere(a)' => discs'[d] = a

\* Rows stay, stay with their files, and change their paths only as excepted.
RowsStay ==
  /\ undone \subseteq undone' /\ shelf \subseteq shelf'
  /\ \A r \in RowIds : TrackThere(r) =>
       /\ TrackThere(r)' /\ tracks'[r].path[1] = tracks[r].path[1]
       /\ tracks'[r].path = tracks[r].path \/ tracks[r].path[1] \in undone'

LEMMA FitsKeep ==
  ASSUME LibTyped, TablesTyped', KeysGrow, NEW h \in HandState, HandFits(h)
  PROVE  HandFits(h)'
<1>1. \A a \in ArtistIds \cup {0} : a \in Nat /\ given.artist \in Nat /\ given'.artist \in Nat
  BY IdsTyped DEF LibTyped, TablesTyped
<1>2. ASSUME NEW d, NEW a \in ArtistIds \cup {0}, Fits(d, a)
      PROVE  Fits(d, a)'
  <2>1. a <= given'.artist
    BY <1>1, <1>2 DEF Fits, KeysGrow
  <2>2. ASSUME ArtistThere(a)' PROVE d \in DiscIds /\ discs'[d] = a
    <3>1. a \in ArtistIds
      BY <2>2 DEF ArtistThere
    <3>2. ArtistThere(a)
      BY <1>2, <2>2, <3>1 DEF Fits, KeysGrow
    <3> QED
      BY <1>2, <2>2, <3>1, <3>2 DEF Fits, KeysGrow
  <2> QED
    BY <2>1, <2>2 DEF Fits
<1>3. /\ h.artist \in ArtistIds \cup {0} /\ h.copy.artist \in ArtistIds \cup {0}
      /\ \A e \in h.rows : e[2].artist \in ArtistIds \cup {0}
  BY DEF HandState, LibraryRow
<1>4. h.at \in {"disc", "newDisc", "row"} => h.artist <= given'.artist
  BY <1>1, <1>3 DEF HandFits, KeysGrow
<1> QED
  BY <1>2, <1>3, <1>4 DEF HandFits

LEMMA FileOkKeeps ==
  ASSUME RowsStay, hand'["slot"] = hand["slot"] \/ hand["slot"].at # "moved", NEW f, FileOk(f)
  PROVE  FileOk(f)'
<1>1. CASE f \in undone
  BY <1>1 DEF FileOk, RowsStay
<1>2. CASE Moving(f)
  BY <1>2 DEF FileOk, Moving
<1>3. CASE \E q \in RowIds : FollowedBy(q, f)
  <2>1. PICK q \in RowIds : FollowedBy(q, f)
    BY <1>3
  <2>2. TrackThere(q)' /\ tracks'[q].path[1] = f /\ (tracks'[q].path = tracks[q].path \/ f \in undone')
    BY <2>1 DEF FollowedBy, RowsStay
  <2>3. tracks[q].path \in shelf'
    BY <2>1 DEF FollowedBy, RowsStay
  <2> QED
    BY <2>2, <2>3 DEF FileOk, FollowedBy
<1> QED
  BY <1>1, <1>2, <1>3 DEF FileOk

LEMMA HandFilesKeep ==
  ASSUME RowsStay, hand'["slot"] = hand["slot"] \/ hand["slot"].at # "moved", NEW h, HandFiles(h)
  PROVE  HandFiles(h)'
<1>1. ASSUME NEW r, NEW c, SameFile(r, c) PROVE SameFile(r, c)'
  BY <1>1 DEF SameFile, RowsStay
<1>2. ASSUME NEW r, NEW c, Entry(r, c) PROVE Entry(r, c)'
  BY <1>1, <1>2 DEF Entry, SameFile, RowsStay
<1>3. h.kind \in {"scan", "import"} /\ h.at \in ImportSteps => h.path \in shelf' \/ FileOk(h.path[1])'
  BY FileOkKeeps DEF HandFiles, RowsStay
<1>4. /\ h.at = "providers" => SameFile(h.row, h.copy)'
      /\ \A e \in h.rows : Entry(e[1], e[2])'
      /\ h.at = "moved" => Entry(h.row, h.copy)'
  BY <1>1, <1>2 DEF HandFiles
<1> QED
  BY <1>3, <1>4 DEF HandFiles

LEMMA WriteKeeps ==
  ASSUME LibInv, NEW w \in Hands, NEW h \in HandState, Becomes(w, h), KindFits(w, h),
         h = hand[w] \/ (hand[w].at # "moved" /\ h.at # "moved"),
         HandFits(h) \/ HandFits(h)', HandFiles(h) \/ HandFiles(h)',
         TablesTyped', (LibraryTypeOK /\ KeysOnce)', KeysGrow, RowsStay,
         merging' \in [Merges -> MergeState],
         \A m \in Merges : MergeFits(merging'[m]),
         \A r \in RowIds : TrackThere(r)' /\ ~TrackThere(r) =>
           tracks'[r].path \in shelf' \/ FileOk(tracks'[r].path[1])
  PROVE  LibInv'
<1>1. hand' \in [Hands -> HandState] /\ hand'[w] = h /\ \A v \in Hands : v # w => hand'[v] = hand[v]
  BY DEF Becomes, LibInv, LibTyped, HandsTyped
<1>2. LibTyped'
  BY HandGoes DEF LibInv, LibTyped
<1>3. KeysInv'
  <2>1. ASSUME NEW g \in HandState, HandFits(g) PROVE HandFits(g)'
    BY <2>1, FitsKeep DEF LibInv
  <2>2. ASSUME NEW v \in Hands PROVE HandFits(hand[v])'
    <3>1. CASE v = w
      <4>1. HandFits(h)'
        BY <2>1
      <4> QED
        BY <1>1, <3>1, <4>1
    <3>2. CASE v # w
      <4>1. PICK g \in HandState : g = hand[v]
        BY DEF LibInv, LibTyped, HandsTyped
      <4>2. HandFits(g) /\ hand'[v] = g
        BY <1>1, <3>2, <4>1 DEF LibInv, KeysInv
      <4>3. HandFits(g)'
        BY <2>1, <4>2
      <4> QED
        BY <4>2, <4>3
    <3> QED
      BY <3>1, <3>2
  <2> QED
    BY <2>2 DEF KeysInv
<1>4. \/ hand'["slot"] = hand["slot"]
      \/ hand["slot"].at # "moved" /\ hand'["slot"].at # "moved"
  BY <1>1 DEF Hands
<1>5. FilesInv'
  <2>1. ASSUME NEW v \in Hands PROVE HandFiles(hand[v])'
    <3>1. ASSUME NEW g, HandFiles(g) PROVE HandFiles(g)'
      BY <1>4, <3>1, HandFilesKeep
    <3>2. CASE v = w
      <4>1. HandFiles(h)'
        BY <3>1
      <4> QED
        BY <1>1, <3>2, <4>1
    <3>3. CASE v # w
      <4>1. PICK g : g = hand[v]
        OBVIOUS
      <4>2. HandFiles(g) /\ hand'[v] = g
        BY <1>1, <3>3, <4>1 DEF LibInv, FilesInv
      <4>3. HandFiles(g)'
        BY <3>1, <4>2
      <4> QED
        BY <4>2, <4>3
    <3> QED
      BY <3>2, <3>3
  <2>2. ASSUME NEW r \in RowIds, TrackThere(r)' PROVE FileOk(tracks[r].path[1])'
    <3>1. CASE TrackThere(r)
      <4>1. FileOk(tracks[r].path[1]) /\ tracks'[r].path[1] = tracks[r].path[1]
        BY <3>1 DEF LibInv, FilesInv, RowsStay
      <4> QED
        BY <1>4, <4>1, FileOkKeeps
    <3>2. CASE tracks'[r].path \in shelf'
      BY <2>2, <3>2 DEF FileOk, FollowedBy
    <3>3. CASE FileOk(tracks'[r].path[1])
      BY <1>4, <3>3, FileOkKeeps
    <3> QED
      BY <2>2, <3>1, <3>2, <3>3
  <2>3. (hand["slot"].at = "moved" => Target(hand["slot"].copy) \in shelf)'
    <3>1. CASE hand'["slot"].at # "moved"
      BY <3>1
    <3>2. CASE hand'["slot"] = hand["slot"]
      <4>1. Target(hand["slot"].copy)' = Target(hand["slot"].copy)
        BY <3>2 DEF Target
      <4> QED
        BY <3>2, <4>1 DEF LibInv, FilesInv, RowsStay
    <3> QED
      BY <1>4, <3>1, <3>2
  <2> QED
    BY <2>1, <2>2, <2>3 DEF FilesInv
<1> QED
  BY <1>2, <1>3, <1>5 DEF LibInv

-----------------------------------------------------------------------------
(* The inserts of an import *)

LEMMA ImportWrites ==
  ASSUME LibInv, NEW w \in Hands, hand[w].kind \in {"scan", "import"}, hand[w].at \in ImportSteps,
         UNCHANGED <<shelf, merging, undone>>, NEW h \in HandState, Becomes(w, h),
         h.kind = hand[w].kind, h.rows = hand[w].rows,
         h.path = hand[w].path \/ h.at \notin ImportSteps, h.copy = hand[w].copy \/ h.copy = NoTrack,
         h.at \notin {"providers", "track", "moved", "newArtist"},
         h.at \in {"disc", "newDisc", "row"} => h.artist <= given'.artist,
         h.at = "row" => Fits(h.disc, h.artist)',
         TablesTyped', (LibraryTypeOK /\ KeysOnce)', KeysGrow,
         \A r \in RowIds : TrackThere(r) => TrackThere(r)' /\ tracks'[r] = tracks[r],
         \A r \in RowIds : TrackThere(r)' /\ ~TrackThere(r) => tracks'[r].path = hand[w].path
  PROVE  LibInv'
<1>1. hand[w] \in HandState /\ HandFits(hand[w]) /\ HandFiles(hand[w]) /\ hand[w].at # "moved"
  BY OnOneHand DEF ImportSteps
<1>2. KindFits(w, h)
  BY <1>1 DEF KindFits, LibInv, LibTyped, HandsTyped, Hands
<1>3. HandFiles(h)
  BY <1>1 DEF HandFiles
<1>4. PICK g \in HandState : g = hand[w]
  BY <1>1
<1>5. HandFits(g)'
  BY <1>1, <1>4, FitsKeep DEF LibInv
<1>6. HandFits(h)'
  <2>1. Fits(NoTrack.disc, NoTrack.artist)'
    BY ValuesTyped DEF Fits, ArtistThere, TablesTyped
  <2> QED
    BY <1>4, <1>5, <2>1 DEF HandFits
<1>7. RowsStay
  BY DEF RowsStay
<1>8. ASSUME NEW r \in RowIds, TrackThere(r)', ~TrackThere(r)
      PROVE  tracks'[r].path \in shelf' \/ FileOk(tracks'[r].path[1])
  BY <1>1, <1>8 DEF HandFiles
<1>9. /\ merging' \in [Merges -> MergeState]
      /\ \A m \in Merges : MergeFits(merging'[m])
  BY DEF LibInv, LibTyped, KeysInv
<1> QED
  BY <1>1, <1>2, <1>3, <1>6, <1>7, <1>8, <1>9, WriteKeeps

LEMMA UpsertArtistKeeps ==
  ASSUME LibInv, NEW w \in Hands, UpsertArtist(w)
  PROVE  LibInv'
<1>1. /\ hand[w].kind \in {"scan", "import"} /\ hand[w].at = "newArtist" /\ hand[w].at \in ImportSteps
      /\ UNCHANGED <<shelf, merging, undone>> /\ hand[w] \in HandState
      /\ hand[w].says # Unnamed
  BY OnOneHand DEF UpsertArtist, Hand, ImportSteps, HandFits
<1>2. ASSUME NEW a \in ArtistIds, Becomes(w, [hand[w] EXCEPT !.at = "disc", !.artist = a])
      PROVE  \E h \in HandState :
               /\ Becomes(w, h) /\ h.at = "disc" /\ h.kind = hand[w].kind /\ h.rows = hand[w].rows
               /\ h.path = hand[w].path /\ h.copy = hand[w].copy /\ h.artist = a
  <2> DEFINE h == [hand[w] EXCEPT !.at = "disc", !.artist = a]
  <2>1. h \in HandState /\ h.at = "disc" /\ h.kind = hand[w].kind /\ h.rows = hand[w].rows
        /\ h.path = hand[w].path /\ h.copy = hand[w].copy /\ h.artist = a
    BY <1>1 DEF HandState, HandSteps, ImportSteps
  <2>2. Becomes(w, h)
    BY <1>2
  <2> HIDE DEF h
  <2> QED
    BY <2>1, <2>2
<1>3. CASE /\ \E a \in ArtistIds : names[a] = hand[w].says
           /\ Becomes(w, [hand[w] EXCEPT !.at = "disc", !.artist = Lowest(GetArtistByName)])
           /\ UNCHANGED Tables
  <2>1. GetArtistByName # {}
    BY <1>1, <1>3, IdsTyped DEF GetArtistByName, ArtistThere
  <2>2. PICK a \in ArtistIds : a = Lowest(GetArtistByName) /\ a <= given.artist
    BY <2>1, ArtistFound
  <2>3. PICK h \in HandState :
          /\ Becomes(w, h) /\ h.at = "disc" /\ h.kind = hand[w].kind /\ h.rows = hand[w].rows
          /\ h.path = hand[w].path /\ h.copy = hand[w].copy /\ h.artist = a
    BY <1>2, <1>3, <2>2
  <2> QED
    BY <1>1, <1>3, <2>2, <2>3, ImportReads
<1>4. CASE /\ \A a \in ArtistIds : names[a] # hand[w].says
           /\ given.artist + 1 \in ArtistIds
           /\ given' = [given EXCEPT !.artist = @ + 1]
           /\ names' = [names EXCEPT ![given.artist + 1] = hand[w].says]
           /\ Becomes(w, [hand[w] EXCEPT !.at = "disc", !.artist = given.artist + 1])
           /\ UNCHANGED <<discs, tracks>>
  <2>1. PICK new \in ArtistIds : new = given.artist + 1
    BY <1>4
  <2>2. PICK h \in HandState :
          /\ Becomes(w, h) /\ h.at = "disc" /\ h.kind = hand[w].kind /\ h.rows = hand[w].rows
          /\ h.path = hand[w].path /\ h.copy = hand[w].copy /\ h.artist = new
    BY <1>2, <1>4, <2>1
  <2>3. /\ names \in [ArtistIds -> Names] /\ given \in [artist : Nat, disc : Nat, row : Nat]
        /\ given'.artist = new /\ given'.disc = given.disc /\ given'.row = given.row
        /\ given.artist \in Nat /\ new > given.artist /\ \A a \in ArtistIds : a \in Nat
    BY <1>4, <2>1, IdsTyped DEF LibInv, LibTyped, TablesTyped
  <2>4. names'[new] = hand[w].says /\ \A a \in ArtistIds : a # new => names'[a] = names[a]
    BY <1>4, <2>1, <2>3
  <2>5. names[new] = Unnamed
    BY <2>3 DEF LibInv, KeysInv, KeysOnce
  <2>6. names' \in [ArtistIds -> Names] /\ TablesTyped'
    BY <1>1, <1>4, <2>1, <2>3 DEF LibInv, LibTyped, TablesTyped, HandState
  <2>7. \A a \in ArtistIds : ArtistThere(a) => ArtistThere(a)' /\ names'[a] = names[a]
    BY <2>4, <2>5 DEF ArtistThere
  <2>8. KeysOnce'
    BY <1>4, <2>3, <2>4 DEF LibInv, KeysInv, KeysOnce
  <2>9. LibraryTypeOK'
    <3>1. \A a, b \in ArtistIds : ArtistThere(a)' /\ names'[a] = names'[b] => a = b
      BY <1>4, <2>4, <2>5 DEF ArtistThere, LibInv, KeysInv, LibraryTypeOK
    <3>2. \A d \in DiscIds : DiscThere(d)' => ArtistThere(discs[d])'
      <4>1. \A d \in DiscIds : DiscThere(d)' => ArtistThere(discs[d]) /\ discs[d] \in ArtistIds
        BY <1>4 DEF DiscThere, LibInv, KeysInv, LibraryTypeOK, LibTyped, TablesTyped
      <4> QED
        BY <1>4, <2>7, <4>1 DEF ArtistThere
    <3>3. \A r \in RowIds : TrackThere(r)' =>
            KeysHold(tracks[r])' /\ discs'[tracks'[r].disc] = tracks'[r].artist
      <4>1. \A r \in RowIds : TrackThere(r)' =>
              KeysHold(tracks[r]) /\ discs[tracks[r].disc] = tracks[r].artist
        BY <1>4 DEF TrackThere, LibInv, KeysInv, LibraryTypeOK
      <4>2. \A r \in RowIds : tracks[r].artist \in ArtistIds \cup {0}
        BY DEF LibInv, LibTyped, TablesTyped, LibraryRow
      <4> QED
        BY <1>4, <2>7, <4>1, <4>2 DEF KeysHold, DiscThere, ArtistThere
    <3> QED
      BY <2>6, <3>1, <3>2, <3>3 DEF LibraryTypeOK, Names
  <2>10. KeysGrow
    BY <1>4, <2>3, <2>4 DEF KeysGrow, ArtistThere
  <2>11. h.artist <= given'.artist
    BY <2>2, <2>3
  <2>12. \A r \in RowIds : TrackThere(r)' = TrackThere(r) /\ tracks'[r] = tracks[r]
    BY <1>4 DEF TrackThere
  <2> QED
    BY <1>1, <2>2, <2>6, <2>8, <2>9, <2>10, <2>11, <2>12, ImportWrites
<1> QED
  BY <1>3, <1>4 DEF UpsertArtist

LEMMA UpsertAlbumKeeps ==
  ASSUME LibInv, NEW w \in Hands, UpsertAlbum(w)
  PROVE  LibInv'
<1>1. /\ hand[w].kind \in {"scan", "import"} /\ hand[w].at = "newDisc" /\ hand[w].at \in ImportSteps
      /\ UNCHANGED <<names, tracks, shelf, merging, undone>> /\ hand[w] \in HandState
      /\ hand[w].artist <= given.artist
  BY OnOneHand DEF UpsertAlbum, Hand, ImportSteps, HandFits
<1>2. CASE Leaves(w, "failed") /\ UNCHANGED <<given, discs>>
  BY <1>1, <1>2, LeavesKeeps DEF Tables
<1>3. CASE /\ ArtistThere(hand[w].artist) /\ given.disc + 1 \in DiscIds
           /\ given' = [given EXCEPT !.disc = @ + 1]
           /\ discs' = [discs EXCEPT ![given.disc + 1] = hand[w].artist]
           /\ Becomes(w, [hand[w] EXCEPT !.at = "row", !.disc = given.disc + 1])
  <2>1. PICK new \in DiscIds : new = given.disc + 1
    BY <1>3
  <2>2. PICK h \in HandState :
          /\ Becomes(w, h) /\ h.at = "row" /\ h.kind = hand[w].kind /\ h.rows = hand[w].rows
          /\ h.path = hand[w].path /\ h.copy = hand[w].copy /\ h.artist = hand[w].artist /\ h.disc = new
    <3> DEFINE g == [hand[w] EXCEPT !.at = "row", !.disc = new]
    <3>1. g \in HandState /\ g.at = "row" /\ g.kind = hand[w].kind /\ g.rows = hand[w].rows
          /\ g.path = hand[w].path /\ g.copy = hand[w].copy /\ g.artist = hand[w].artist /\ g.disc = new
      BY <1>1 DEF HandState, HandSteps, ImportSteps
    <3>2. Becomes(w, g)
      BY <1>3, <2>1
    <3> HIDE DEF g
    <3> QED
      BY <3>1, <3>2
  <2>4. /\ given \in [artist : Nat, disc : Nat, row : Nat] /\ discs \in [DiscIds -> ArtistIds \cup {0}]
        /\ given'.disc = new /\ given'.artist = given.artist /\ given'.row = given.row
        /\ given.disc \in Nat /\ new > given.disc /\ \A d \in DiscIds : d \in Nat
    BY <1>3, <2>1, IdsTyped DEF LibInv, LibTyped, TablesTyped
  <2>5. discs'[new] = hand[w].artist /\ \A d \in DiscIds : d # new => discs'[d] = discs[d]
    BY <1>3, <2>1, <2>4
  <2>6. discs[new] = 0
    BY <2>4 DEF LibInv, KeysInv, KeysOnce
  <2>7. hand[w].artist \in ArtistIds
    BY <1>1, <1>3 DEF HandState, ArtistThere
  <2>8. TablesTyped'
    BY <1>1, <1>3, <2>1, <2>4, <2>7 DEF LibInv, LibTyped, TablesTyped
  <2>9. \A a : ArtistThere(a)' = ArtistThere(a)
    BY <1>1 DEF ArtistThere
  <2>10. KeysOnce'
    BY <1>1, <2>4, <2>5 DEF LibInv, KeysInv, KeysOnce
  <2>11. LibraryTypeOK'
    <3>1. \A d \in DiscIds : DiscThere(d)' => ArtistThere(discs'[d])
      BY <1>3, <2>5 DEF DiscThere, LibInv, KeysInv, LibraryTypeOK
    <3>2. \A r \in RowIds : TrackThere(r) =>
            KeysHold(tracks[r])' /\ discs'[tracks[r].disc] = tracks[r].artist
      <4>1. \A r \in RowIds : TrackThere(r) => KeysHold(tracks[r]) /\ discs[tracks[r].disc] = tracks[r].artist
        BY DEF LibInv, KeysInv, LibraryTypeOK
      <4>2. \A r \in RowIds : tracks[r].disc \in DiscIds \cup {NoDisc}
        BY DEF LibInv, LibTyped, TablesTyped, LibraryRow
      <4>3. \A r \in RowIds : TrackThere(r) => tracks[r].disc \in DiscIds /\ tracks[r].disc # new
        BY <2>6, <4>1, <4>2 DEF KeysHold, DiscThere
      <4> QED
        BY <1>1, <2>5, <4>1, <4>3 DEF KeysHold, DiscThere, ArtistThere
    <3>3. \A a, b \in ArtistIds : ArtistThere(a) /\ names[a] = names[b] => a = b
      BY DEF LibInv, KeysInv, LibraryTypeOK
    <3>4. \A d \in DiscIds : DiscThere(d)' => ArtistThere(discs[d])'
      BY <2>9, <3>1 DEF ArtistThere
    <3>5. names' \in [ArtistIds -> Spellings \cup {Unnamed}]
      BY <1>1 DEF LibInv, KeysInv, LibraryTypeOK
    <3> QED
      BY <1>1, <2>9, <3>2, <3>3, <3>4, <3>5 DEF LibraryTypeOK, TrackThere
  <2>12. KeysGrow
    BY <1>1, <2>4, <2>5, <2>6, <2>9, IdsTyped DEF KeysGrow
  <2>13. h.artist <= given'.artist /\ Fits(h.disc, h.artist)'
    <3>1. h.artist <= given'.artist
      BY <1>1, <2>2, <2>4
    <3>2. h.disc \in DiscIds /\ discs'[h.disc] = h.artist
      BY <2>2, <2>5
    <3> QED
      BY <3>1, <3>2 DEF Fits
  <2>14. \A r \in RowIds : TrackThere(r)' = TrackThere(r) /\ tracks'[r] = tracks[r]
    BY <1>1 DEF TrackThere
  <2>15. hand[w].at \in ImportSteps /\ h.at \notin {"providers", "track", "moved", "newArtist"}
    BY <1>1, <2>2
  <2>16. (h.at = "row" => Fits(h.disc, h.artist)') /\ (h.at \in {"disc", "newDisc", "row"} => h.artist <= given'.artist)
    BY <2>13
  <2>17. \A r \in RowIds : TrackThere(r)' /\ ~TrackThere(r) => tracks'[r].path = hand[w].path
    BY <2>14
  <2>18. (LibraryTypeOK /\ KeysOnce)'
    BY <2>10, <2>11
  <2> QED
    BY <1>1, <2>2, <2>8, <2>12, <2>14, <2>15, <2>16, <2>17, <2>18, ImportWrites
<1> QED
  BY <1>2, <1>3 DEF UpsertAlbum

LEMMA UpsertTrackKeeps ==
  ASSUME LibInv, NEW w \in Hands, UpsertTrack(w)
  PROVE  LibInv'
<1> DEFINE t == [disc |-> hand[w].disc, artist |-> hand[w].artist, path |-> hand[w].path]
<1>1. /\ hand[w].kind \in {"scan", "import"} /\ hand[w].at = "row" /\ hand[w].at \in ImportSteps
      /\ UNCHANGED <<names, discs, shelf, merging, undone>> /\ hand[w] \in HandState
      /\ Fits(hand[w].disc, hand[w].artist)
  BY OnOneHand DEF UpsertTrack, Hand, ImportSteps, HandFits
<1>2. CASE Leaves(w, "failed") /\ UNCHANGED <<given, tracks>>
  BY <1>1, <1>2, LeavesKeeps DEF Tables
<1>3. CASE /\ KeysHold(t) /\ given.row + 1 \in RowIds
           /\ given' = [given EXCEPT !.row = @ + 1]
           /\ tracks' = [tracks EXCEPT ![given.row + 1] = t]
           /\ IF hand[w].kind = "scan" THEN Leaves(w, "walk")
              ELSE Becomes(w, [hand[w] EXCEPT !.at = "enrich", !.row = given.row + 1])
  <2>1. PICK new \in RowIds : new = given.row + 1
    BY <1>3
  <2>2. t \in LibraryRow /\ t.path = hand[w].path /\ t.disc = hand[w].disc /\ t.artist = hand[w].artist
    BY <1>1 DEF HandState, LibraryRow
  <2>3. t # NoTrack
    BY <1>3, RowsThere
  <2>4. discs[t.disc] = t.artist
    BY <1>1, <1>3, <2>2 DEF Fits, KeysHold
  <2>5. KeysHold(t) /\ tracks' = [tracks EXCEPT ![new] = t]
    BY <1>3, <2>1
  <2> HIDE DEF t
  <2>6. \E h \in HandState :
          /\ Becomes(w, h) /\ h.kind = hand[w].kind /\ h.rows = hand[w].rows
          /\ h.at \in {"walk", "failed", "enrich"} /\ (h.copy = hand[w].copy \/ h.copy = NoTrack)
    <3>1. CASE Leaves(w, "walk")
      BY <1>1, <3>1, LeavesTo
    <3>2. CASE Becomes(w, [hand[w] EXCEPT !.at = "enrich", !.row = new])
      <4> DEFINE h == [hand[w] EXCEPT !.at = "enrich", !.row = new]
      <4>1. h \in HandState /\ h.at = "enrich" /\ h.kind = hand[w].kind /\ h.rows = hand[w].rows
            /\ h.copy = hand[w].copy
        BY <1>1 DEF HandState, HandSteps, ImportSteps
      <4>2. Becomes(w, h)
        BY <3>2
      <4> HIDE DEF h
      <4> QED
        BY <4>1, <4>2
    <3> QED
      BY <1>3, <2>1, <3>1, <3>2
  <2>7. PICK h \in HandState :
          /\ Becomes(w, h) /\ h.kind = hand[w].kind /\ h.rows = hand[w].rows
          /\ h.at \in {"walk", "failed", "enrich"} /\ (h.copy = hand[w].copy \/ h.copy = NoTrack)
    BY <2>6
  <2>8. h.at \notin ImportSteps /\ h.at \notin {"providers", "track", "moved", "newArtist", "disc", "newDisc", "row"}
    BY <2>7 DEF ImportSteps
  <2>9. /\ given \in [artist : Nat, disc : Nat, row : Nat] /\ tracks \in [RowIds -> LibraryRow]
        /\ given'.row = new /\ given'.artist = given.artist /\ given'.disc = given.disc
        /\ given.row \in Nat /\ new > given.row /\ \A r \in RowIds : r \in Nat
    BY <1>3, <2>1, IdsTyped DEF LibInv, LibTyped, TablesTyped
  <2>10. tracks'[new] = t /\ \A r \in RowIds : r # new => tracks'[r] = tracks[r]
    BY <2>5, <2>9
  <2>11. tracks[new] = NoTrack
    BY <2>9 DEF LibInv, KeysInv, KeysOnce
  <2>12. TablesTyped'
    BY <1>1, <1>3, <2>1, <2>2, <2>5, <2>9 DEF LibInv, LibTyped, TablesTyped
  <2>13. KeysOnce'
    BY <1>1, <2>9, <2>10 DEF LibInv, KeysInv, KeysOnce
  <2>14. \A x : KeysHold(x)' = KeysHold(x)
    BY <1>1 DEF KeysHold, ArtistThere, DiscThere
  <2>15. \A r \in RowIds : TrackThere(r)' =>
           KeysHold(tracks'[r]) /\ discs'[tracks'[r].disc] = tracks'[r].artist
    BY <1>1, <2>4, <2>5, <2>10 DEF TrackThere, LibInv, KeysInv, LibraryTypeOK
  <2>16. LibraryTypeOK'
    <3>1. \A r \in RowIds : TrackThere(r)' =>
            KeysHold(tracks[r])' /\ discs'[tracks'[r].disc] = tracks'[r].artist
      BY <1>1, <2>15 DEF KeysHold, ArtistThere, DiscThere
    <3> QED
      BY <1>1, <3>1 DEF LibInv, KeysInv, LibraryTypeOK, ArtistThere, DiscThere
  <2>17. KeysGrow
    BY <1>1, <2>9 DEF KeysGrow, ArtistThere
  <2>18. \A r \in RowIds : TrackThere(r) => TrackThere(r)' /\ tracks'[r] = tracks[r]
    BY <2>10, <2>11 DEF TrackThere
  <2>19. \A r \in RowIds : TrackThere(r)' /\ ~TrackThere(r) => tracks'[r].path = hand[w].path
    BY <2>2, <2>10 DEF TrackThere
  <2> QED
    BY <1>1, <2>7, <2>8, <2>12, <2>13, <2>16, <2>17, <2>18, <2>19, ImportWrites
<1> QED
  BY <1>2, <1>3 DEF UpsertTrack

-----------------------------------------------------------------------------
(* The renamer and the enrichment *)

LEMMA RenameDownloadKeeps ==
  ASSUME LibInv, RenameDownload
  PROVE  LibInv'
<1>1. PICK s \in Spellings :
        /\ shelf' = shelf \cup {<<"g", s>>}
        /\ Becomes("chain", [Idle EXCEPT !.kind = "import", !.at = "look", !.path = <<"g", s>>, !.says = s])
  BY DEF RenameDownload
<1>2. /\ UNCHANGED <<names, discs, tracks, given, merging, undone>> /\ "chain" \in Hands
      /\ hand["chain"].at # "moved"
  BY DEF RenameDownload, Tables, Hand, Hands
<1>3. <<"g", s>> \in Paths
  BY DEF Paths, Files, Folders
<1>4. PICK h \in HandState :
        /\ Becomes("chain", h) /\ h.kind = "import" /\ h.at = "look" /\ h.path = <<"g", s>>
        /\ h.rows = {} /\ h.copy = NoTrack
  <2> DEFINE g == [Idle EXCEPT !.kind = "import", !.at = "look", !.path = <<"g", s>>, !.says = s]
  <2>1. g \in HandState /\ g.kind = "import" /\ g.at = "look" /\ g.path = <<"g", s>> /\ g.rows = {}
        /\ g.copy = NoTrack
    BY <1>3, ValuesTyped DEF HandState, HandKinds, HandSteps, ImportSteps, Names
  <2>2. Becomes("chain", g)
    BY <1>1
  <2> HIDE DEF g
  <2> QED
    BY <2>1, <2>2
<1>5. KindFits("chain", h) /\ h.at # "moved"
  BY <1>4 DEF KindFits
<1>6. HandFits(h)
  BY <1>4, NothingFits DEF HandFits, LibInv
<1>7. HandFiles(h)'
  BY <1>1, <1>4 DEF HandFiles
<1>8. TablesTyped'
  BY <1>1, <1>2, <1>3 DEF LibInv, LibTyped, TablesTyped
<1>9. (LibraryTypeOK /\ KeysOnce)'
  BY <1>2 DEF LibInv, KeysInv, LibraryTypeOK, KeysOnce, ArtistThere, DiscThere, TrackThere, KeysHold
<1>10. KeysGrow
  BY <1>2, <1>8 DEF KeysGrow, ArtistThere, TablesTyped
<1>11. RowsStay
  BY <1>1, <1>2 DEF RowsStay, TrackThere
<1>12. \A r \in RowIds : TrackThere(r)' => TrackThere(r)
  BY <1>2 DEF TrackThere
<1>13. /\ merging' \in [Merges -> MergeState]
       /\ \A m \in Merges : MergeFits(merging'[m])
  BY <1>2 DEF LibInv, LibTyped, KeysInv
<1> QED
  BY <1>2, <1>4, <1>5, <1>6, <1>7, <1>8, <1>9, <1>10, <1>11, <1>12, <1>13, WriteKeeps

\* An enrichment goes on to h.
LEMMA EnrichGoes ==
  ASSUME LibInv, NEW w \in Hands, hand[w].kind \in {"import", "enrich"},
         NEW at \in {"album", "done"}, GoesTo(w, at)
  PROVE  \E h \in HandState :
           /\ Becomes(w, h) /\ KindFits(w, h) /\ HandFits(h) /\ HandFiles(h) /\ h.at # "moved"
<1>1. hand[w] \in HandState /\ HandFits(hand[w]) /\ HandFiles(hand[w])
  BY OnOneHand
<1> DEFINE h == [hand[w] EXCEPT !.at = at]
<1>2. /\ h \in HandState /\ h.at = at /\ h.kind = hand[w].kind /\ h.rows = hand[w].rows
      /\ h.copy = hand[w].copy
  BY <1>1 DEF HandState, HandSteps
<1>3. Becomes(w, h)
  BY DEF GoesTo
<1> HIDE DEF h
<1>4. h.at \notin ImportSteps /\ h.at \notin {"disc", "newDisc", "row", "newArtist", "providers", "moved"}
  BY <1>2 DEF ImportSteps
<1>5. KindFits(w, h)
  BY <1>2, <1>4 DEF KindFits, LibInv, LibTyped, HandsTyped, Hands
<1>6. HandFits(h) /\ HandFiles(h)
  BY <1>1, <1>2, <1>4 DEF HandFits, HandFiles
<1> QED
  BY <1>2, <1>3, <1>4, <1>5, <1>6

LEMMA EnrichWriteTrackKeeps ==
  ASSUME LibInv, NEW w \in Hands, EnrichWriteTrack(w)
  PROVE  LibInv'
<1>1. /\ hand[w].kind \in {"import", "enrich"} /\ hand[w].at = "providers" /\ hand[w] \in HandState
      /\ UNCHANGED <<names, discs, given, shelf, merging>> /\ GoesTo(w, "album")
      /\ HandFits(hand[w]) /\ HandFiles(hand[w])
  BY OnOneHand DEF EnrichWriteTrack, Hand
<1>2. PICK h \in HandState : Becomes(w, h) /\ KindFits(w, h) /\ HandFits(h) /\ HandFiles(h) /\ h.at # "moved"
  BY <1>1, EnrichGoes
<1>3. CASE UNCHANGED <<tracks, undone>>
  BY <1>1, <1>2, <1>3, QuietHand DEF Tables
<1>4. PICK r \in RowIds, copy \in LibraryRow : r = hand[w].row /\ copy = hand[w].copy /\ SameFile(r, copy)
  BY <1>1 DEF HandFiles, SameFile, HandState
<1>5. CASE /\ KeysHold(copy) /\ tracks' = [tracks EXCEPT ![r] = copy]
           /\ undone' = IF copy.path = tracks[r].path THEN undone ELSE undone \cup {copy.path[1]}
  <2>1. tracks \in [RowIds -> LibraryRow] /\ given.row \in Nat /\ r \in Nat
    BY IdsTyped DEF LibInv, LibTyped, TablesTyped
  <2>2. tracks'[r] = copy /\ \A q \in RowIds : q # r => tracks'[q] = tracks[q]
    BY <1>5, <2>1
  <2>3. TablesTyped'
    BY <1>1, <1>5, <2>1 DEF LibInv, LibTyped, TablesTyped
  <2>4. copy # NoTrack /\ TrackThere(r) /\ tracks[r].path[1] = copy.path[1]
    BY <1>4, <1>5, RowsThere DEF SameFile
  <2>5. r <= given.row
    BY <2>1, <2>4 DEF LibInv, KeysInv, KeysOnce, TrackThere
  <2>6. discs[copy.disc] = copy.artist
    BY <1>1, <1>4, <1>5 DEF HandFits, Fits, KeysHold
  <2>7. \A q \in RowIds : TrackThere(q)' <=> TrackThere(q)
    BY <2>2, <2>4 DEF TrackThere
  <2>8. KeysOnce'
    BY <1>1, <2>1, <2>2, <2>5 DEF LibInv, KeysInv, KeysOnce
  <2>9. LibraryTypeOK'
    <3>1. \A q \in RowIds : TrackThere(q)' => KeysHold(tracks'[q]) /\ discs[tracks'[q].disc] = tracks'[q].artist
      BY <1>5, <2>2, <2>6, <2>7 DEF LibInv, KeysInv, LibraryTypeOK
    <3>2. \A q \in RowIds : TrackThere(q)' => KeysHold(tracks[q])' /\ discs'[tracks'[q].disc] = tracks'[q].artist
      BY <1>1, <3>1 DEF KeysHold, ArtistThere, DiscThere
    <3> QED
      BY <1>1, <3>2 DEF LibInv, KeysInv, LibraryTypeOK, ArtistThere, DiscThere
  <2>10. KeysGrow
    BY <1>1, <2>3 DEF KeysGrow, ArtistThere, TablesTyped
  <2>11. RowsStay
    <3>1. undone \subseteq undone'
      BY <1>5
    <3>2. ASSUME NEW q \in RowIds, TrackThere(q)
          PROVE  /\ TrackThere(q)' /\ tracks'[q].path[1] = tracks[q].path[1]
                 /\ tracks'[q].path = tracks[q].path \/ tracks[q].path[1] \in undone'
      BY <1>5, <2>2, <2>4, <2>7, <3>2
    <3> QED
      BY <1>1, <3>1, <3>2 DEF RowsStay
  <2>12. /\ merging' \in [Merges -> MergeState]
         /\ \A m \in Merges : MergeFits(merging'[m])
    BY <1>1 DEF LibInv, LibTyped, KeysInv
  <2>13. hand[w].at # "moved" /\ (LibraryTypeOK /\ KeysOnce)'
    BY <1>1, <2>8, <2>9
  <2>14. \A q \in RowIds : TrackThere(q)' /\ ~TrackThere(q) => tracks'[q].path \in shelf'
    BY <2>7
  <2> QED
    BY <1>2, <2>3, <2>10, <2>11, <2>12, <2>13, <2>14, WriteKeeps
<1> QED
  BY <1>3, <1>4, <1>5 DEF EnrichWriteTrack

\* The album somebody read is still his artist's.
LEMMA EnrichWriteAlbumKeeps ==
  ASSUME LibInv, NEW w \in Hands, EnrichWriteAlbum(w)
  PROVE  LibInv'
<1>1. /\ hand[w].kind \in {"import", "enrich"} /\ hand[w].at = "album"
      /\ UNCHANGED <<names, tracks, given, shelf, merging, undone>> /\ GoesTo(w, "done")
      /\ HandFits(hand[w])
  BY OnOneHand DEF EnrichWriteAlbum, Hand
<1>2. PICK h \in HandState : Becomes(w, h) /\ KindFits(w, h) /\ HandFits(h) /\ HandFiles(h) /\ h.at # "moved"
  BY <1>1, EnrichGoes
<1>3. discs' = discs
  <2>1. discs \in [DiscIds -> ArtistIds \cup {0}]
    BY DEF LibInv, LibTyped, TablesTyped
  <2>2. KeysHold(hand[w].copy) => hand[w].copy.disc \in DiscIds /\ discs[hand[w].copy.disc] = hand[w].copy.artist
    BY <1>1 DEF HandFits, Fits, KeysHold
  <2> QED
    BY <2>1, <2>2 DEF EnrichWriteAlbum
<1> QED
  BY <1>1, <1>2, <1>3, QuietHand DEF Tables

-----------------------------------------------------------------------------
(* The merge of two artists *)

\* A merge that writes the tables, and nobody's hand.
LEMMA MergeWrites ==
  ASSUME LibInv, UNCHANGED <<given, shelf, hand, undone>>,
         names' \in [ArtistIds -> Names], discs' \in [DiscIds -> ArtistIds \cup {0}],
         tracks' \in [RowIds -> LibraryRow], (LibraryTypeOK /\ KeysOnce)', KeysGrow,
         \A r \in RowIds : TrackThere(r)' = TrackThere(r) /\ tracks'[r].path = tracks[r].path,
         merging' \in [Merges -> MergeState], \A m \in Merges : MergeFits(merging'[m])
  PROVE  LibInv'
<1>1. PICK h \in HandState :
        /\ Becomes("chain", h) /\ KindFits("chain", h) /\ HandFits(h) /\ HandFiles(h)
        /\ h = hand["chain"] /\ h.at # "moved"
  BY HandStays
<1>2. TablesTyped' /\ RowsStay /\ "chain" \in Hands
  BY DEF LibInv, LibTyped, TablesTyped, RowsStay, Hands
<1> QED
  BY <1>1, <1>2, WriteKeeps

LEMMA MergeGoes ==
  ASSUME LibInv, NEW m \in Merges, NEW g \in MergeState, MergeFits(g), merging' = [merging EXCEPT ![m] = g]
  PROVE  /\ merging' \in [Merges -> MergeState] /\ \A n \in Merges : MergeFits(merging'[n])
  BY DEF LibInv, LibTyped, KeysInv

LEMMA SameTables ==
  ASSUME LibInv, UNCHANGED Tables
  PROVE  /\ names' \in [ArtistIds -> Names] /\ discs' \in [DiscIds -> ArtistIds \cup {0}]
         /\ tracks' \in [RowIds -> LibraryRow] /\ (LibraryTypeOK /\ KeysOnce)' /\ KeysGrow
         /\ \A r \in RowIds : TrackThere(r)' = TrackThere(r) /\ tracks'[r].path = tracks[r].path
<1>1. UNCHANGED <<names, discs, tracks, given>>
  BY DEF Tables
<1>2. names \in [ArtistIds -> Names] /\ discs \in [DiscIds -> ArtistIds \cup {0}]
      /\ tracks \in [RowIds -> LibraryRow] /\ given.artist \in Nat
  BY DEF LibInv, LibTyped, TablesTyped
<1>3. (LibraryTypeOK /\ KeysOnce)'
  BY <1>1 DEF LibInv, KeysInv, LibraryTypeOK, KeysOnce, ArtistThere, DiscThere, TrackThere, KeysHold
<1>4. KeysGrow
  BY <1>1, <1>2 DEF KeysGrow, ArtistThere
<1> QED
  BY <1>1, <1>2, <1>3, <1>4 DEF TrackThere

LEMMA MergeReadKeeps ==
  ASSUME LibInv, NEW m \in Merges, MergeRead(m)
  PROVE  LibInv'
<1>1. PICK k \in ArtistIds, r \in ArtistIds :
        k # r /\ merging' = [merging EXCEPT ![m] = [NoMerge EXCEPT !.at = "begin", !.keep = k, !.remove = r]]
  BY DEF MergeRead
<1> DEFINE g == [NoMerge EXCEPT !.at = "begin", !.keep = k, !.remove = r]
<1>2. g \in MergeState /\ g.keep = k /\ g.remove = r
  BY ValuesTyped DEF MergeState
<1>3. MergeFits(g) /\ merging' = [merging EXCEPT ![m] = g]
  BY <1>1, <1>2, IdsTyped DEF MergeFits
<1> HIDE DEF g
<1>4. merging' \in [Merges -> MergeState] /\ \A n \in Merges : MergeFits(merging'[n])
  BY <1>2, <1>3, MergeGoes
<1>5. UNCHANGED Tables /\ UNCHANGED <<given, shelf, hand, undone>>
  BY DEF MergeRead, Tables
<1> QED
  BY <1>4, <1>5, SameTables, MergeWrites

LEMMA MergeCanonicalKeeps ==
  ASSUME LibInv, NEW m \in Merges, MergeCanonical(m)
  PROVE  LibInv'
<1>1. PICK c \in Names : merging' = [merging EXCEPT ![m].at = "rename", ![m].canonical = c]
  <2>1. PICK c \in Spellings \cup {Unnamed} :
          merging' = [merging EXCEPT ![m].at = "rename",
                        ![m].canonical = IF ArtistThere(merging[m].keep) /\ names[merging[m].keep] # c
                                         THEN c ELSE Unnamed]
    BY DEF MergeCanonical
  <2> DEFINE d == IF ArtistThere(merging[m].keep) /\ names[merging[m].keep] # c THEN c ELSE Unnamed
  <2>2. d \in Names
    BY DEF Names
  <2>3. merging' = [merging EXCEPT ![m].at = "rename", ![m].canonical = d]
    BY <2>1
  <2> HIDE DEF d
  <2> QED
    BY <2>2, <2>3
<1> DEFINE g == [merging[m] EXCEPT !.at = "rename", !.canonical = c]
<1>2. merging[m] \in MergeState /\ merging \in [Merges -> MergeState]
  BY DEF LibInv, LibTyped
<1>3. g \in MergeState /\ g.at = "rename" /\ merging' = [merging EXCEPT ![m] = g]
  BY <1>1, <1>2 DEF MergeState
<1> HIDE DEF g
<1>4. merging' \in [Merges -> MergeState] /\ \A n \in Merges : MergeFits(merging'[n])
  BY <1>3, MergeGoes DEF MergeFits
<1>5. UNCHANGED Tables /\ UNCHANGED <<given, shelf, hand, undone>>
  BY DEF MergeCanonical, Tables
<1> QED
  BY <1>4, <1>5, SameTables, MergeWrites

LEMMA RenameArtistKeeps ==
  ASSUME LibInv, NEW m \in Merges, RenameArtist(m)
  PROVE  LibInv'
<1> DEFINE g == [merging[m] EXCEPT !.at = "organize"]
<1>1. merging[m] \in MergeState /\ merging \in [Merges -> MergeState]
  BY DEF LibInv, LibTyped
<1>2. g \in MergeState /\ g.at = "organize" /\ merging' = [merging EXCEPT ![m] = g]
  BY <1>1 DEF MergeState, RenameArtist
<1> HIDE DEF g
<1>3. merging' \in [Merges -> MergeState] /\ \A n \in Merges : MergeFits(merging'[n])
  BY <1>2, MergeGoes DEF MergeFits
<1>4. UNCHANGED <<discs, tracks, given, shelf, hand, undone>>
  BY DEF RenameArtist
<1>5. CASE names' = names
  BY <1>3, <1>4, <1>5, SameTables, MergeWrites DEF Tables
<1>6. ASSUME NEW k, ArtistThere(k), k = merging[m].keep, NEW c, c = merging[m].canonical, c # Unnamed,
             \A a \in ArtistIds : names[a] # c, names' = [names EXCEPT ![k] = c]
      PROVE  LibInv'
  <2>1. c \in Names /\ k \in ArtistIds /\ names \in [ArtistIds -> Names]
    BY <1>1, <1>6 DEF MergeState, ArtistThere, LibInv, LibTyped, TablesTyped
  <2>2. names'[k] = c /\ \A a \in ArtistIds : a # k => names'[a] = names[a]
    BY <1>6, <2>1
  <2>3. names' \in [ArtistIds -> Names] /\ names' \in [ArtistIds -> Spellings \cup {Unnamed}]
    BY <1>6, <2>1 DEF Names
  <2>4. \A a \in ArtistIds : ArtistThere(a)' = ArtistThere(a)
    BY <1>6, <2>2 DEF ArtistThere
  <2>5. /\ discs \in [DiscIds -> ArtistIds \cup {0}] /\ tracks \in [RowIds -> LibraryRow] /\ given.artist \in Nat
        /\ \A a \in ArtistIds : a \in Nat
    BY IdsTyped DEF LibInv, LibTyped, TablesTyped
  <2>6. KeysOnce'
    <3>1. k <= given.artist
      BY <1>6, <2>1, <2>5 DEF LibInv, KeysInv, KeysOnce, ArtistThere
    <3>2. \A a \in ArtistIds : a > given.artist => names'[a] = Unnamed
      BY <2>1, <2>2, <2>5, <3>1 DEF LibInv, KeysInv, KeysOnce
    <3> QED
      BY <1>4, <3>2 DEF LibInv, KeysInv, KeysOnce
  <2>7. LibraryTypeOK'
    <3>1. \A a, b \in ArtistIds : ArtistThere(a)' /\ names'[a] = names'[b] => a = b
      BY <1>6, <2>2, <2>4 DEF LibInv, KeysInv, LibraryTypeOK
    <3>2. \A d \in DiscIds : DiscThere(d)' => ArtistThere(discs[d])'
      BY <1>4, <2>4, <2>5 DEF LibInv, KeysInv, LibraryTypeOK, DiscThere, ArtistThere
    <3>3. ASSUME NEW r \in RowIds, TrackThere(r)'
          PROVE  KeysHold(tracks[r])' /\ discs'[tracks'[r].disc] = tracks'[r].artist
      <4>1. KeysHold(tracks[r]) /\ discs[tracks[r].disc] = tracks[r].artist
        BY <1>4, <3>3 DEF LibInv, KeysInv, LibraryTypeOK, TrackThere
      <4>2. tracks[r].artist \in ArtistIds \cup {0}
        BY <2>5 DEF LibraryRow
      <4>3. tracks[r].artist \in ArtistIds /\ ArtistThere(tracks[r].artist)'
        BY <1>4, <2>4, <4>1, <4>2 DEF KeysHold, ArtistThere
      <4> QED
        BY <1>4, <4>1, <4>3 DEF KeysHold, DiscThere
    <3> QED
      BY <2>3, <3>1, <3>2, <3>3 DEF LibraryTypeOK
  <2>8. KeysGrow
    BY <1>4, <2>4, <2>5 DEF KeysGrow
  <2>9. \A r \in RowIds : TrackThere(r)' = TrackThere(r) /\ tracks'[r].path = tracks[r].path
    BY <1>4 DEF TrackThere
  <2>10. /\ discs' \in [DiscIds -> ArtistIds \cup {0}] /\ tracks' \in [RowIds -> LibraryRow]
         /\ (LibraryTypeOK /\ KeysOnce)'
    BY <1>4, <2>5, <2>6, <2>7
  <2> QED
    BY <1>3, <1>4, <2>3, <2>8, <2>9, <2>10, MergeWrites
<1> QED
  BY <1>5, <1>6 DEF RenameArtist

\* Albums and tracks go to the artist that is kept together.
LEMMA MergeCommitKeeps ==
  ASSUME LibInv, NEW m \in Merges, MergeCommit(m)
  PROVE  LibInv'
<1> DEFINE at == IF ArtistThere(merging[m].keep) THEN "lookup" ELSE "refused"
           g == [merging[m] EXCEPT !.at = at]
<1>1. merging[m] \in MergeState /\ merging \in [Merges -> MergeState]
  BY DEF LibInv, LibTyped
<1>2. at \in {"lookup", "refused"} /\ merging' = [merging EXCEPT ![m].at = at]
  BY DEF MergeCommit
<1> HIDE DEF at
<1>3. g \in MergeState /\ g.at = at /\ merging' = [merging EXCEPT ![m] = g]
  BY <1>1, <1>2 DEF MergeState
<1> HIDE DEF g
<1>4. merging' \in [Merges -> MergeState] /\ \A n \in Merges : MergeFits(merging'[n])
  BY <1>2, <1>3, MergeGoes DEF MergeFits
<1>5. UNCHANGED <<given, shelf, hand, undone>>
  BY DEF MergeCommit
<1>6. CASE UNCHANGED <<discs, tracks, names>>
  BY <1>4, <1>5, <1>6, SameTables, MergeWrites DEF Tables
<1>7. ASSUME NEW k \in ArtistIds \cup {0}, NEW r \in ArtistIds \cup {0}, k = merging[m].keep, r = merging[m].remove,
             ArtistThere(k), discs' = DiscsGiven(k, r), tracks' = Given(k, r, tracks),
             names' = [names EXCEPT ![r] = Unnamed]
      PROVE  LibInv'
  <2>1. /\ names \in [ArtistIds -> Names] /\ discs \in [DiscIds -> ArtistIds \cup {0}]
        /\ tracks \in [RowIds -> LibraryRow]
        /\ given \in [artist : Nat, disc : Nat, row : Nat] /\ \A a \in ArtistIds : a \in Nat
    BY IdsTyped DEF LibInv, LibTyped, TablesTyped
  <2>2. k \in ArtistIds /\ r \in ArtistIds /\ k # r
    BY <1>7 DEF LibInv, KeysInv, MergeFits, MergeCommit, ArtistThere
  <2>3. names'[r] = Unnamed /\ names' \in [ArtistIds -> Names] /\ \A a \in ArtistIds : a # r => names'[a] = names[a]
    BY <1>7, <2>1, <2>2 DEF Names
  <2>4. /\ discs' \in [DiscIds -> ArtistIds \cup {0}]
        /\ \A d \in DiscIds : discs'[d] = IF discs[d] = r THEN k ELSE discs[d]
    BY <1>7, <2>1, <2>2 DEF DiscsGiven
  <2>5. \A x \in RowIds : tracks'[x] = IF tracks[x].artist = r THEN [tracks[x] EXCEPT !.artist = k] ELSE tracks[x]
    BY <1>7, <2>1 DEF Given
  <2>6. tracks' \in [RowIds -> LibraryRow]
    <3>1. DOMAIN tracks = RowIds
      BY <2>1
    <3>2. tracks' = [x \in RowIds |-> IF tracks[x].artist = r THEN [tracks[x] EXCEPT !.artist = k] ELSE tracks[x]]
      BY <1>7, <3>1 DEF Given
    <3>3. ASSUME NEW x \in RowIds
          PROVE  (IF tracks[x].artist = r THEN [tracks[x] EXCEPT !.artist = k] ELSE tracks[x]) \in LibraryRow
      BY <2>1, <2>2 DEF LibraryRow
    <3> QED
      BY <3>2, <3>3
  <2>7. ASSUME NEW x \in RowIds
        PROVE  /\ tracks'[x].path = tracks[x].path /\ tracks'[x].disc = tracks[x].disc
               /\ tracks'[x].artist = IF tracks[x].artist = r THEN k ELSE tracks[x].artist
    BY <2>1, <2>5 DEF LibraryRow
  <2>8. \A x \in RowIds : TrackThere(x)' = TrackThere(x)
    <3>1. ASSUME NEW x \in RowIds, tracks[x].artist = r
          PROVE  tracks'[x] # NoTrack /\ tracks[x] # NoTrack
      BY <2>2, <2>7, <3>1, ValuesTyped, IdsTyped
    <3> QED
      BY <2>5, <3>1 DEF TrackThere
  <2>9. \A a \in ArtistIds : ArtistThere(a)' <=> ArtistThere(a) /\ a # r
    BY <2>3 DEF ArtistThere
  <2>10. KeysOnce'
    <3>1. \A a \in ArtistIds : a > given.artist => names'[a] = Unnamed
      BY <2>3 DEF LibInv, KeysInv, KeysOnce
    <3>2. \A d \in DiscIds : d > given.disc => discs'[d] = 0
      BY <2>2, <2>4, IdsTyped DEF LibInv, KeysInv, KeysOnce
    <3>3. \A x \in RowIds : x > given.row => tracks'[x] = NoTrack
      BY <2>2, <2>5, ValuesTyped, IdsTyped DEF LibInv, KeysInv, KeysOnce
    <3> QED
      BY <1>5, <3>1, <3>2, <3>3 DEF KeysOnce
  <2>11. LibraryTypeOK'
    <3>1. \A a, b \in ArtistIds : ArtistThere(a)' /\ names'[a] = names'[b] => a = b
      BY <2>3 DEF ArtistThere, LibInv, KeysInv, LibraryTypeOK
    <3>2. \A d \in DiscIds : DiscThere(d)' => ArtistThere(discs[d])'
      <4>1. ASSUME NEW d \in DiscIds, DiscThere(d)'
            PROVE  discs'[d] \in ArtistIds /\ discs'[d] # r /\ ArtistThere(discs'[d])
        BY <1>7, <2>2, <2>4, <4>1 DEF DiscThere, LibInv, KeysInv, LibraryTypeOK
      <4>2. \A a \in ArtistIds : ArtistThere(a) /\ a # r => a # 0 /\ names'[a] # Unnamed
        BY <2>9 DEF ArtistThere
      <4> QED
        BY <4>1, <4>2 DEF ArtistThere
    <3>3. ASSUME NEW x \in RowIds, TrackThere(x)'
          PROVE  KeysHold(tracks[x])' /\ discs'[tracks'[x].disc] = tracks'[x].artist
      <4>1. KeysHold(tracks[x]) /\ discs[tracks[x].disc] = tracks[x].artist
        BY <2>8, <3>3 DEF LibInv, KeysInv, LibraryTypeOK
      <4>2. tracks[x].artist \in ArtistIds /\ tracks[x].disc \in DiscIds
        BY <2>1, <4>1 DEF LibraryRow, KeysHold, ArtistThere, DiscThere
      <4>3. discs'[tracks[x].disc] = tracks'[x].artist
        BY <2>4, <2>7, <4>1, <4>2
      <4>4. tracks'[x].artist \in ArtistIds /\ tracks'[x].artist # r /\ ArtistThere(tracks'[x].artist)
        BY <1>7, <2>2, <2>7, <4>1, <4>2 DEF KeysHold
      <4>5. tracks'[x].artist # 0 /\ names'[tracks'[x].artist] # Unnamed
        BY <2>3, <4>4 DEF ArtistThere
      <4>6. tracks'[x].disc # NoDisc /\ discs'[tracks'[x].disc] # 0
        BY <2>7, <4>1, <4>3, <4>5 DEF KeysHold, DiscThere
      <4> QED
        BY <2>7, <4>3, <4>5, <4>6 DEF KeysHold, ArtistThere, DiscThere
    <3> QED
      BY <2>3, <3>1, <3>2, <3>3 DEF LibraryTypeOK, Names
  <2>12. KeysGrow
    BY <1>5, <2>1, <2>4, <2>9 DEF KeysGrow
  <2>13. \A x \in RowIds : TrackThere(x)' = TrackThere(x) /\ tracks'[x].path = tracks[x].path
    BY <2>7, <2>8
  <2>14. (LibraryTypeOK /\ KeysOnce)'
    BY <2>10, <2>11
  <2> QED
    BY <1>4, <1>5, <2>3, <2>4, <2>6, <2>12, <2>13, <2>14, MergeWrites
<1>8. merging[m].keep \in ArtistIds \cup {0} /\ merging[m].remove \in ArtistIds \cup {0}
  BY <1>1 DEF MergeState
<1> QED
  BY <1>6, <1>7, <1>8 DEF MergeCommit, MergeArtists

-----------------------------------------------------------------------------
(* The organizer moves a file, and writes its row or moves it back *)

LEMMA SlotMoves ==
  ASSUME LibInv, UNCHANGED <<names, discs, given, merging, undone>>,
         NEW h \in HandState, Becomes("slot", h), KindFits("slot", h), HandFits(h),
         h.kind \in {"organize", "merge"}, HandFiles(h)',
         shelf' \subseteq Paths, tracks' \in [RowIds -> LibraryRow], (LibraryTypeOK /\ KeysOnce)',
         \A r \in RowIds : TrackThere(r)' = TrackThere(r) /\ tracks'[r].path[1] = tracks[r].path[1],
         \A f : FileOk(f) => FileOk(f)',
         \A p \in Paths : p \in shelf => p \in shelf' \/ FileOk(p[1])',
         h.at = "moved" => Target(h.copy)' \in shelf'
  PROVE  LibInv'
<1>1. /\ hand' \in [Hands -> HandState] /\ hand'["slot"] = h /\ hand'["chain"] = hand["chain"]
      /\ hand \in [Hands -> HandState] /\ Hands = {"chain", "slot"}
  BY DEF Becomes, LibInv, LibTyped, HandsTyped, Hands
<1>2. LibTyped'
  BY HandGoes DEF LibInv, LibTyped, TablesTyped, Hands
<1>3. KeysInv'
  <2>1. \A g : HandFits(g)' <=> HandFits(g)
    BY DEF HandFits, Fits, ArtistThere
  <2>2. \A v \in Hands : HandFits(hand'[v])
    BY <1>1 DEF LibInv, KeysInv
  <2>3. \A m \in Merges : MergeFits(merging'[m])
    BY DEF LibInv, KeysInv
  <2> QED
    BY <2>1, <2>2, <2>3 DEF KeysInv
<1>4. FilesInv'
  <2>1. \A r \in RowIds : TrackThere(r)' => FileOk(tracks[r].path[1])'
    BY DEF LibInv, FilesInv
  <2>2. ASSUME NEW g \in HandState, g = hand["chain"] PROVE HandFiles(g)'
    <3>1. HandFiles(g) /\ g.rows = {} /\ g.at # "moved" /\ g.path \in Paths
      BY <1>1, <2>2 DEF LibInv, LibTyped, HandsTyped, FilesInv, HandState
    <3>2. g.at = "providers" => SameFile(g.row, g.copy)'
      BY <3>1 DEF HandFiles, SameFile
    <3>3. g.kind \in {"scan", "import"} /\ g.at \in ImportSteps => g.path \in shelf' \/ FileOk(g.path[1])'
      BY <3>1 DEF HandFiles
    <3> QED
      BY <3>1, <3>2, <3>3 DEF HandFiles
  <2>3. HandFiles(hand["chain"])'
    <3>1. PICK g \in HandState : g = hand["chain"]
      BY <1>1
    <3>2. HandFiles(g)' /\ hand'["chain"] = g
      BY <1>1, <2>2, <3>1
    <3> QED
      BY <3>2
  <2>4. HandFiles(hand["slot"])'
    BY <1>1
  <2>5. \A v \in Hands : HandFiles(hand[v])'
    BY <1>1, <2>3, <2>4
  <2>6. (hand["slot"].at = "moved" => Target(hand["slot"].copy) \in shelf)'
    BY <1>1
  <2> QED
    BY <2>1, <2>5, <2>6 DEF FilesInv
<1> QED
  BY <1>2, <1>3, <1>4 DEF LibInv

\* A file that is moved is on its way.
LEMMA MoveKeeps ==
  ASSUME LibInv, hand["slot"].kind \in {"organize", "merge"}, hand["slot"].at = "track",
         UNCHANGED <<Tables, merging, undone>>, NEW e \in hand["slot"].rows, Movable(e[2]),
         shelf' = (shelf \ {e[2].path}) \cup {Target(e[2])},
         Becomes("slot", [hand["slot"] EXCEPT !.at = "moved", !.row = e[1], !.copy = e[2],
                                              !.rows = hand["slot"].rows \ {e}])
  PROVE  LibInv'
<1>1. /\ hand["slot"] \in HandState /\ HandFits(hand["slot"]) /\ HandFiles(hand["slot"]) /\ "slot" \in Hands
      /\ hand["slot"].artist \in ArtistIds /\ hand \in [Hands -> HandState]
  BY OnOneHand DEF Hands, LibInv, LibTyped, HandsTyped
<1>2. UNCHANGED <<names, discs, tracks, given>>
  BY DEF Tables
<1>3. PICK r \in RowIds, copy \in LibraryRow : r = e[1] /\ copy = e[2]
  BY <1>1 DEF HandState
<1>4. PICK h \in HandState :
        /\ Becomes("slot", h) /\ h.at = "moved" /\ h.row = r /\ h.copy = copy /\ h.kind = hand["slot"].kind
        /\ h.rows = hand["slot"].rows \ {e} /\ h.page = hand["slot"].page /\ h.artist = hand["slot"].artist
  <2> DEFINE g == [hand["slot"] EXCEPT !.at = "moved", !.row = r, !.copy = copy,
                                       !.rows = hand["slot"].rows \ {e}]
  <2>1. /\ g \in HandState /\ g.at = "moved" /\ g.row = r /\ g.copy = copy /\ g.kind = hand["slot"].kind
        /\ g.rows = hand["slot"].rows \ {e} /\ g.page = hand["slot"].page /\ g.artist = hand["slot"].artist
    BY <1>1, <1>3 DEF HandState, HandSteps, ImportSteps
  <2>2. Becomes("slot", g)
    BY <1>3
  <2> HIDE DEF g
  <2> QED
    BY <2>1, <2>2
<1>5. hand'["slot"] = h
  BY <1>1, <1>4 DEF Becomes
<1>6. KindFits("slot", h) /\ h.kind \in {"organize", "merge"}
  BY <1>1, <1>4 DEF KindFits
<1>7. HandFits(h)
  BY <1>1, <1>3, <1>4 DEF HandFits
<1>8. \A q, c : SameFile(q, c)' = SameFile(q, c) /\ Entry(q, c)' = Entry(q, c)
  BY <1>2 DEF SameFile, Entry, TrackThere
<1>9. HandFiles(h)'
  <2>1. Entry(r, copy) /\ \A g \in h.rows : Entry(g[1], g[2]) /\ g[1] # r
    BY <1>1, <1>3, <1>4 DEF HandFiles
  <2>2. \A x, y \in h.rows : x[1] = y[1] => x = y
    BY <1>1, <1>4 DEF HandFiles
  <2>3. h.at = "moved" /\ h.kind \notin {"scan", "import"} /\ h.row = r /\ h.copy = copy
    BY <1>4
  <2> QED
    BY <1>8, <2>1, <2>2, <2>3 DEF HandFiles
<1>10. Target(copy) = <<copy.path[1], hand["slot"].page[hand["slot"].artist]>> /\ Target(copy)' = Target(copy)
  BY <1>4, <1>5 DEF Target
<1>11. Target(copy) \in Paths
  BY <1>1, <1>10 DEF HandState, LibraryRow, Paths, Folders, Names
<1>12. shelf' \subseteq Paths
  BY <1>3, <1>11 DEF LibInv, LibTyped, TablesTyped
<1>13. FileOk(copy.path[1])'
  BY <1>4, <1>5 DEF FileOk, Moving
<1>14. ASSUME NEW f, FileOk(f) PROVE FileOk(f)'
  <2>1. CASE f = copy.path[1]
    BY <1>13, <2>1
  <2>2. CASE f \in undone
    BY <2>2 DEF FileOk
  <2>3. ASSUME NEW q \in RowIds, FollowedBy(q, f), f # copy.path[1] PROVE FileOk(f)'
    BY <1>2, <1>3, <2>3 DEF FollowedBy, FileOk, TrackThere
  <2> QED
    BY <1>14, <2>1, <2>2, <2>3 DEF FileOk, Moving
<1>15. \A p \in Paths : p \in shelf => p \in shelf' \/ FileOk(p[1])'
  BY <1>3, <1>13
<1>16. (LibraryTypeOK /\ KeysOnce)' /\ tracks' \in [RowIds -> LibraryRow]
  BY <1>2 DEF LibInv, LibTyped, TablesTyped, KeysInv, LibraryTypeOK, KeysOnce, ArtistThere, DiscThere, TrackThere, KeysHold
<1>17. \A q \in RowIds : TrackThere(q)' = TrackThere(q) /\ tracks'[q].path[1] = tracks[q].path[1]
  BY <1>2 DEF TrackThere
<1>18. h.at = "moved" => Target(h.copy)' \in shelf'
  BY <1>3, <1>4, <1>10
<1> QED
  BY <1>2, <1>4, <1>6, <1>7, <1>9, <1>12, <1>14, <1>15, <1>16, <1>17, <1>18, SlotMoves

LEMMA RenameForKeeps ==
  ASSUME LibInv, RenameFor
  PROVE  LibInv'
<1>1. /\ hand["slot"].kind \in {"organize", "merge"} /\ hand["slot"].at = "track"
      /\ UNCHANGED <<Tables, merging, undone>> /\ hand["slot"].artist \in ArtistIds
      /\ hand["slot"] \in HandState /\ "slot" \in Hands
  BY SlotTyped DEF RenameFor, Hand, LibInv, LibTyped, HandsTyped
<1>2. ASSUME NEW e \in hand["slot"].rows, shelf' = shelf,
             Becomes("slot", [hand["slot"] EXCEPT !.rows = hand["slot"].rows \ {e}])
      PROVE  LibInv'
  <2> DEFINE h == [hand["slot"] EXCEPT !.rows = hand["slot"].rows \ {e}]
  <2>1. /\ h \in HandState /\ h.kind = hand["slot"].kind /\ h.at = "track"
        /\ h.rows = hand["slot"].rows \ {e} /\ h.copy = hand["slot"].copy /\ h.artist = hand["slot"].artist
    BY <1>1 DEF HandState
  <2>2. Becomes("slot", h)
    BY <1>2
  <2> HIDE DEF h
  <2> QED
    BY <1>1, <1>2, <2>1, <2>2, JobGoes
<1>3. CASE shelf' = shelf /\ GoesTo("slot", AfterTracks)
  <2> DEFINE h == [hand["slot"] EXCEPT !.at = AfterTracks]
  <2>1. AfterTracks \in {"done", "album"} /\ AfterTracks \in HandSteps
    BY DEF AfterTracks, HandSteps
  <2> HIDE DEF AfterTracks
  <2>2. /\ h \in HandState /\ h.kind = hand["slot"].kind /\ h.at = AfterTracks
        /\ h.rows = hand["slot"].rows /\ h.copy = hand["slot"].copy /\ h.artist = hand["slot"].artist
    BY <1>1, <2>1 DEF HandState
  <2>3. Becomes("slot", h)
    BY <1>3 DEF GoesTo
  <2> HIDE DEF h
  <2> QED
    BY <1>1, <1>3, <2>1, <2>2, <2>3, JobGoes
<1> QED
  BY <1>1, <1>2, <1>3, MoveKeeps DEF RenameFor

\* The row that cannot be written leaves the file where the row says.
LEMMA OrganizedKeeps ==
  ASSUME LibInv, Organized
  PROVE  LibInv'
<1>1. /\ hand["slot"].kind \in {"organize", "merge"} /\ hand["slot"].at = "moved"
      /\ UNCHANGED <<names, discs, given, merging, undone>>
      /\ hand["slot"] \in HandState /\ HandFits(hand["slot"]) /\ HandFiles(hand["slot"]) /\ "slot" \in Hands
      /\ hand["slot"].artist \in ArtistIds /\ hand \in [Hands -> HandState]
  BY OnOneHand DEF Organized, Hand, Hands, LibInv, LibTyped, HandsTyped
<1>2. PICK r \in RowIds, copy \in LibraryRow :
        r = hand["slot"].row /\ copy = hand["slot"].copy /\ Entry(r, copy) /\ Fits(copy.disc, copy.artist)
        /\ \A e \in hand["slot"].rows : e[1] # r
  BY <1>1 DEF HandFiles, HandFits, Entry, SameFile, HandState
<1>3. PICK h \in HandState :
        /\ Becomes("slot", h) /\ h.at = "track" /\ h.kind = hand["slot"].kind /\ h.copy = NoTrack
        /\ h.rows = hand["slot"].rows /\ h.artist = hand["slot"].artist
  <2> DEFINE g == [hand["slot"] EXCEPT !.at = "track", !.row = 0, !.copy = NoTrack]
  <2>1. /\ g \in HandState /\ g.at = "track" /\ g.kind = hand["slot"].kind /\ g.copy = NoTrack
        /\ g.rows = hand["slot"].rows /\ g.artist = hand["slot"].artist
    BY <1>1, ValuesTyped, ZenonT(40) DEF HandState, HandSteps
  <2>2. Becomes("slot", g)
    BY DEF Organized
  <2> HIDE DEF g
  <2> QED
    BY <2>1, <2>2
<1>4. KindFits("slot", h) /\ h.kind \in {"organize", "merge"} /\ h.at # "moved"
  BY <1>1, <1>3 DEF KindFits
<1>5. HandFits(h)
  BY <1>1, <1>3, NothingFits DEF HandFits, LibInv
<1>6. PICK there \in Paths : there = Target(copy) /\ there[1] = copy.path[1]
  <2>1. Target(copy) \in Paths
    BY <1>1 DEF Target, HandState, LibraryRow, Paths, Folders, Names
  <2>2. Target(copy)[1] = copy.path[1]
    BY DEF Target
  <2> QED
    BY <2>1, <2>2
<1>7. there \in shelf
  BY <1>1, <1>2, <1>6 DEF LibInv, FilesInv
<1>8. \A f : Moving(f) <=> f = copy.path[1]
  BY <1>1, <1>2 DEF Moving
<1>9. /\ tracks \in [RowIds -> LibraryRow] /\ TrackThere(r) /\ tracks[r].path[1] = copy.path[1]
      /\ given.row \in Nat /\ r \in Nat /\ copy.path \in Paths /\ shelf \subseteq Paths
  BY <1>2, IdsTyped DEF LibInv, LibTyped, TablesTyped, Entry, SameFile, LibraryRow
<1>10. CASE KeysHold(copy) /\ tracks' = [tracks EXCEPT ![r] = [copy EXCEPT !.path = there]] /\ shelf' = shelf
  <2>1. PICK row \in LibraryRow : row = [copy EXCEPT !.path = there] /\ row.path = there /\ row.disc = copy.disc
                                  /\ row.artist = copy.artist
    <3> DEFINE new == [copy EXCEPT !.path = there]
    <3>1. new \in LibraryRow /\ new.path = there /\ new.disc = copy.disc /\ new.artist = copy.artist
      BY DEF LibraryRow
    <3> QED
      BY <3>1
  <2>2. tracks' \in [RowIds -> LibraryRow] /\ tracks'[r] = row /\ \A q \in RowIds : q # r => tracks'[q] = tracks[q]
    BY <1>9, <1>10, <2>1
  <2>3. KeysHold(row) /\ row # NoTrack /\ discs[row.disc] = row.artist
    <3>1. KeysHold(row)
      BY <1>10, <2>1 DEF KeysHold
    <3> QED
      BY <1>2, <2>1, <3>1, RowsThere DEF KeysHold, Fits
  <2>4. \A q \in RowIds : TrackThere(q)' <=> TrackThere(q)
    BY <1>9, <2>2, <2>3 DEF TrackThere
  <2>5. \A q \in RowIds : tracks'[q].path[1] = tracks[q].path[1]
    BY <1>6, <1>9, <2>1, <2>2
  <2>6. KeysOnce'
    <3>1. r <= given.row
      BY <1>9 DEF LibInv, KeysInv, KeysOnce, TrackThere
    <3>2. \A q \in RowIds : q > given.row => tracks'[q] = NoTrack
      BY <1>9, <2>2, <3>1 DEF LibInv, KeysInv, KeysOnce
    <3> QED
      BY <1>1, <3>2 DEF LibInv, KeysInv, KeysOnce
  <2>7. LibraryTypeOK'
    <3>1. \A q \in RowIds : TrackThere(q)' => KeysHold(tracks'[q]) /\ discs[tracks'[q].disc] = tracks'[q].artist
      BY <2>2, <2>3, <2>4 DEF LibInv, KeysInv, LibraryTypeOK
    <3>2. \A q \in RowIds : TrackThere(q)' => KeysHold(tracks[q])' /\ discs'[tracks'[q].disc] = tracks'[q].artist
      BY <1>1, <3>1 DEF KeysHold, ArtistThere, DiscThere
    <3> QED
      BY <1>1, <3>2 DEF LibInv, KeysInv, LibraryTypeOK, ArtistThere, DiscThere
  <2>8. FileOk(copy.path[1])'
    BY <1>6, <1>7, <1>9, <1>10, <2>1, <2>2, <2>4 DEF FileOk, FollowedBy
  <2>9. ASSUME NEW f, FileOk(f) PROVE FileOk(f)'
    <3>1. CASE f = copy.path[1]
      BY <2>8, <3>1
    <3>2. CASE f \in undone
      BY <1>1, <3>2 DEF FileOk
    <3>3. ASSUME NEW q \in RowIds, FollowedBy(q, f), f # copy.path[1] PROVE FileOk(f)'
      BY <1>9, <1>10, <2>2, <2>4, <3>3 DEF FollowedBy, FileOk
    <3> QED
      BY <1>8, <2>9, <3>1, <3>2, <3>3 DEF FileOk
  <2>10. HandFiles(h)'
    <3>1. ASSUME NEW e \in h.rows PROVE Entry(e[1], e[2])'
      <4>1. Entry(e[1], e[2]) /\ e[1] # r
        BY <1>1, <1>2, <1>3 DEF HandFiles
      <4> QED
        BY <1>1, <2>2, <2>4, <4>1 DEF Entry, SameFile
    <3>2. \A x, y \in h.rows : x[1] = y[1] => x = y
      BY <1>1, <1>3 DEF HandFiles
    <3> QED
      BY <1>3, <1>4, <3>1, <3>2 DEF HandFiles
  <2>11. shelf' \subseteq Paths /\ \A p \in Paths : p \in shelf => p \in shelf'
    BY <1>9, <1>10
  <2>12. \A q \in RowIds : TrackThere(q)' = TrackThere(q) /\ tracks'[q].path[1] = tracks[q].path[1]
    BY <1>9, <2>2, <2>3, <2>5 DEF TrackThere
  <2>13. (LibraryTypeOK /\ KeysOnce)'
    BY <2>6, <2>7
  <2> QED
    BY <1>1, <1>3, <1>4, <1>5, <2>2, <2>9, <2>10, <2>11, <2>12, <2>13, SlotMoves
<1>11. CASE tracks' = tracks /\ shelf' = (shelf \ {there}) \cup {copy.path}
  <2>1. \A q \in RowIds : TrackThere(q)' = TrackThere(q) /\ tracks'[q].path[1] = tracks[q].path[1]
    BY <1>11 DEF TrackThere
  <2>2. FileOk(copy.path[1])'
    BY <1>1, <1>2, <1>9, <1>11, <2>1 DEF Entry, FileOk, FollowedBy
  <2>3. ASSUME NEW f, FileOk(f) PROVE FileOk(f)'
    <3>1. CASE f = copy.path[1]
      BY <2>2, <3>1
    <3>2. CASE f \in undone
      BY <1>1, <3>2 DEF FileOk
    <3>3. ASSUME NEW q \in RowIds, FollowedBy(q, f), f # copy.path[1] PROVE FileOk(f)'
      BY <1>6, <1>11, <2>1, <3>3 DEF FollowedBy, FileOk
    <3> QED
      BY <1>8, <2>3, <3>1, <3>2, <3>3 DEF FileOk
  <2>4. HandFiles(h)'
    <3>1. \A e \in h.rows : Entry(e[1], e[2])'
      BY <1>1, <1>3, <1>11 DEF HandFiles, Entry, SameFile, TrackThere
    <3>2. \A x, y \in h.rows : x[1] = y[1] => x = y
      BY <1>1, <1>3 DEF HandFiles
    <3> QED
      BY <1>3, <1>4, <3>1, <3>2 DEF HandFiles
  <2>5. shelf' \subseteq Paths /\ \A p \in Paths : p \in shelf => p \in shelf' \/ FileOk(p[1])'
    BY <1>6, <1>9, <1>11, <2>2
  <2>6. tracks' \in [RowIds -> LibraryRow] /\ (LibraryTypeOK /\ KeysOnce)'
    BY <1>1, <1>9, <1>11 DEF LibInv, KeysInv, LibraryTypeOK, KeysOnce, ArtistThere, DiscThere, TrackThere, KeysHold
  <2> QED
    BY <1>1, <1>3, <1>4, <1>5, <2>1, <2>3, <2>4, <2>5, <2>6, SlotMoves
<1> QED
  BY <1>2, <1>6, <1>10, <1>11 DEF Organized, moveFileBack

-----------------------------------------------------------------------------
(* The library's behaviours *)

LEMMA LibInvInit == LibraryInit => LibInv
<1> SUFFICES ASSUME LibraryInit PROVE LibInv
  OBVIOUS
<1>1. LibTyped
  BY LibTypedInit
<1>2. \A w \in Hands : hand[w] = Idle
  BY DEF LibraryInit
<1>3. \A w \in Hands : HandFits(hand[w]) /\ HandFiles(hand[w])
  <2>1. Idle.at = "off" /\ Idle.rows = {} /\ Idle.copy = NoTrack /\ Idle.kind = "off"
    BY ValuesTyped
  <2> QED
    BY <1>1, <1>2, <2>1, NothingFits DEF HandFits, HandFiles
<1>4. \A m \in Merges : MergeFits(merging[m])
  BY DEF LibraryInit, NoMerge, MergeFits
<1>5. hand["slot"].at # "moved"
  BY <1>2, ValuesTyped DEF Hands
<1>6. CASE /\ names = [a \in ArtistIds |-> Unnamed] /\ discs = [d \in DiscIds |-> 0]
           /\ tracks = [r \in RowIds |-> NoTrack]
  <2>1. (\A a \in ArtistIds : ~ArtistThere(a)) /\ (\A d \in DiscIds : ~DiscThere(d))
        /\ (\A r \in RowIds : ~TrackThere(r))
    BY <1>6 DEF ArtistThere, DiscThere, TrackThere
  <2>2. LibraryTypeOK
    BY <1>6, <2>1 DEF LibraryTypeOK
  <2>3. KeysOnce
    BY <1>6 DEF KeysOnce
  <2> QED
    BY <1>1, <1>3, <1>4, <1>5, <2>1, <2>2, <2>3 DEF LibInv, KeysInv, FilesInv
<1>7. CASE /\ names = FirstArtists(2) /\ discs = [d \in DiscIds |-> IF d <= 2 THEN d ELSE 0]
           /\ tracks = [r \in RowIds |-> CASE r = 1 -> [disc |-> 1, artist |-> 1, path |-> <<"e", "A">>]
                                           [] r = 2 -> [disc |-> 2, artist |-> 2, path |-> <<"f", "a">>]
                                           [] OTHER -> NoTrack]
           /\ given = [artist |-> 2, disc |-> 2, row |-> 2] /\ shelf = {<<"e", "A">>, <<"f", "a">>}
  <2>1. /\ names[1] = "A" /\ names[2] = "a" /\ \A a \in ArtistIds : a \notin {1, 2} => names[a] = Unnamed
        /\ "A" # Unnamed /\ "a" # Unnamed /\ "A" # "a"
    BY <1>7, IdsTyped, LibraryAssumption DEF FirstArtists
  <2>2. /\ discs[1] = 1 /\ discs[2] = 2 /\ \A d \in DiscIds : d \notin {1, 2} => discs[d] = 0
    <3>1. \A d \in DiscIds : d \in Nat /\ (d <= 2 => d \in {1, 2})
      BY IdsTyped
    <3> QED
      BY <1>7, <3>1, IdsTyped
  <2>3. /\ tracks[1].path = <<"e", "A">> /\ tracks[1].disc = 1 /\ tracks[1].artist = 1
        /\ tracks[2].path = <<"f", "a">> /\ tracks[2].disc = 2 /\ tracks[2].artist = 2
        /\ \A r \in RowIds : r \notin {1, 2} => tracks[r] = NoTrack
    BY <1>7, IdsTyped
  <2>4. \A r \in RowIds : TrackThere(r) => r \in {1, 2}
    BY <2>3 DEF TrackThere
  <2>5. /\ ArtistThere(1) /\ ArtistThere(2) /\ DiscThere(1) /\ DiscThere(2)
        /\ \A a \in ArtistIds : ArtistThere(a) => a \in {1, 2}
        /\ \A d \in DiscIds : DiscThere(d) => d \in {1, 2}
    BY <2>1, <2>2 DEF ArtistThere, DiscThere, NoDisc
  <2>6. LibraryTypeOK
    <3>1. names \in [ArtistIds -> Spellings \cup {Unnamed}]
      BY <1>1 DEF LibTyped, TablesTyped, Names
    <3>2. \A a, b \in ArtistIds : ArtistThere(a) /\ names[a] = names[b] => a = b
      BY <2>1, <2>5
    <3>3. \A d \in DiscIds : DiscThere(d) => ArtistThere(discs[d])
      BY <2>2, <2>5
    <3>4. \A r \in RowIds : TrackThere(r) => KeysHold(tracks[r]) /\ discs[tracks[r].disc] = tracks[r].artist
      BY <2>2, <2>3, <2>4, <2>5 DEF KeysHold
    <3> QED
      BY <3>1, <3>2, <3>3, <3>4 DEF LibraryTypeOK
  <2>7. KeysOnce
    BY <1>7, <2>1, <2>2, <2>3, IdsTyped DEF KeysOnce
  <2>8. ASSUME NEW r \in RowIds, TrackThere(r) PROVE FileOk(tracks[r].path[1])
    <3>1. tracks[r].path \in shelf
      BY <1>7, <2>3, <2>4, <2>8
    <3> QED
      BY <2>8, <3>1 DEF FileOk, FollowedBy
  <2> QED
    BY <1>1, <1>3, <1>4, <1>5, <2>6, <2>7, <2>8 DEF LibInv, KeysInv, FilesInv
<1> QED
  BY <1>6, <1>7 DEF LibraryInit

LEMMA LibInvStep ==
  ASSUME LibInv, LibraryNext
  PROVE  LibInv'
<1>1. ASSUME NEW w \in Hands, GetTrackByFilePath(w) \/ getOrCreateArtist(w) \/ UpsertArtist(w) \/ getOrCreateAlbum(w)
      PROVE  LibInv'
  BY <1>1, GetTrackByFilePathKeeps, getOrCreateArtistKeeps, UpsertArtistKeeps, getOrCreateAlbumKeeps
<1>2. ASSUME NEW w \in Hands,
             \/ UpsertAlbum(w) \/ UpsertTrack(w)
             \/ EnrichRead(w) \/ EnrichWriteTrack(w) \/ EnrichWriteAlbum(w)
      PROVE  LibInv'
  BY <1>2, UpsertAlbumKeeps, UpsertTrackKeeps, EnrichReadKeeps, EnrichWriteTrackKeeps, EnrichWriteAlbumKeeps
<1>3. CASE StartScan \/ StartOrganize \/ StartEnrichJob \/ JobEnds
  BY <1>3, JobStarts
<1>4. CASE RenameDownload \/ ScanPathWithProgress \/ GetAlbumsByArtist \/ GetTracksByAlbum
  BY <1>4, RenameDownloadKeeps, ScanPathKeeps, GetAlbumsKeeps, GetTracksKeeps
<1>5. CASE RenameFor \/ Organized
  BY <1>5, RenameForKeeps, OrganizedKeeps
<1>6. ASSUME NEW m \in Merges,
             MergeRead(m) \/ MergeCommit(m) \/ MergeCanonical(m) \/ RenameArtist(m) \/ MergeOrganize(m)
      PROVE  LibInv'
  BY <1>6, MergeReadKeeps, MergeCommitKeeps, MergeCanonicalKeeps, RenameArtistKeeps, MergeOrganizeKeeps
<1> QED
  BY <1>1, <1>2, <1>3, <1>4, <1>5, <1>6 DEF LibraryNext

LEMMA LibInvStands ==
  ASSUME LibInv, UNCHANGED libVars
  PROVE  LibInv'
<1>1. UNCHANGED <<Tables, shelf, undone>> /\ hand' = hand /\ merging' = merging
  BY DEF libVars, Tables
<1>2. PICK g \in HandState : Becomes("chain", g) /\ KindFits("chain", g) /\ HandFits(g) /\ HandFiles(g)
                              /\ g = hand["chain"] /\ g.at # "moved"
  BY <1>1, HandStays
<1>3. merging' \in [Merges -> MergeState]
  BY <1>1 DEF LibInv, LibTyped
<1> QED
  BY <1>1, <1>2, <1>3, QuietKeeps DEF Hands

LEMMA LibraryScenes ==
  ASSUME [ProvidersNext]_<<scene, providers>>
  PROVE  [LibraryNext]_libVars /\ [EnrichmentNext]_enrichmentVars
<1>1. CASE UNCHANGED <<scene, providers>>
  BY <1>1 DEF providers
<1>2. CASE ProvidersNext
  BY <1>2 DEF ProvidersNext, CooldownScene, RateScene, TokenScene, StreamScene, SlskdScene, SlskdsearchScene,
    AlbumimportScene, DeezerloginScene, DeezerScene, EnrichmentScene, LibraryScene
<1> QED
  BY <1>1, <1>2

LEMMA LibInvHolds == ProvidersSpec => []LibInv
<1>1. ProvidersInit => LibInv
  BY LibInvInit DEF ProvidersInit
<1>2. LibInv /\ [ProvidersNext]_<<scene, providers>> => LibInv'
  BY LibraryScenes, LibInvStep, LibInvStands
<1> QED
  BY <1>1, <1>2, PTL DEF ProvidersSpec

\* Keys point at rows and a track and its album have one artist, whoever
\* imports, enriches, organizes or merges beside one another.
THEOREM LibraryKeysHold == ProvidersSpec => []LibraryTypeOK
<1>1. LibInv => LibraryTypeOK
  BY DEF LibInv, KeysInv
<1> QED
  BY <1>1, LibInvHolds, PTL

\* A file that has rows has one that names where it is, but on its way and
\* where an enrichment wrote an older path back.
THEOREM FilesAlwaysFollowed == ProvidersSpec => []FilesFollowed
<1>1. LibInv => FilesFollowed
  BY DEF LibInv, FilesInv, FileOk, FollowedBy, FilesFollowed
<1> QED
  BY <1>1, LibInvHolds, PTL

-----------------------------------------------------------------------------
(* Who has which album, and how the copies stand to the rows *)

WorkSteps == {"provider", "title", "cover", "meta", "image", "thumb", "track", "album"}
TrackValues == [TrackFields -> Nat]
AlbumValues == [AlbumFields -> Nat]
AtNext == [at : {"next"}, todo : Seq(TracksHeard), late : BOOLEAN]
AtWork ==
  [at : WorkSteps, todo : Seq(TracksHeard), late : BOOLEAN, track : TracksHeard, album : AlbumsHeard,
   trackCopy : TrackValues, albumCopy : AlbumValues, trackMod : BOOLEAN, albumMod : BOOLEAN,
   prov : Nat, asked : BOOLEAN, skipImage : BOOLEAN, only : BOOLEAN]

EnrichTyped ==
  /\ trackRow \in [TracksHeard -> TrackValues] /\ albumFields \in [AlbumsHeard -> AlbumValues]
  /\ groups \in Seq(Seq(TracksHeard))
  /\ enricher \in [Enrichers -> {Free} \cup AtNext \cup AtWork]

Touches(T) == {a \in AlbumsHeard : ToSet(AlbumTracks[a]) \cap T # {}}
TodoOf(e) == IF e = Free THEN {} ELSE ToSet(e.todo)

\* No album is two workers', nor one's and still waiting.
OneWorkers ==
  /\ \A v, w \in BulkWorkers : v # w => Touches(TodoOf(enricher[v])) \cap Touches(TodoOf(enricher[w])) = {}
  /\ \A w \in BulkWorkers : \A i \in DOMAIN groups :
       Touches(TodoOf(enricher[w])) \cap Touches(ToSet(groups[i])) = {}
  /\ \A i, j \in DOMAIN groups : i # j => Touches(ToSet(groups[i])) \cap Touches(ToSet(groups[j])) = {}

WorkFits(e) == e.track \in TodoOf(e) /\ e.track \in ToSet(AlbumTracks[e.album])

Grows(x, y) == \A f \in DOMAIN x : x[f] \in {0, y[f]}
\* A copy lacks nothing its row has, but where the chain was about too.
CopyFits(e) ==
  e.album \notin mixed => Grows(albumFields[e.album], e.albumCopy) /\ Grows(trackRow[e.track], e.trackCopy)

EnrichInv ==
  /\ EnrichTyped /\ OneWorkers
  /\ \A w \in Enrichers : enricher[w] \in AtWork => WorkFits(enricher[w]) /\ CopyFits(enricher[w])
  /\ \A w \in BulkWorkers :
       enricher[w] \in AtWork /\ enricher[Chain] \in AtWork /\ enricher[w].album = enricher[Chain].album
         => enricher[w].album \in mixed

LEMMA EnrichersTyped ==
  ASSUME EnrichTyped, NEW w \in Enrichers
  PROVE  /\ enricher[w] \in {Free} \cup AtNext \cup AtWork
         /\ enricher[w].at \in WorkSteps => enricher[w] \in AtWork
         /\ enricher[w].at = "next" => enricher[w] \in AtNext /\ enricher[w] # Free
  BY DEF EnrichTyped, Free, AtNext, AtWork, WorkSteps

LEMMA AlbumsApart ==
  ASSUME NEW a \in AlbumsHeard, NEW b \in AlbumsHeard, NEW t,
         t \in ToSet(AlbumTracks[a]), t \in ToSet(AlbumTracks[b])
  PROVE  a = b
  BY EnrichmentAssumption

LEMMA EnrichStands ==
  ASSUME EnrichInv, UNCHANGED <<trackRow, albumFields, groups, enricher, mixed>>
  PROVE  EnrichInv'
  BY DEF EnrichInv, EnrichTyped, OneWorkers, CopyFits

\* One worker, or the chain, goes on to e.
LEMMA EnricherGoes ==
  ASSUME EnrichInv, NEW w \in Enrichers, NEW e \in {Free} \cup AtNext \cup AtWork,
         enricher' = [enricher EXCEPT ![w] = e], groups' = groups, mixed \subseteq mixed',
         trackRow' \in [TracksHeard -> TrackValues], albumFields' \in [AlbumsHeard -> AlbumValues],
         w = Chain \/ TodoOf(e) \subseteq TodoOf(enricher[w]),
         e \in AtWork => WorkFits(e) /\ CopyFits(e)',
         \A o \in Others(w) : e \in AtWork /\ enricher[o] \in AtWork /\ enricher[o].album = e.album
                                => e.album \in mixed',
         \A v \in Enrichers, g \in AtWork : v # w /\ g = enricher[v] => CopyFits(g)'
  PROVE  EnrichInv'
<1>1. /\ enricher' \in [Enrichers -> {Free} \cup AtNext \cup AtWork] /\ enricher'[w] = e
      /\ \A v \in Enrichers : v # w => enricher'[v] = enricher[v]
  BY DEF EnrichInv, EnrichTyped
<1>2. EnrichTyped'
  BY <1>1 DEF EnrichInv, EnrichTyped
<1>3. \A v \in BulkWorkers : v \in Enrichers /\ v # Chain
  BY EnrichmentAssumption DEF Enrichers
<1>4. OneWorkers'
  <2>1. \A v \in BulkWorkers : Touches(TodoOf(enricher'[v])) \subseteq Touches(TodoOf(enricher[v]))
    <3>1. \A v \in BulkWorkers : TodoOf(enricher'[v]) \subseteq TodoOf(enricher[v])
      BY <1>1, <1>3
    <3> QED
      BY <3>1 DEF Touches
  <2>2. \A v, u \in BulkWorkers : v # u => Touches(TodoOf(enricher[v])) \cap Touches(TodoOf(enricher[u])) = {}
    BY DEF EnrichInv, OneWorkers
  <2>3. \A v \in BulkWorkers : \A i \in DOMAIN groups :
          Touches(TodoOf(enricher[v])) \cap Touches(ToSet(groups[i])) = {}
    BY DEF EnrichInv, OneWorkers
  <2>4. \A v, u \in BulkWorkers : v # u => Touches(TodoOf(enricher'[v])) \cap Touches(TodoOf(enricher'[u])) = {}
    BY <2>1, <2>2
  <2>5. \A v \in BulkWorkers : \A i \in DOMAIN groups :
          Touches(TodoOf(enricher'[v])) \cap Touches(ToSet(groups[i])) = {}
    BY <2>1, <2>3
  <2> QED
    BY <2>4, <2>5 DEF EnrichInv, OneWorkers
<1>5. ASSUME NEW v \in Enrichers, NEW g \in AtWork, g = enricher'[v]
      PROVE  WorkFits(g) /\ CopyFits(g)'
  BY <1>1, <1>5 DEF EnrichInv
<1>6. \A v \in Enrichers : enricher'[v] \in AtWork => WorkFits(enricher'[v]) /\ CopyFits(enricher[v])'
  <2>1. ASSUME NEW v \in Enrichers, enricher'[v] \in AtWork
        PROVE  WorkFits(enricher'[v]) /\ CopyFits(enricher[v])'
    <3>1. PICK g \in AtWork : g = enricher'[v]
      BY <2>1
    <3> QED
      BY <1>5, <3>1
  <2> QED
    BY <2>1
<1>7. ASSUME NEW v \in BulkWorkers, enricher'[v] \in AtWork, enricher'[Chain] \in AtWork,
             enricher'[v].album = enricher'[Chain].album
      PROVE  enricher'[v].album \in mixed'
  <2>1. Chain \in Enrichers /\ v \in Enrichers /\ v # Chain
    BY <1>3 DEF Enrichers
  <2>2. CASE w = v
    BY <1>1, <1>7, <2>1, <2>2 DEF Others
  <2>3. CASE w = Chain
    BY <1>1, <1>7, <2>1, <2>3 DEF Others
  <2>4. CASE w # v /\ w # Chain
    BY <1>1, <1>7, <2>1, <2>4 DEF EnrichInv
  <2> QED
    BY <2>2, <2>3, <2>4
<1> QED
  BY <1>2, <1>4, <1>6, <1>7 DEF EnrichInv

\* At work on a track, nothing is written and the copies only grow.
LEMMA WorkGoes ==
  ASSUME EnrichInv, NEW w \in Enrichers, NEW g \in AtWork, g = enricher[w], NEW e \in AtWork,
         enricher' = [enricher EXCEPT ![w] = e], UNCHANGED <<trackRow, albumFields, groups, mixed>>,
         e.todo = g.todo, e.track = g.track, e.album = g.album,
         Grows(g.albumCopy, e.albumCopy), Grows(g.trackCopy, e.trackCopy)
  PROVE  EnrichInv'
<1>1. WorkFits(g) /\ CopyFits(g)
  BY DEF EnrichInv
<1>2. g # Free /\ e # Free
  BY DEF AtWork, Free, WorkSteps
<1>3. TodoOf(e) = TodoOf(g) /\ WorkFits(e)
  BY <1>1, <1>2 DEF TodoOf, WorkFits
<1>4. /\ trackRow[e.track] \in TrackValues /\ albumFields[e.album] \in AlbumValues
      /\ g.albumCopy \in AlbumValues /\ g.trackCopy \in TrackValues
  BY DEF AtWork, EnrichInv, EnrichTyped
<1>5. CopyFits(e)
  BY <1>1, <1>4 DEF CopyFits, Grows, TrackValues, AlbumValues
<1>6. \A h : CopyFits(h)' <=> CopyFits(h)
  BY DEF CopyFits
<1>7. \A o \in Others(w) : enricher[o] \in AtWork /\ enricher[o].album = e.album => e.album \in mixed
  BY DEF EnrichInv, Others, Enrichers
<1>8. \A v \in Enrichers, h \in AtWork : h = enricher[v] => CopyFits(h)
  BY DEF EnrichInv
<1> QED
  BY <1>3, <1>5, <1>6, <1>7, <1>8, EnricherGoes DEF EnrichInv, EnrichTyped

LEMMA GrowsItself ==
  ASSUME NEW x
  PROVE  Grows(x, x)
  BY DEF Grows

\* From one question to the next.
LEMMA WorkTurns ==
  ASSUME EnrichInv, NEW w \in Enrichers, NEW g \in AtWork, g = enricher[w],
         UNCHANGED <<trackRow, albumFields, groups, mixed>>,
         NEW at \in WorkSteps, NEW late \in BOOLEAN, NEW prov \in Nat, NEW asked \in BOOLEAN,
         enricher' = [enricher EXCEPT ![w] = [g EXCEPT !.at = at, !.late = late, !.prov = prov, !.asked = asked]]
  PROVE  EnrichInv'
<1> DEFINE e == [g EXCEPT !.at = at, !.late = late, !.prov = prov, !.asked = asked]
<1>1. /\ e \in AtWork /\ e.todo = g.todo /\ e.track = g.track /\ e.album = g.album
      /\ e.albumCopy = g.albumCopy /\ e.trackCopy = g.trackCopy
  BY DEF AtWork
<1>2. enricher' = [enricher EXCEPT ![w] = e]
  OBVIOUS
<1> HIDE DEF e
<1>3. Grows(g.albumCopy, e.albumCopy) /\ Grows(g.trackCopy, e.trackCopy)
  BY <1>1, GrowsItself
<1> QED
  BY <1>1, <1>2, <1>3, WorkGoes

LEMMA TailOf ==
  ASSUME NEW S, NEW s \in Seq(S), s # <<>>
  PROVE  /\ Head(s) \in S /\ Tail(s) \in Seq(S) /\ Head(s) \in ToSet(s) /\ ToSet(Tail(s)) \subseteq ToSet(s)
         /\ Len(s) \in Nat /\ Len(s) > 0
         /\ \A i \in DOMAIN Tail(s) : i + 1 \in DOMAIN s /\ Tail(s)[i] = s[i + 1]
<1>1. Len(s) \in Nat /\ Len(s) > 0 /\ DOMAIN s = 1 .. Len(s)
  OBVIOUS
<1>2. /\ Head(s) \in S /\ Tail(s) \in Seq(S) /\ Len(Tail(s)) = Len(s) - 1 /\ Head(s) = s[1]
      /\ \A i \in 1 .. Len(Tail(s)) : Tail(s)[i] = s[i + 1]
  BY HeadTailProperties
<1>3. DOMAIN Tail(s) = 1 .. Len(Tail(s))
  BY <1>2
<1>4. \A i \in DOMAIN Tail(s) : i + 1 \in DOMAIN s /\ Tail(s)[i] = s[i + 1]
  BY <1>1, <1>2, <1>3
<1>5. Head(s) \in ToSet(s)
  BY <1>1, <1>2 DEF ToSet
<1>6. ToSet(Tail(s)) \subseteq ToSet(s)
  BY <1>4 DEF ToSet
<1> QED
  BY <1>1, <1>2, <1>4, <1>5, <1>6

\* A track is done, and others' copies are as good as they were.
LEMMA TrackEnds ==
  ASSUME EnrichInv, NEW w \in Enrichers, TrackDone(w), groups' = groups, mixed \subseteq mixed',
         \/ enricher[w].at = "next" /\ enricher[w].todo # <<>>
         \/ enricher[w] \in AtWork,
         trackRow' \in [TracksHeard -> TrackValues], albumFields' \in [AlbumsHeard -> AlbumValues],
         \A v \in Enrichers, g \in AtWork : v # w /\ g = enricher[v] => CopyFits(g)'
  PROVE  EnrichInv'
<1>1. enricher[w].todo \in Seq(TracksHeard) /\ enricher[w] # Free
  BY EnrichersTyped DEF EnrichInv, AtNext, AtWork, Free, WorkSteps
<1>2. enricher[w].todo # <<>>
  <2>1. CASE enricher[w] \in AtWork
    <3>1. enricher[w].track \in ToSet(enricher[w].todo)
      BY <1>1, <2>1 DEF EnrichInv, WorkFits, TodoOf
    <3> QED
      BY <3>1 DEF ToSet
  <2> QED
    BY <2>1
<1>3. PICK e \in {Free} \cup AtNext : enricher' = [enricher EXCEPT ![w] = e] /\ TodoOf(e) \subseteq TodoOf(enricher[w])
  <2>1. CASE w = Chain
    <3>1. enricher' = [enricher EXCEPT ![w] = Free] /\ TodoOf(Free) = {}
      BY <2>1 DEF TrackDone, TodoOf
    <3> QED
      BY <3>1
  <2>2. CASE w # Chain
    <3> DEFINE e == [at |-> "next", todo |-> Tail(enricher[w].todo), late |-> FALSE]
    <3>1. e \in AtNext /\ e.todo = Tail(enricher[w].todo) /\ e # Free
      BY <1>1, <1>2, TailOf DEF AtNext, Free
    <3>2. enricher' = [enricher EXCEPT ![w] = e]
      BY <2>2 DEF TrackDone
    <3> HIDE DEF e
    <3>3. TodoOf(e) \subseteq TodoOf(enricher[w])
      BY <1>1, <1>2, <3>1, TailOf DEF TodoOf
    <3> QED
      BY <3>1, <3>2, <3>3
  <2> QED
    BY <2>1, <2>2
<1>4. e \notin AtWork
  BY DEF AtWork, AtNext, Free, WorkSteps
<1> QED
  BY <1>3, <1>4, EnricherGoes

\* The copies of those who write nothing are as good as they were.
LEMMA SameCopies ==
  ASSUME EnrichInv, UNCHANGED <<trackRow, albumFields>>, mixed \subseteq mixed'
  PROVE  /\ trackRow' \in [TracksHeard -> TrackValues] /\ albumFields' \in [AlbumsHeard -> AlbumValues]
         /\ \A v \in Enrichers, g \in AtWork : g = enricher[v] => CopyFits(g)'
<1>1. \A v \in Enrichers, g \in AtWork : g = enricher[v] => CopyFits(g)
  BY DEF EnrichInv
<1> QED
  BY <1>1 DEF EnrichInv, EnrichTyped, CopyFits

\* Each album's tracks wait once.
LEMMA GroupsInOrder ==
  \E n \in Nat :
    /\ groupTracksByAlbum \in [1 .. n -> {AlbumTracks[a] : a \in AlbumsHeard}]
    /\ \A i, j \in 1 .. n : groupTracksByAlbum[i] = groupTracksByAlbum[j] => i = j
<1> DEFINE S == {AlbumTracks[a] : a \in AlbumsHeard}
<1>1. IsFiniteSet(S)
  <2> DEFINE f == [a \in AlbumsHeard |-> AlbumTracks[a]]
  <2>1. f \in Surjection(AlbumsHeard, S)
    BY DEF Surjection
  <2> HIDE DEF f, S
  <2> QED
    BY <2>1, FS_Surjection, EnrichmentAssumption
<1>2. PICK n \in Nat : n = Cardinality(S) /\ Bijection(1 .. n, S) # {}
  <2> HIDE DEF S
  <2> QED
    BY <1>1, FS_CardinalityType DEF ExistsBijection
<1>3. /\ groupTracksByAlbum \in [1 .. n -> S] /\ \A i, j \in 1 .. n : groupTracksByAlbum[i] = groupTracksByAlbum[j] => i = j
  <2>1. groupTracksByAlbum = SetToSeq(S)
    BY DEF groupTracksByAlbum
  <2> HIDE DEF S
  <2>2. \E f \in [1 .. n -> S] : IsInjective(f)
    BY <1>2 DEF Bijection, Injection
  <2>3. groupTracksByAlbum \in [1 .. n -> S] /\ IsInjective(groupTracksByAlbum)
    BY <1>2, <2>1, <2>2 DEF SetToSeq
  <2> QED
    BY <2>3 DEF IsInjective
<1> QED
  BY <1>2, <1>3

LEMMA EnrichAllKeeps ==
  ASSUME EnrichInv, EnrichAll
  PROVE  EnrichInv'
<1> DEFINE S == {AlbumTracks[a] : a \in AlbumsHeard}
<1>3. PICK n \in Nat :
        groups' \in [1 .. n -> S] /\ \A i, j \in 1 .. n : groups'[i] = groups'[j] => i = j
  <2>1. groups' = groupTracksByAlbum
    BY DEF EnrichAll
  <2> QED
    BY <2>1, GroupsInOrder
<1>4. groups' \in Seq(Seq(TracksHeard))
  BY <1>3, EnrichmentAssumption
<1>5. ASSUME NEW i \in 1 .. n, NEW j \in 1 .. n, i # j
      PROVE  Touches(ToSet(groups'[i])) \cap Touches(ToSet(groups'[j])) = {}
  <2>1. PICK a \in AlbumsHeard, b \in AlbumsHeard : groups'[i] = AlbumTracks[a] /\ groups'[j] = AlbumTracks[b]
    BY <1>3
  <2>2. a # b
    BY <1>3, <1>5, <2>1
  <2>3. Touches(ToSet(AlbumTracks[a])) \subseteq {a} /\ Touches(ToSet(AlbumTracks[b])) \subseteq {b}
    BY AlbumsApart DEF Touches
  <2> QED
    BY <2>1, <2>2, <2>3
<1>6. UNCHANGED <<trackRow, albumFields, enricher, mixed>> /\ \A w \in BulkWorkers : enricher[w] = Free
  BY DEF EnrichAll, Rows
<1>7. \A T : Touches({}) = {}
  BY DEF Touches
<1>8. OneWorkers'
  <2>1. \A v \in BulkWorkers : TodoOf(enricher'[v]) = {}
    BY <1>6 DEF TodoOf
  <2>2. DOMAIN groups' = 1 .. n
    BY <1>3
  <2> QED
    BY <1>5, <1>7, <2>1, <2>2 DEF OneWorkers
<1>9. EnrichTyped'
  BY <1>4, <1>6 DEF EnrichInv, EnrichTyped
<1> QED
  BY <1>6, <1>8, <1>9 DEF EnrichInv, CopyFits

LEMMA TakeGroupKeeps ==
  ASSUME EnrichInv, NEW w \in BulkWorkers, TakeGroup(w)
  PROVE  EnrichInv'
<1>1. /\ groups \in Seq(Seq(TracksHeard)) /\ groups # <<>> /\ groups' = Tail(groups)
      /\ UNCHANGED <<trackRow, albumFields, mixed>> /\ enricher[w] = Free
  BY DEF TakeGroup, Rows, EnrichInv, EnrichTyped
<1>2. PICK e \in AtNext : e.todo = Head(groups) /\ enricher' = [enricher EXCEPT ![w] = e]
  <2>1. Head(groups) \in Seq(TracksHeard)
    BY <1>1, TailOf
  <2>2. [at |-> "next", todo |-> Head(groups), late |-> FALSE] \in AtNext
    BY <2>1 DEF AtNext
  <2> QED
    BY <2>2 DEF TakeGroup
<1>3. /\ enricher' \in [Enrichers -> {Free} \cup AtNext \cup AtWork] /\ enricher'[w] = e
      /\ \A v \in Enrichers : v # w => enricher'[v] = enricher[v]
  BY <1>2 DEF EnrichInv, EnrichTyped, Enrichers
<1>4. e \notin AtWork /\ e # Free
  BY DEF AtWork, AtNext, Free, WorkSteps
<1>5. /\ Tail(groups) \in Seq(Seq(TracksHeard)) /\ 1 \in DOMAIN groups /\ Head(groups) = groups[1]
      /\ \A i \in DOMAIN Tail(groups) : i + 1 \in DOMAIN groups /\ i + 1 # 1 /\ Tail(groups)[i] = groups[i + 1]
                                        /\ i \in Nat
  <2>1. DOMAIN Tail(groups) = 1 .. Len(Tail(groups)) /\ DOMAIN groups = 1 .. Len(groups)
    BY <1>1, TailOf
  <2> QED
    BY <1>1, <2>1, TailOf
<1>6. OneWorkers'
  <2>1. TodoOf(e) = ToSet(groups[1])
    BY <1>2, <1>4, <1>5 DEF TodoOf
  <2>2. ASSUME NEW v \in BulkWorkers, v # w
        PROVE  Touches(TodoOf(enricher'[v])) \cap Touches(TodoOf(e)) = {}
    BY <1>3, <1>5, <2>1, <2>2 DEF EnrichInv, OneWorkers, Enrichers
  <2>3. \A v, u \in BulkWorkers : v # u => Touches(TodoOf(enricher'[v])) \cap Touches(TodoOf(enricher'[u])) = {}
    BY <1>3, <2>2 DEF EnrichInv, OneWorkers, Enrichers
  <2>4. ASSUME NEW v \in BulkWorkers, NEW i \in DOMAIN groups'
        PROVE  Touches(TodoOf(enricher'[v])) \cap Touches(ToSet(groups'[i])) = {}
    <3>1. i + 1 \in DOMAIN groups /\ i + 1 # 1 /\ groups'[i] = groups[i + 1]
      BY <1>1, <1>5
    <3>2. CASE v = w
      BY <1>3, <1>5, <2>1, <3>1, <3>2 DEF EnrichInv, OneWorkers
    <3>3. CASE v # w
      BY <1>3, <3>1, <3>3 DEF EnrichInv, OneWorkers, Enrichers
    <3> QED
      BY <3>2, <3>3
  <2>5. ASSUME NEW i \in DOMAIN groups', NEW j \in DOMAIN groups', i # j
        PROVE  Touches(ToSet(groups'[i])) \cap Touches(ToSet(groups'[j])) = {}
    <3>1. i + 1 # j + 1
      BY <1>1, <1>5, <2>5
    <3> QED
      BY <1>1, <1>5, <3>1 DEF EnrichInv, OneWorkers
  <2> QED
    BY <2>3, <2>4, <2>5 DEF OneWorkers
<1>7. EnrichTyped'
  BY <1>1, <1>3, <1>5 DEF EnrichInv, EnrichTyped
<1>8. \A v \in Enrichers, g \in AtWork : g = enricher[v] => CopyFits(g)'
  BY <1>1, SameCopies
<1>9. ASSUME NEW v \in Enrichers, enricher'[v] \in AtWork
      PROVE  WorkFits(enricher'[v]) /\ CopyFits(enricher[v])'
  <2>1. enricher'[v] = enricher[v]
    BY <1>3, <1>4, <1>9
  <2>2. PICK g \in AtWork : g = enricher[v]
    BY <1>9, <2>1
  <2> QED
    BY <1>8, <2>1, <2>2 DEF EnrichInv
<1>10. ASSUME NEW v \in BulkWorkers, enricher'[v] \in AtWork, enricher'[Chain] \in AtWork,
              enricher'[v].album = enricher'[Chain].album
       PROVE  enricher'[v].album \in mixed'
  BY <1>1, <1>3, <1>4, <1>10, EnrichmentAssumption DEF EnrichInv, Enrichers
<1> QED
  BY <1>6, <1>7, <1>9, <1>10 DEF EnrichInv

LEMMA GroupDoneKeeps ==
  ASSUME EnrichInv, NEW w \in BulkWorkers, GroupDone(w)
  PROVE  EnrichInv'
<1>1. /\ UNCHANGED <<trackRow, albumFields, groups, mixed>> /\ w \in Enrichers
      /\ enricher' = [enricher EXCEPT ![w] = Free]
  BY DEF GroupDone, Rows, EnrichJob, Enrichers
<1>2. Free \notin AtWork /\ TodoOf(Free) = {}
  BY DEF AtWork, Free, WorkSteps, TodoOf
<1> QED
  BY <1>1, <1>2, SameCopies, EnricherGoes

LEMMA HandleImportKeeps ==
  ASSUME EnrichInv, NEW t \in TracksHeard, HandleImport(t)
  PROVE  EnrichInv'
<1> DEFINE e == [at |-> "next", todo |-> <<t>>, late |-> FALSE]
<1>1. /\ UNCHANGED <<trackRow, albumFields, groups, mixed>> /\ Chain \in Enrichers
      /\ enricher' = [enricher EXCEPT ![Chain] = e]
  BY DEF HandleImport, Rows, Enrichers
<1>2. e \in AtNext
  BY DEF AtNext
<1> HIDE DEF e
<1>3. e \notin AtWork
  BY <1>2 DEF AtWork, AtNext, WorkSteps
<1> QED
  BY <1>1, <1>2, <1>3, SameCopies, EnricherGoes

LEMMA ReadForEnrichKeeps ==
  ASSUME EnrichInv, NEW w \in Enrichers, ReadForEnrich(w)
  PROVE  EnrichInv'
<1>1. /\ enricher[w].at = "next" /\ enricher[w].todo # <<>> /\ UNCHANGED <<trackRow, albumFields, groups>>
      /\ enricher[w] \in AtNext /\ enricher[w] # Free /\ enricher[w].todo \in Seq(TracksHeard)
  BY EnrichersTyped DEF ReadForEnrich, Rows, EnrichJob, EnrichInv, AtNext
<1>2. PICK t \in TracksHeard : t = Head(enricher[w].todo) /\ t \in ToSet(enricher[w].todo)
  BY <1>1, TailOf
<1>3. PICK a \in AlbumsHeard : a = AlbumHolding(t) /\ t \in ToSet(AlbumTracks[a])
  <2>1. \E a \in AlbumsHeard : t \in ToSet(AlbumTracks[a])
    BY DEF TracksHeard
  <2> QED
    BY <2>1 DEF AlbumHolding
<1>4. mixed \subseteq mixed'
  BY DEF ReadForEnrich
<1>5. CASE TrackDone(w)
  BY <1>1, <1>4, <1>5, SameCopies, TrackEnds
<1>6. ASSUME NEW at \in {"provider", "image"},
             enricher' = [enricher EXCEPT ![w] =
               [at |-> at, todo |-> @.todo, late |-> @.late, track |-> t, album |-> a,
                trackCopy |-> trackRow[t], albumCopy |-> albumFields[a], trackMod |-> FALSE, albumMod |-> FALSE,
                prov |-> 1, asked |-> FALSE, skipImage |-> w # Chain /\ imageTried, only |-> at = "image"]],
             mixed' = IF \E o \in Others(w) : a \in Holding(o) THEN mixed \cup {a} ELSE mixed
      PROVE  EnrichInv'
  <2> DEFINE d == [at |-> at, todo |-> enricher[w].todo, late |-> enricher[w].late, track |-> t, album |-> a,
                   trackCopy |-> trackRow[t], albumCopy |-> albumFields[a], trackMod |-> FALSE, albumMod |-> FALSE,
                   prov |-> 1, asked |-> FALSE, skipImage |-> w # Chain /\ imageTried, only |-> at = "image"]
  <2>1. PICK e \in AtWork :
          /\ enricher' = [enricher EXCEPT ![w] = e] /\ e.todo = enricher[w].todo /\ e.track = t /\ e.album = a
          /\ e.trackCopy = trackRow[t] /\ e.albumCopy = albumFields[a]
    <3>1. /\ enricher[w].late \in BOOLEAN /\ trackRow[t] \in TrackValues /\ albumFields[a] \in AlbumValues
          /\ (w # Chain /\ imageTried) \in BOOLEAN /\ (at = "image") \in BOOLEAN /\ at \in WorkSteps
      BY <1>1 DEF AtNext, EnrichInv, EnrichTyped, WorkSteps
    <3>2. d \in AtWork
      BY <1>1, <3>1 DEF AtWork
    <3>3. enricher' = [enricher EXCEPT ![w] = d]
      BY <1>6
    <3> QED
      BY <3>2, <3>3
  <2>2. e # Free
    BY DEF AtWork, Free, WorkSteps
  <2>3. TodoOf(e) = TodoOf(enricher[w]) /\ WorkFits(e)
    BY <1>1, <1>2, <1>3, <2>1, <2>2 DEF TodoOf, WorkFits
  <2>4. CopyFits(e)'
    BY <1>1, <2>1, GrowsItself DEF CopyFits
  <2>5. ASSUME NEW o \in Others(w), enricher[o] \in AtWork, enricher[o].album = a
        PROVE  a \in mixed'
    <3>1. a \in Holding(o)
      BY <2>5 DEF Holding, AtWork, Free, WorkSteps
    <3> QED
      BY <1>6, <3>1
  <2>6. \A v \in Enrichers, g \in AtWork : g = enricher[v] => CopyFits(g)'
    BY <1>1, <1>4, SameCopies
  <2>7. trackRow' \in [TracksHeard -> TrackValues] /\ albumFields' \in [AlbumsHeard -> AlbumValues]
    BY <1>1 DEF EnrichInv, EnrichTyped
  <2> QED
    BY <1>1, <1>4, <2>1, <2>3, <2>4, <2>5, <2>6, <2>7, EnricherGoes
<1> QED
  BY <1>2, <1>3, <1>5, <1>6 DEF ReadForEnrich

LEMMA DeadlineKeeps ==
  ASSUME EnrichInv, NEW w \in BulkWorkers, DeadlinePasses(w)
  PROVE  EnrichInv'
<1>1. /\ UNCHANGED <<trackRow, albumFields, groups, mixed>> /\ w \in Enrichers /\ enricher[w].at \in WorkSteps
      /\ enricher' = [enricher EXCEPT ![w].late = TRUE]
  BY DEF DeadlinePasses, Rows, EnrichJob, Enrichers, WorkSteps
<1>2. PICK g \in AtWork : g = enricher[w]
  BY <1>1, EnrichersTyped DEF EnrichInv
<1> DEFINE e == [g EXCEPT !.late = TRUE]
<1>3. /\ e \in AtWork /\ e.todo = g.todo /\ e.track = g.track /\ e.album = g.album
      /\ e.albumCopy = g.albumCopy /\ e.trackCopy = g.trackCopy
  BY DEF AtWork
<1>4. enricher' = [enricher EXCEPT ![w] = e]
  BY <1>1, <1>2
<1> HIDE DEF e
<1> QED
  BY <1>1, <1>2, <1>3, <1>4, GrowsItself, WorkGoes

\* What keeps rows and copies, and goes on with the same track.
TurnedTo(w) ==
  \E at \in WorkSteps, prov \in Nat, asked \in BOOLEAN :
    enricher' = [enricher EXCEPT ![w].at = at, ![w].prov = prov, ![w].asked = asked]

LEMMA TurnedKeeps ==
  ASSUME EnrichInv, NEW w \in Enrichers, enricher[w].at \in WorkSteps, TurnedTo(w),
         UNCHANGED <<trackRow, albumFields, groups, mixed>>
  PROVE  EnrichInv'
<1>1. PICK g \in AtWork : g = enricher[w]
  BY EnrichersTyped DEF EnrichInv
<1>2. PICK at \in WorkSteps, prov \in Nat, asked \in BOOLEAN :
        enricher' = [enricher EXCEPT ![w].at = at, ![w].prov = prov, ![w].asked = asked]
  BY DEF TurnedTo
<1> DEFINE e == [g EXCEPT !.at = at, !.prov = prov, !.asked = asked]
<1>3. /\ e \in AtWork /\ e.todo = g.todo /\ e.track = g.track /\ e.album = g.album
      /\ e.albumCopy = g.albumCopy /\ e.trackCopy = g.trackCopy
  BY DEF AtWork
<1>4. enricher' = [enricher EXCEPT ![w] = e]
  BY <1>1, <1>2
<1> HIDE DEF e
<1> QED
  BY <1>1, <1>3, <1>4, GrowsItself, WorkGoes

\* The ways to go on.
LEMMA GoingOn ==
  ASSUME EnrichInv, NEW w \in Enrichers, enricher[w].at \in WorkSteps
  PROVE  /\ \A at \in WorkSteps : GoesOn(w, at) => TurnedTo(w)
         /\ \A at \in WorkSteps, n \in Nat : TurnsTo(w, at, n) => TurnedTo(w)
         /\ ProviderDone(w) => TurnedTo(w)
         /\ enricher[w].prov \in Nat
         /\ \A n \in Nat : enricher' = [enricher EXCEPT ![w].prov = n, ![w].asked = FALSE] => TurnedTo(w)
<1>1. PICK g \in AtWork : g = enricher[w]
  BY EnrichersTyped DEF EnrichInv
<1>2. g.at \in WorkSteps /\ g.prov \in Nat /\ g.asked \in BOOLEAN /\ g.prov + 1 \in Nat
  BY DEF AtWork
<1>3. ASSUME NEW at \in WorkSteps, GoesOn(w, at) PROVE TurnedTo(w)
  <2>1. [g EXCEPT !.at = at] = [g EXCEPT !.at = at, !.prov = g.prov, !.asked = g.asked]
    BY DEF AtWork
  <2>2. enricher' = [enricher EXCEPT ![w] = [g EXCEPT !.at = at]]
    BY <1>1, <1>3 DEF GoesOn
  <2>3. enricher' = [enricher EXCEPT ![w].at = at, ![w].prov = g.prov, ![w].asked = g.asked]
    BY <1>1, <2>1, <2>2
  <2> QED
    BY <1>2, <2>3 DEF TurnedTo
<1>4. ASSUME NEW at \in WorkSteps, NEW n \in Nat, TurnsTo(w, at, n) PROVE TurnedTo(w)
  <2>1. [g EXCEPT !.at = at, !.prov = n] = [g EXCEPT !.at = at, !.prov = n, !.asked = g.asked]
    BY DEF AtWork
  <2>2. enricher' = [enricher EXCEPT ![w] = [g EXCEPT !.at = at, !.prov = n]]
    BY <1>1, <1>4 DEF TurnsTo
  <2>3. enricher' = [enricher EXCEPT ![w].at = at, ![w].prov = n, ![w].asked = g.asked]
    BY <1>1, <2>1, <2>2
  <2> QED
    BY <1>2, <2>3 DEF TurnedTo
<1>5. ProviderDone(w) => TurnedTo(w)
  <2>1. ASSUME ProviderDone(w)
        PROVE  enricher' = [enricher EXCEPT ![w].at = "provider", ![w].prov = g.prov + 1, ![w].asked = TRUE]
    BY <1>1, <2>1 DEF ProviderDone
  <2> QED
    BY <1>2, <2>1 DEF TurnedTo, WorkSteps
<1>6. ASSUME NEW n \in Nat, enricher' = [enricher EXCEPT ![w].prov = n, ![w].asked = FALSE] PROVE TurnedTo(w)
  <2>1. [g EXCEPT !.prov = n, !.asked = FALSE] = [g EXCEPT !.at = g.at, !.prov = n, !.asked = FALSE]
    BY DEF AtWork
  <2>2. enricher' = [enricher EXCEPT ![w] = [g EXCEPT !.prov = n, !.asked = FALSE]]
    BY <1>1, <1>6
  <2>3. enricher' = [enricher EXCEPT ![w].at = g.at, ![w].prov = n, ![w].asked = FALSE]
    BY <1>1, <2>1, <2>2
  <2> QED
    BY <1>2, <2>3 DEF TurnedTo
<1> QED
  BY <1>1, <1>2, <1>3, <1>4, <1>5, <1>6

LEMMA ProviderTurnKeeps ==
  ASSUME EnrichInv, NEW w \in Enrichers, ProviderTurn(w)
  PROVE  EnrichInv'
<1>1. UNCHANGED <<trackRow, albumFields, groups, mixed>> /\ enricher[w].at \in WorkSteps
  BY DEF ProviderTurn, Rows, EnrichJob, WorkSteps
<1>2. /\ TurnsTo(w, "image", 1) => TurnedTo(w)
      /\ GoesOn(w, "thumb") => TurnedTo(w)
      /\ GoesOn(w, "title") => TurnedTo(w)
      /\ enricher' = [enricher EXCEPT ![w].prov = enricher[w].prov + 1, ![w].asked = FALSE] => TurnedTo(w)
  <2>1. "image" \in WorkSteps /\ "thumb" \in WorkSteps /\ "title" \in WorkSteps
    BY DEF WorkSteps
  <2>2. enricher[w].prov + 1 \in Nat
    BY <1>1, GoingOn
  <2> QED
    BY <1>1, <2>1, <2>2, GoingOn
<1>3. TurnedTo(w)
  BY <1>2 DEF ProviderTurn, markImageAttemptDue
<1> QED
  BY <1>1, <1>3, TurnedKeeps

LEMMA AskTitleKeeps ==
  ASSUME EnrichInv, NEW w \in Enrichers, AskTitle(w)
  PROVE  EnrichInv'
<1>1. UNCHANGED <<trackRow, albumFields, groups, mixed>> /\ enricher[w].at \in WorkSteps
  BY DEF AskTitle, Rows, EnrichJob, WorkSteps
<1>2. CASE GoesOn(w, "cover") \/ ProviderDone(w)
  BY <1>1, <1>2, GoingOn, TurnedKeeps DEF WorkSteps
<1>3. CASE /\ enricher[w].albumCopy.title = 0
           /\ enricher' = [enricher EXCEPT ![w].at = "cover", ![w].albumMod = TRUE,
                                            ![w].albumCopy.title = enricher[w].prov]
  <2>1. PICK g \in AtWork : g = enricher[w]
    BY <1>1, EnrichersTyped DEF EnrichInv
  <2>2. PICK c \in AlbumValues : c = [g.albumCopy EXCEPT !.title = g.prov] /\ Grows(g.albumCopy, c)
    <3> DEFINE c == [g.albumCopy EXCEPT !.title = g.prov]
    <3>1. g.albumCopy \in AlbumValues /\ g.prov \in Nat /\ g.albumCopy.title = 0
      BY <1>3, <2>1 DEF AtWork
    <3>2. c \in AlbumValues /\ Grows(g.albumCopy, c)
      BY <3>1 DEF AlbumValues, Grows
    <3> QED
      BY <3>2
  <2> DEFINE e == [g EXCEPT !.at = "cover", !.albumMod = TRUE, !.albumCopy = c]
  <2>3. /\ e \in AtWork /\ e.todo = g.todo /\ e.track = g.track /\ e.album = g.album
        /\ e.albumCopy = c /\ e.trackCopy = g.trackCopy
    BY DEF AtWork, WorkSteps
  <2>4. enricher' = [enricher EXCEPT ![w] = e]
    BY <1>3, <2>1, <2>2
  <2> HIDE DEF e
  <2> QED
    BY <1>1, <2>1, <2>2, <2>3, <2>4, GrowsItself, WorkGoes
<1> QED
  BY <1>2, <1>3 DEF AskTitle

LEMMA AskCoverKeeps ==
  ASSUME EnrichInv, NEW w \in Enrichers, AskCover(w)
  PROVE  EnrichInv'
<1>1. UNCHANGED <<trackRow, albumFields, groups, mixed>> /\ enricher[w].at \in WorkSteps
  BY DEF AskCover, Rows, EnrichJob, WorkSteps
<1>2. GoesOn(w, "meta") \/ ProviderDone(w)
  BY DEF AskCover
<1> QED
  BY <1>1, <1>2, GoingOn, TurnedKeeps DEF WorkSteps

LEMMA FillsOnly ==
  ASSUME NEW S, NEW x \in [S -> Nat], NEW which, NEW p \in Nat
  PROVE  FillIn(x, which, p) \in [S -> Nat] /\ Grows(x, FillIn(x, which, p))
  BY DEF FillIn, Grows

LEMMA EnrichTrackKeeps ==
  ASSUME EnrichInv, NEW w \in Enrichers, EnrichTrack(w)
  PROVE  EnrichInv'
<1>1. UNCHANGED <<trackRow, albumFields, groups, mixed>> /\ enricher[w].at \in WorkSteps
  BY DEF EnrichTrack, Rows, EnrichJob, WorkSteps
<1>2. CASE ProviderDone(w)
  BY <1>1, <1>2, GoingOn, TurnedKeeps
<1>3. PICK g \in AtWork : g = enricher[w]
  BY <1>1, EnrichersTyped DEF EnrichInv
<1>4. ASSUME NEW tf, NEW af,
             enricher' = [enricher EXCEPT ![w].at = "provider", ![w].prov = @ + 1, ![w].asked = TRUE,
               ![w].trackCopy = FillIn(enricher[w].trackCopy, tf, enricher[w].prov),
               ![w].albumCopy = FillIn(enricher[w].albumCopy, af, enricher[w].prov),
               ![w].trackMod = @ \/ FillIn(enricher[w].trackCopy, tf, enricher[w].prov) # enricher[w].trackCopy,
               ![w].albumMod = @ \/ FillIn(enricher[w].albumCopy, af, enricher[w].prov) # enricher[w].albumCopy]
      PROVE  EnrichInv'
  <2>1. /\ g.trackCopy \in TrackValues /\ g.albumCopy \in AlbumValues /\ g.prov \in Nat /\ g.prov + 1 \in Nat
        /\ g.trackMod \in BOOLEAN /\ g.albumMod \in BOOLEAN
    BY DEF AtWork
  <2>2. PICK t \in TrackValues : t = FillIn(g.trackCopy, tf, g.prov) /\ Grows(g.trackCopy, t)
    BY <2>1, FillsOnly DEF TrackValues
  <2>3. PICK a \in AlbumValues : a = FillIn(g.albumCopy, af, g.prov) /\ Grows(g.albumCopy, a)
    BY <2>1, FillsOnly DEF AlbumValues
  <2>4. PICK tm \in BOOLEAN, am \in BOOLEAN :
          tm = (g.trackMod \/ t # g.trackCopy) /\ am = (g.albumMod \/ a # g.albumCopy)
    OBVIOUS
  <2> DEFINE e == [g EXCEPT !.at = "provider", !.prov = g.prov + 1, !.asked = TRUE,
                            !.trackCopy = t, !.albumCopy = a, !.trackMod = tm, !.albumMod = am]
  <2>5. /\ e \in AtWork /\ e.todo = g.todo /\ e.track = g.track /\ e.album = g.album
        /\ e.albumCopy = a /\ e.trackCopy = t
    BY <2>1 DEF AtWork, WorkSteps
  <2>6. enricher' = [enricher EXCEPT ![w] = e]
    BY <1>3, <1>4, <2>2, <2>3, <2>4, ZenonT(40)
  <2> HIDE DEF e
  <2> QED
    BY <1>1, <1>3, <2>2, <2>3, <2>5, <2>6, WorkGoes
<1> QED
  BY <1>2, <1>4 DEF EnrichTrack

LEMMA SyncThumbKeeps ==
  ASSUME EnrichInv, NEW w \in Enrichers, SyncThumb(w)
  PROVE  EnrichInv'
<1>1. UNCHANGED <<trackRow, albumFields, groups, mixed>> /\ enricher[w].at \in WorkSteps
  BY DEF SyncThumb, Rows, EnrichJob, WorkSteps
<1>2. CASE GoesOn(w, "track")
  BY <1>1, <1>2, GoingOn, TurnedKeeps DEF WorkSteps
<1>3. CASE /\ enricher[w].albumCopy.thumb = 0
           /\ enricher' = [enricher EXCEPT ![w].at = "track", ![w].albumMod = TRUE, ![w].albumCopy.thumb = 1]
  <2>1. PICK g \in AtWork : g = enricher[w]
    BY <1>1, EnrichersTyped DEF EnrichInv
  <2>2. PICK c \in AlbumValues : c = [g.albumCopy EXCEPT !.thumb = 1] /\ Grows(g.albumCopy, c)
    <3> DEFINE c == [g.albumCopy EXCEPT !.thumb = 1]
    <3>1. g.albumCopy \in AlbumValues /\ g.albumCopy.thumb = 0
      BY <1>3, <2>1 DEF AtWork
    <3>2. c \in AlbumValues /\ Grows(g.albumCopy, c)
      BY <3>1 DEF AlbumValues, Grows
    <3> QED
      BY <3>2
  <2> DEFINE e == [g EXCEPT !.at = "track", !.albumMod = TRUE, !.albumCopy = c]
  <2>3. /\ e \in AtWork /\ e.todo = g.todo /\ e.track = g.track /\ e.album = g.album
        /\ e.albumCopy = c /\ e.trackCopy = g.trackCopy
    BY DEF AtWork, WorkSteps
  <2>4. enricher' = [enricher EXCEPT ![w] = e]
    BY <1>3, <2>1, <2>2
  <2> HIDE DEF e
  <2> QED
    BY <1>1, <2>1, <2>2, <2>3, <2>4, GrowsItself, WorkGoes
<1> QED
  BY <1>2, <1>3 DEF SyncThumb

LEMMA ArtistImageKeeps ==
  ASSUME EnrichInv, NEW w \in Enrichers, enrichArtistImage(w)
  PROVE  EnrichInv'
<1>1. UNCHANGED <<trackRow, albumFields, groups, mixed>> /\ enricher[w].at = "image" /\ enricher[w].at \in WorkSteps
  BY DEF enrichArtistImage, Rows, EnrichJob, WorkSteps
<1>2. CASE TurnsTo(w, "image", enricher[w].prov + 1)
  <2>1. enricher[w].prov + 1 \in Nat /\ "image" \in WorkSteps
    BY <1>1, GoingOn
  <2> QED
    BY <1>1, <1>2, <2>1, GoingOn, TurnedKeeps
<1>3. CASE GoesOn(w, "thumb")
  BY <1>1, <1>3, GoingOn, TurnedKeeps DEF WorkSteps
<1>4. CASE TrackDone(w)
  BY <1>1, <1>4, EnrichersTyped, SameCopies, TrackEnds DEF EnrichInv
<1> QED
  BY <1>2, <1>3, <1>4 DEF enrichArtistImage, ImageOver

\* Rows of an album are written by who has it alone, or the chain was about.
LEMMA OthersCopies ==
  ASSUME EnrichInv, NEW w \in Enrichers, NEW g \in AtWork, g = enricher[w], mixed' = mixed,
         \A t \in TracksHeard : t # g.track => trackRow'[t] = trackRow[t],
         \A a \in AlbumsHeard : a # g.album => albumFields'[a] = albumFields[a]
  PROVE  \A v \in Enrichers, h \in AtWork : v # w /\ h = enricher[v] => CopyFits(h)'
<1> SUFFICES ASSUME NEW v \in Enrichers, NEW h \in AtWork, v # w, h = enricher[v]
             PROVE  CopyFits(h)'
  OBVIOUS
<1>1. WorkFits(g) /\ WorkFits(h) /\ CopyFits(h)
  BY DEF EnrichInv
<1>2. /\ g.track \in TracksHeard /\ h.track \in TracksHeard /\ g.album \in AlbumsHeard /\ h.album \in AlbumsHeard
      /\ g # Free /\ h # Free
  BY DEF AtWork, Free, WorkSteps
<1>3. CASE h.album \in mixed
  BY <1>3 DEF CopyFits
<1>4. CASE h.album # g.album
  <2>1. h.track # g.track
    BY <1>1, <1>2, <1>4, AlbumsApart DEF WorkFits
  <2> QED
    BY <1>1, <1>2, <1>4, <2>1 DEF CopyFits
<1>5. CASE h.album = g.album /\ v \in BulkWorkers /\ w \in BulkWorkers
  <2>1. g.album \in Touches(TodoOf(g)) /\ h.album \in Touches(TodoOf(h))
    BY <1>1, <1>2 DEF WorkFits, Touches
  <2> QED
    BY <1>5, <2>1 DEF EnrichInv, OneWorkers
<1>6. CASE h.album = g.album /\ (v = Chain \/ w = Chain)
  BY <1>3, <1>6, EnrichmentAssumption DEF EnrichInv, Enrichers
<1> QED
  BY <1>3, <1>4, <1>5, <1>6 DEF Enrichers

LEMMA WriteTrackRowKeeps ==
  ASSUME EnrichInv, NEW w \in Enrichers, WriteTrackRow(w)
  PROVE  EnrichInv'
<1>1. UNCHANGED <<albumFields, groups, mixed>> /\ enricher[w].at \in WorkSteps /\ GoesOn(w, "album")
  BY DEF WriteTrackRow, EnrichJob, WorkSteps
<1>2. CASE UNCHANGED trackRow
  BY <1>1, <1>2, GoingOn, TurnedKeeps DEF WorkSteps
<1>3. PICK g \in AtWork : g = enricher[w]
  BY <1>1, EnrichersTyped DEF EnrichInv
<1>4. CASE trackRow' = [trackRow EXCEPT ![g.track] = g.trackCopy]
  <2>1. /\ trackRow \in [TracksHeard -> TrackValues] /\ g.track \in TracksHeard /\ g.trackCopy \in TrackValues
        /\ albumFields \in [AlbumsHeard -> AlbumValues] /\ g # Free
    BY DEF EnrichInv, EnrichTyped, AtWork, Free, WorkSteps
  <2>2. /\ trackRow' \in [TracksHeard -> TrackValues] /\ trackRow'[g.track] = g.trackCopy
        /\ \A t \in TracksHeard : t # g.track => trackRow'[t] = trackRow[t]
    BY <1>4, <2>1
  <2>3. \A v \in Enrichers, h \in AtWork : v # w /\ h = enricher[v] => CopyFits(h)'
    BY <1>1, <1>3, <2>2, OthersCopies
  <2> DEFINE e == [g EXCEPT !.at = "album"]
  <2>4. /\ e \in AtWork /\ e.todo = g.todo /\ e.track = g.track /\ e.album = g.album
        /\ e.albumCopy = g.albumCopy /\ e.trackCopy = g.trackCopy
    BY DEF AtWork, WorkSteps
  <2>5. enricher' = [enricher EXCEPT ![w] = e]
    BY <1>1, <1>3 DEF GoesOn
  <2>6. PICK d \in AtWork : d = e
    BY <2>4
  <2> HIDE DEF e
  <2>7. WorkFits(g) /\ CopyFits(g) /\ d # Free
    BY <1>3 DEF EnrichInv, AtWork, Free, WorkSteps
  <2>8. TodoOf(d) = TodoOf(g) /\ WorkFits(d)
    BY <2>1, <2>4, <2>6, <2>7 DEF TodoOf, WorkFits
  <2>9. CopyFits(d)'
    BY <1>1, <2>2, <2>4, <2>6, <2>7, GrowsItself DEF CopyFits
  <2>10. \A o \in Others(w) : enricher[o] \in AtWork /\ enricher[o].album = d.album => d.album \in mixed
    BY <1>3, <2>4, <2>6 DEF EnrichInv, Others, Enrichers
  <2> QED
    BY <1>1, <1>3, <2>1, <2>2, <2>3, <2>5, <2>6, <2>8, <2>9, <2>10, EnricherGoes
<1> QED
  BY <1>2, <1>3, <1>4 DEF WriteTrackRow

LEMMA WriteAlbumRowKeeps ==
  ASSUME EnrichInv, NEW w \in Enrichers, WriteAlbumRow(w)
  PROVE  EnrichInv'
<1>1. UNCHANGED <<trackRow, groups, mixed>> /\ enricher[w].at \in WorkSteps /\ TrackDone(w)
  BY DEF WriteAlbumRow, EnrichJob, WorkSteps
<1>2. PICK g \in AtWork : g = enricher[w]
  BY <1>1, EnrichersTyped DEF EnrichInv
<1>3. /\ albumFields \in [AlbumsHeard -> AlbumValues] /\ g.album \in AlbumsHeard /\ g.albumCopy \in AlbumValues
      /\ trackRow \in [TracksHeard -> TrackValues]
  BY DEF EnrichInv, EnrichTyped, AtWork
<1>4. /\ albumFields' \in [AlbumsHeard -> AlbumValues]
      /\ \A a \in AlbumsHeard : a # g.album => albumFields'[a] = albumFields[a]
  BY <1>2, <1>3 DEF WriteAlbumRow
<1>5. \A v \in Enrichers, h \in AtWork : v # w /\ h = enricher[v] => CopyFits(h)'
  BY <1>1, <1>2, <1>4, OthersCopies
<1> QED
  BY <1>1, <1>2, <1>3, <1>4, <1>5, TrackEnds

-----------------------------------------------------------------------------
(* What enrichment filled in, and the tracks, stay *)

LEMMA EnrichInvInit == EnrichmentInit => EnrichInv
<1> SUFFICES ASSUME EnrichmentInit PROVE EnrichInv
  OBVIOUS
<1>1. EnrichTyped
  BY DEF EnrichmentInit, EnrichTyped, TrackValues, AlbumValues
<1>2. \A w \in Enrichers : enricher[w] = Free
  BY DEF EnrichmentInit
<1>3. Free \notin AtWork /\ TodoOf(Free) = {} /\ Touches({}) = {}
  BY DEF AtWork, Free, WorkSteps, TodoOf, Touches
<1>4. OneWorkers
  <2>1. groups = <<>> /\ \A v \in BulkWorkers : Touches(TodoOf(enricher[v])) = {}
    BY <1>2, <1>3 DEF EnrichmentInit, Enrichers
  <2>2. DOMAIN groups = {}
    BY <2>1
  <2> QED
    BY <2>1, <2>2 DEF OneWorkers
<1> QED
  BY <1>1, <1>2, <1>3, <1>4 DEF EnrichInv, Enrichers

LEMMA EnrichInvStep ==
  ASSUME EnrichInv, EnrichmentNext
  PROVE  EnrichInv'
<1>1. CASE EnrichAll
  BY <1>1, EnrichAllKeeps
<1>2. ASSUME NEW w \in BulkWorkers, TakeGroup(w) \/ GroupDone(w) \/ DeadlinePasses(w) PROVE EnrichInv'
  BY <1>2, TakeGroupKeeps, GroupDoneKeeps, DeadlineKeeps
<1>3. ASSUME NEW t \in TracksHeard, HandleImport(t) PROVE EnrichInv'
  BY <1>3, HandleImportKeeps
<1>4. ASSUME NEW w \in Enrichers, ReadForEnrich(w) \/ ProviderTurn(w) \/ AskTitle(w) \/ AskCover(w) PROVE EnrichInv'
  BY <1>4, ReadForEnrichKeeps, ProviderTurnKeeps, AskTitleKeeps, AskCoverKeeps
<1>5. ASSUME NEW w \in Enrichers,
             EnrichTrack(w) \/ enrichArtistImage(w) \/ SyncThumb(w) \/ WriteTrackRow(w) \/ WriteAlbumRow(w)
      PROVE  EnrichInv'
  BY <1>5, EnrichTrackKeeps, ArtistImageKeeps, SyncThumbKeeps, WriteTrackRowKeeps, WriteAlbumRowKeeps
<1>6. ASSUME NEW p, CoolsOff(p) PROVE EnrichInv'
  BY <1>6, EnrichStands DEF CoolsOff, Rows, EnrichJob
<1>7. CASE ImageTimeOver
  BY <1>7, EnrichStands DEF ImageTimeOver, Rows, EnrichJob
<1> QED
  BY <1>1, <1>2, <1>3, <1>4, <1>5, <1>6, <1>7 DEF EnrichmentNext, Enriches

LEMMA EnrichInvHolds == ProvidersSpec => []EnrichInv
<1>1. ProvidersInit => EnrichInv
  BY EnrichInvInit DEF ProvidersInit
<1>2. EnrichInv /\ [ProvidersNext]_<<scene, providers>> => EnrichInv'
  <2>1. EnrichInv /\ UNCHANGED enrichmentVars => EnrichInv'
    BY EnrichStands DEF enrichmentVars
  <2> QED
    BY <2>1, LibraryScenes, EnrichInvStep
<1> QED
  BY <1>1, <1>2, PTL DEF ProvidersSpec

FieldsStay ==
  \A a \in AlbumsHeard : a \notin mixed' =>
    /\ \A f \in AlbumFields : albumFields[a][f] \in {0, albumFields'[a][f]}
    /\ \A i \in DOMAIN AlbumTracks[a] : \A f \in TrackFields :
         trackRow[AlbumTracks[a][i]][f] \in {0, trackRow'[AlbumTracks[a][i]][f]}

LEMMA FieldsStayStep ==
  ASSUME EnrichInv, EnrichmentNext
  PROVE  FieldsStay
<1>1. CASE UNCHANGED <<trackRow, albumFields>>
  BY <1>1 DEF FieldsStay
<1>2. ASSUME NEW w \in Enrichers, WriteTrackRow(w)
      PROVE  FieldsStay
  <2>1. UNCHANGED <<albumFields, mixed>> /\ enricher[w].at \in WorkSteps
    BY <1>2 DEF WriteTrackRow, WorkSteps
  <2>2. PICK g \in AtWork : g = enricher[w] /\ WorkFits(g) /\ CopyFits(g)
    BY <2>1, EnrichersTyped DEF EnrichInv
  <2>3. /\ trackRow \in [TracksHeard -> TrackValues] /\ g.track \in TracksHeard /\ g.album \in AlbumsHeard
    BY DEF EnrichInv, EnrichTyped, AtWork
  <2>4. CASE trackRow' = [trackRow EXCEPT ![g.track] = g.trackCopy]
    <3>1. ASSUME NEW a \in AlbumsHeard, a \notin mixed, NEW i \in DOMAIN AlbumTracks[a], NEW f \in TrackFields
          PROVE  trackRow[AlbumTracks[a][i]][f] \in {0, trackRow'[AlbumTracks[a][i]][f]}
      <4>1. AlbumTracks[a][i] \in ToSet(AlbumTracks[a]) /\ AlbumTracks[a][i] \in TracksHeard
        BY DEF ToSet, TracksHeard
      <4>2. CASE AlbumTracks[a][i] # g.track
        BY <2>3, <2>4, <4>1, <4>2
      <4>3. CASE AlbumTracks[a][i] = g.track
        <5>1. a = g.album
          BY <2>2, <2>3, <4>1, <4>3, AlbumsApart DEF WorkFits
        <5>2. trackRow[g.track][f] \in {0, g.trackCopy[f]}
          BY <2>2, <2>3, <3>1, <5>1 DEF CopyFits, Grows, TrackValues
        <5> QED
          BY <2>3, <2>4, <4>3, <5>2
      <4> QED
        BY <4>2, <4>3
    <3> QED
      BY <2>1, <3>1 DEF FieldsStay
  <2> QED
    BY <1>1, <1>2, <2>1, <2>2, <2>4 DEF WriteTrackRow
<1>3. ASSUME NEW w \in Enrichers, WriteAlbumRow(w)
      PROVE  FieldsStay
  <2>1. UNCHANGED <<trackRow, mixed>> /\ enricher[w].at \in WorkSteps
    BY <1>3 DEF WriteAlbumRow, WorkSteps
  <2>2. PICK g \in AtWork : g = enricher[w] /\ CopyFits(g)
    BY <2>1, EnrichersTyped DEF EnrichInv
  <2>3. albumFields \in [AlbumsHeard -> AlbumValues] /\ g.album \in AlbumsHeard
    BY DEF EnrichInv, EnrichTyped, AtWork
  <2>4. CASE albumFields' = [albumFields EXCEPT ![g.album] = g.albumCopy]
    <3>1. ASSUME NEW a \in AlbumsHeard, a \notin mixed, NEW f \in AlbumFields
          PROVE  albumFields[a][f] \in {0, albumFields'[a][f]}
      <4>1. CASE a # g.album
        BY <2>3, <2>4, <4>1
      <4>2. CASE a = g.album
        <5>1. albumFields[a][f] \in {0, g.albumCopy[f]}
          BY <2>2, <2>3, <3>1, <4>2 DEF CopyFits, Grows, AlbumValues
        <5> QED
          BY <2>3, <2>4, <4>2, <5>1
      <4> QED
        BY <4>1, <4>2
    <3> QED
      BY <2>1, <3>1 DEF FieldsStay
  <2> QED
    BY <1>1, <1>3, <2>1, <2>2, <2>4 DEF WriteAlbumRow
<1>4. ASSUME NEW w, TakeGroup(w) \/ GroupDone(w) \/ DeadlinePasses(w) PROVE FieldsStay
  BY <1>1, <1>4 DEF TakeGroup, GroupDone, DeadlinePasses, Rows
<1>5. ASSUME NEW w, \/ ReadForEnrich(w) \/ ProviderTurn(w) \/ AskTitle(w) \/ AskCover(w) \/ EnrichTrack(w)
                    \/ enrichArtistImage(w) \/ SyncThumb(w)
      PROVE  FieldsStay
  <2>1. UNCHANGED Rows
    BY <1>5 DEF ReadForEnrich, ProviderTurn, AskTitle, AskCover, EnrichTrack, enrichArtistImage, SyncThumb
  <2> QED
    BY <1>1, <2>1 DEF Rows
<1>6. ASSUME NEW p, EnrichAll \/ HandleImport(p) \/ CoolsOff(p) \/ ImageTimeOver PROVE FieldsStay
  BY <1>1, <1>6 DEF EnrichAll, HandleImport, CoolsOff, ImageTimeOver, Rows
<1> QED
  BY <1>2, <1>3, <1>4, <1>5, <1>6 DEF EnrichmentNext, Enriches

\* What one of the job's workers filled in, no other takes away again.
THEOREM FieldsAlwaysKept == ProvidersSpec => FieldsKept
<1>1. EnrichInv /\ [ProvidersNext]_<<scene, providers>> => [FieldsStay]_enrichmentVars
  BY LibraryScenes, FieldsStayStep
<1> QED
  BY <1>1, EnrichInvHolds, PTL DEF ProvidersSpec, FieldsKept, FieldsStay

TracksStay == \A r \in RowIds : TrackThere(r) => TrackThere(r)'

LEMMA TracksStayStep ==
  ASSUME LibInv, LibraryNext
  PROVE  TracksStay
<1>1. CASE tracks' = tracks
  BY <1>1 DEF TracksStay, TrackThere
<1>2. /\ tracks \in [RowIds -> LibraryRow] /\ given.row \in Nat /\ \A r \in RowIds : r \in Nat
  BY IdsTyped DEF LibInv, LibTyped, TablesTyped
<1>3. ASSUME NEW q, NEW t, KeysHold(t), tracks' = [tracks EXCEPT ![q] = t] PROVE TracksStay
  BY <1>2, <1>3, RowsThere DEF TracksStay, TrackThere
<1>4. ASSUME NEW w \in Hands, UpsertTrack(w) PROVE TracksStay
  BY <1>1, <1>3, <1>4 DEF UpsertTrack
<1>5. ASSUME NEW w \in Hands, EnrichWriteTrack(w) PROVE TracksStay
  BY <1>1, <1>3, <1>5 DEF EnrichWriteTrack
<1>6. CASE Organized
  <2>1. CASE tracks' = tracks
    BY <1>1, <2>1
  <2>2. ASSUME NEW q, NEW copy \in LibraryRow, NEW p, KeysHold(copy),
               tracks' = [tracks EXCEPT ![q] = [copy EXCEPT !.path = p]]
        PROVE  TracksStay
    <3>1. KeysHold([copy EXCEPT !.path = p])
      BY <2>2 DEF KeysHold, LibraryRow
    <3> QED
      BY <1>3, <2>2, <3>1
  <2>3. hand["slot"].copy \in LibraryRow
    BY SlotTyped DEF HandState
  <2> QED
    BY <1>6, <2>1, <2>2, <2>3 DEF Organized
<1>7. ASSUME NEW m \in Merges, MergeCommit(m) PROVE TracksStay
  <2>1. CASE tracks' = tracks
    BY <1>1, <2>1
  <2>2. ASSUME NEW k, NEW r, ArtistThere(k), tracks' = Given(k, r, tracks) PROVE TracksStay
    <3>1. \A x \in RowIds : tracks'[x] = IF tracks[x].artist = r THEN [tracks[x] EXCEPT !.artist = k] ELSE tracks[x]
      BY <1>2, <2>2 DEF Given
    <3>2. ASSUME NEW x \in RowIds, tracks[x].artist = r PROVE tracks'[x] # NoTrack
      <4>1. tracks'[x].artist = k
        BY <1>2, <3>1, <3>2 DEF LibraryRow
      <4> QED
        BY <2>2, <4>1, ValuesTyped DEF ArtistThere
    <3> QED
      BY <3>1, <3>2 DEF TracksStay, TrackThere
  <2> QED
    BY <1>7, <2>1, <2>2 DEF MergeCommit, MergeArtists
<1>8. ASSUME NEW w,
             \/ GetTrackByFilePath(w) \/ getOrCreateArtist(w) \/ UpsertArtist(w) \/ getOrCreateAlbum(w)
             \/ UpsertAlbum(w) \/ EnrichRead(w) \/ EnrichWriteAlbum(w)
      PROVE  TracksStay
  BY <1>1, <1>8 DEF GetTrackByFilePath, getOrCreateArtist, UpsertArtist, getOrCreateAlbum, UpsertAlbum, EnrichRead,
    EnrichWriteAlbum, Tables
<1>9. CASE \/ RenameDownload \/ StartScan \/ ScanPathWithProgress \/ StartOrganize \/ GetAlbumsByArtist
           \/ GetTracksByAlbum \/ RenameFor \/ StartEnrichJob \/ JobEnds
  BY <1>1, <1>9 DEF RenameDownload, StartScan, ScanPathWithProgress, StartOrganize, GetAlbumsByArtist,
    GetTracksByAlbum, RenameFor, StartEnrichJob, JobEnds, Tables
<1>10. ASSUME NEW m, MergeRead(m) \/ MergeCanonical(m) \/ RenameArtist(m) \/ MergeOrganize(m) PROVE TracksStay
  BY <1>1, <1>10 DEF MergeRead, MergeCanonical, RenameArtist, MergeOrganize, Tables
<1> QED
  BY <1>4, <1>5, <1>6, <1>7, <1>8, <1>9, <1>10 DEF LibraryNext

\* No merge, rename, import or stale write takes a track out of the library.
THEOREM TracksAlwaysKept == ProvidersSpec => TracksKept
<1>1. LibInv /\ [ProvidersNext]_<<scene, providers>> => [TracksStay]_libVars
  BY LibraryScenes, TracksStayStep
<1> QED
  BY <1>1, LibInvHolds, PTL DEF ProvidersSpec, TracksKept, TracksStay

\* The library loses nothing: neither its tracks nor what was filled in.
THEOREM LibraryAlwaysKept == ProvidersSpec => LibraryKept
  BY TracksAlwaysKept, FieldsAlwaysKept DEF LibraryKept

-----------------------------------------------------------------------------
(* Enrichment: who is asked, and how much a worker has to do               *)

EnrichValues == 0 .. EnrichProviders
AskSteps == {"title", "cover", "meta"}
\* A worker's numbers are providers', it asks one there is.
NumbersReal(e) ==
  /\ \A f \in TrackFields : e.trackCopy[f] \in EnrichValues
  /\ e.at \in {"provider", "image"} \cup AskSteps => e.prov >= 1
  /\ e.at \in AskSteps => e.prov <= EnrichProviders
AnAlbums(todo) == \E a \in AlbumsHeard : Len(todo) <= Len(AlbumTracks[a])
EnrichReal ==
  /\ coolingDown \subseteq ProvidersInOrder /\ covers \subseteq AlbumsHeard
  /\ \A t \in TracksHeard : \A f \in TrackFields : trackRow[t][f] \in EnrichValues
  /\ \A w \in Enrichers : enricher[w] \in AtWork => NumbersReal(enricher[w])
  /\ \A w \in BulkWorkers : enricher[w] # Free => AnAlbums(enricher[w].todo)
  /\ \A i \in DOMAIN groups : AnAlbums(groups[i])

LEMMA EnrichRealInit == EnrichmentInit => EnrichReal
<1> SUFFICES ASSUME EnrichmentInit PROVE EnrichReal
  OBVIOUS
<1>1. coolingDown = {} /\ covers = {} /\ groups = <<>> /\ DOMAIN groups = {}
  BY DEF EnrichmentInit
<1>2. \A w \in Enrichers : enricher[w] = Free
  BY DEF EnrichmentInit
<1>3. Free \notin AtWork
  BY DEF Free, AtWork, WorkSteps
<1>4. \A t \in TracksHeard : \A f \in TrackFields : trackRow[t][f] = 0
  BY DEF EnrichmentInit
<1>5. 0 \in EnrichValues
  BY EnrichmentAssumption DEF EnrichValues
<1> QED
  BY <1>1, <1>2, <1>3, <1>4, <1>5 DEF EnrichReal, Enrichers

(* One worker, or the chain, goes on to e.                                 *)
LEMMA RealGoes ==
  ASSUME EnrichTyped, EnrichReal, NEW w \in Enrichers, NEW e, enricher' = [enricher EXCEPT ![w] = e],
         coolingDown' \subseteq ProvidersInOrder, covers' \subseteq AlbumsHeard,
         \A t \in TracksHeard : \A f \in TrackFields : trackRow'[t][f] \in EnrichValues,
         e \in AtWork => NumbersReal(e), w = Chain \/ e = Free \/ AnAlbums(e.todo),
         \A i \in DOMAIN groups' : AnAlbums(groups'[i])
  PROVE  EnrichReal'
<1>1. enricher'[w] = e /\ \A v \in Enrichers : v # w => enricher'[v] = enricher[v]
  BY DEF EnrichTyped
<1>2. \A v \in Enrichers : enricher'[v] \in AtWork => NumbersReal(enricher'[v])
  BY <1>1 DEF EnrichReal
<1>3. \A v \in BulkWorkers : v \in Enrichers /\ v # Chain
  BY EnrichmentAssumption DEF Enrichers
<1>4. \A v \in BulkWorkers : enricher'[v] # Free => AnAlbums(enricher'[v].todo)
  BY <1>1, <1>3 DEF EnrichReal
<1> QED
  BY <1>2, <1>4 DEF EnrichReal

(* A worker at work stays at work on the same tracks.                      *)
LEMMA RealWorks ==
  ASSUME EnrichTyped, EnrichReal, NEW w \in Enrichers, NEW g \in AtWork, g = enricher[w], NEW e,
         enricher' = [enricher EXCEPT ![w] = e], e.todo = g.todo,
         coolingDown' \subseteq ProvidersInOrder, covers' \subseteq AlbumsHeard,
         \A t \in TracksHeard : \A f \in TrackFields : trackRow'[t][f] \in EnrichValues,
         NumbersReal(e), groups' = groups
  PROVE  EnrichReal'
<1>1. g # Free
  BY DEF AtWork, Free, WorkSteps
<1>2. w = Chain \/ AnAlbums(e.todo)
  BY <1>1 DEF EnrichReal, Enrichers
<1> QED
  BY <1>2, RealGoes DEF EnrichReal

\* The rest of an album's tracks is no longer.
LEMMA RestAnAlbums ==
  ASSUME NEW todo \in Seq(TracksHeard), AnAlbums(todo)
  PROVE  AnAlbums(Tail(todo))
<1>1. PICK a \in AlbumsHeard : Len(todo) <= Len(AlbumTracks[a])
  BY DEF AnAlbums
<1>2. Len(AlbumTracks[a]) \in Nat
  BY EnrichmentAssumption
<1>3. CASE todo = <<>>
  <2>1. Tail(todo) = <<>>
    BY <1>3
  <2> QED
    BY <1>2, <2>1 DEF AnAlbums
<1>4. CASE todo # <<>>
  <2>1. Len(Tail(todo)) = Len(todo) - 1 /\ Len(todo) \in Nat
    BY <1>4
  <2> QED
    BY <1>1, <1>2, <2>1 DEF AnAlbums
<1> QED
  BY <1>3, <1>4

LEMMA RealEnds ==
  ASSUME EnrichTyped, EnrichReal, NEW w \in Enrichers, enricher[w] # Free, TrackDone(w),
         coolingDown' \subseteq ProvidersInOrder, UNCHANGED <<covers, groups>>,
         \A t \in TracksHeard : \A f \in TrackFields : trackRow'[t][f] \in EnrichValues
  PROVE  EnrichReal'
<1>1. coolingDown' \subseteq ProvidersInOrder /\ covers' \subseteq AlbumsHeard /\ \A i \in DOMAIN groups' : AnAlbums(groups'[i])
  BY DEF EnrichReal
<1>2. CASE w = Chain
  <2>1. enricher' = [enricher EXCEPT ![w] = Free] /\ Free \notin AtWork
    BY <1>2 DEF TrackDone, Free, AtWork, WorkSteps
  <2> QED
    BY <1>1, <2>1, RealGoes
<1>3. CASE w # Chain
  <2>1. PICK g : g = enricher[w]
    OBVIOUS
  <2>2. PICK e : e = [at |-> "next", todo |-> Tail(g.todo), late |-> FALSE]
    OBVIOUS
  <2>3. enricher' = [enricher EXCEPT ![w] = e]
    BY <1>3, <2>1, <2>2 DEF TrackDone, EnrichTyped
  <2>4. e \notin AtWork /\ e.todo = Tail(g.todo)
    BY <2>2 DEF AtWork, WorkSteps
  <2>5. g.todo \in Seq(TracksHeard) /\ AnAlbums(g.todo)
    BY <1>3, <2>1 DEF EnrichTyped, EnrichReal, Enrichers, AtNext, AtWork
  <2>6. AnAlbums(e.todo)
    BY <2>4, <2>5, RestAnAlbums
  <2> QED
    BY <1>1, <2>3, <2>4, <2>6, RealGoes
<1> QED
  BY <1>2, <1>3

\* Where a worker's step takes it: to at, with the provider p next.
GoneOn(w, at, p) ==
  /\ enricher'[w].at = at /\ enricher'[w].prov = p
  /\ enricher'[w].todo = enricher[w].todo /\ enricher'[w].trackCopy = enricher[w].trackCopy
  /\ enricher' = [enricher EXCEPT ![w] = enricher'[w]]

LEMMA RealForms ==
  ASSUME EnrichTyped, NEW w \in Enrichers, NEW g \in AtWork, g = enricher[w]
  PROVE  /\ \A at : GoesOn(w, at) => GoneOn(w, at, g.prov)
         /\ \A at, n : TurnsTo(w, at, n) => GoneOn(w, at, n)
         /\ ProviderDone(w) => GoneOn(w, "provider", g.prov + 1)
<1>1. enricher = [v \in Enrichers |-> enricher[v]]
  BY DEF EnrichTyped
<1>2. /\ {"at", "todo", "trackCopy", "prov", "asked"} \subseteq DOMAIN g
      /\ g.prov \in Nat
  BY DEF AtWork
<1>3. ASSUME NEW at, GoesOn(w, at) PROVE GoneOn(w, at, g.prov)
  BY <1>1, <1>2, <1>3 DEF GoesOn, GoneOn
<1>4. ASSUME NEW at, NEW n, TurnsTo(w, at, n) PROVE GoneOn(w, at, n)
  BY <1>1, <1>2, <1>4 DEF TurnsTo, GoneOn
<1>5. ASSUME ProviderDone(w) PROVE GoneOn(w, "provider", g.prov + 1)
  <2>1. PICK n : n = g.prov + 1
    OBVIOUS
  <2>2. PICK e : e = [g EXCEPT !.at = "provider", !.prov = n, !.asked = TRUE]
    OBVIOUS
  <2>3. e.at = "provider" /\ e.prov = n /\ e.todo = g.todo /\ e.trackCopy = g.trackCopy
    BY <1>2, <2>2
  <2>4. enricher' = [enricher EXCEPT ![w] = e]
    BY <1>1, <1>2, <1>5, <2>1, <2>2 DEF ProviderDone
  <2>5. enricher'[w] = e
    BY <1>1, <2>4
  <2> QED
    BY <2>1, <2>3, <2>4, <2>5 DEF GoneOn
<1> QED
  BY <1>3, <1>4, <1>5

LEMMA RealTurns ==
  ASSUME EnrichTyped, EnrichReal, NEW w \in Enrichers, NEW g \in AtWork, g = enricher[w],
         NEW at, NEW p, GoneOn(w, at, p), at \in {"provider", "image"} \cup AskSteps => p >= 1,
         at \in AskSteps => p <= EnrichProviders,
         coolingDown' \subseteq ProvidersInOrder, covers' \subseteq AlbumsHeard,
         \A t \in TracksHeard : \A f \in TrackFields : trackRow'[t][f] \in EnrichValues, groups' = groups
  PROVE  EnrichReal'
<1>1. PICK e : e = enricher'[w]
  OBVIOUS
<1>2. NumbersReal(e)
  BY <1>1 DEF NumbersReal, EnrichReal, GoneOn
<1>3. enricher' = [enricher EXCEPT ![w] = e] /\ e.todo = g.todo
  BY <1>1 DEF GoneOn
<1> QED
  BY <1>2, <1>3, RealWorks

\* What a question does to the cooldown.
LEMMA AskedReal ==
  ASSUME EnrichReal, NEW w, NEW p \in ProvidersInOrder, NEW answer, AskProvider(w, p, answer)
  PROVE  coolingDown' \subseteq ProvidersInOrder
  BY DEF AskProvider, EnrichReal

\* A worker at work, and what is known of it.
LEMMA RealAtWork ==
  ASSUME EnrichInv, EnrichReal, NEW w \in Enrichers, enricher[w].at \in WorkSteps
  PROVE  \E g \in AtWork :
           /\ g = enricher[w] /\ NumbersReal(g) /\ g # Free /\ g.album \in AlbumsHeard /\ g.prov \in Nat
           /\ g.at \in AskSteps => g.prov \in ProvidersInOrder
<1>1. PICK g \in AtWork : g = enricher[w]
  BY EnrichersTyped DEF EnrichInv
<1>2. NumbersReal(g) /\ g # Free /\ g.album \in AlbumsHeard /\ g.prov \in Nat
  BY <1>1 DEF EnrichReal, AtWork, Free, WorkSteps
<1>3. g.at \in AskSteps => g.prov \in ProvidersInOrder
  BY <1>2, EnrichmentAssumption DEF NumbersReal, ProvidersInOrder
<1> QED
  BY <1>1, <1>2, <1>3

LEMMA AskTitleReal == ASSUME EnrichInv, EnrichReal, NEW w \in Enrichers, AskTitle(w) PROVE EnrichReal'
<1>1. enricher[w].at = "title" /\ UNCHANGED <<trackRow, covers, groups>>
  BY DEF AskTitle, Rows, EnrichJob
<1>2. PICK g \in AtWork :
        /\ g = enricher[w] /\ NumbersReal(g) /\ g.prov \in Nat /\ g.prov \in ProvidersInOrder
  BY <1>1, RealAtWork DEF WorkSteps, AskSteps
<1>3. g.prov >= 1 /\ g.prov <= EnrichProviders /\ g.prov + 1 >= 1
  BY <1>2, EnrichmentAssumption DEF ProvidersInOrder
<1>4. covers' \subseteq AlbumsHeard /\ \A t \in TracksHeard : \A f \in TrackFields : trackRow'[t][f] \in EnrichValues
  BY <1>1 DEF EnrichReal
<1>5. CASE GoesOn(w, "cover") /\ UNCHANGED Asked
  <2>1. GoneOn(w, "cover", g.prov)
    BY <1>2, <1>5, RealForms DEF EnrichInv
  <2>2. coolingDown' \subseteq ProvidersInOrder
    BY <1>5 DEF Asked, EnrichReal
  <2> QED
    BY <1>1, <1>2, <1>3, <1>4, <2>1, <2>2, RealTurns DEF EnrichInv
<1>6. ASSUME NEW answer, AskProvider(w, enricher[w].prov, answer),
             \/ enricher' = [enricher EXCEPT ![w].at = "cover", ![w].albumMod = TRUE, ![w].albumCopy.title = enricher[w].prov]
             \/ ProviderDone(w)
      PROVE  EnrichReal'
  <2>1. coolingDown' \subseteq ProvidersInOrder
    BY <1>2, <1>6, AskedReal
  <2>2. GoneOn(w, "cover", g.prov) \/ GoneOn(w, "provider", g.prov + 1)
    <3>1. CASE ProviderDone(w)
      BY <1>2, <3>1, RealForms DEF EnrichInv
    <3>2. CASE enricher' = [enricher EXCEPT ![w].at = "cover", ![w].albumMod = TRUE, ![w].albumCopy.title = enricher[w].prov]
      <4>1. enricher = [v \in Enrichers |-> enricher[v]] /\ {"at", "todo", "trackCopy", "prov"} \subseteq DOMAIN g
        BY DEF EnrichInv, EnrichTyped, AtWork
      <4> QED
        BY <1>2, <3>2, <4>1, ZenonT(40) DEF GoneOn
    <3> QED
      BY <1>6, <3>1, <3>2
  <2> QED
    <3>1. "provider" \notin AskSteps
      BY DEF AskSteps
    <3>2. CASE GoneOn(w, "cover", g.prov)
      BY <1>1, <1>2, <1>3, <1>4, <2>1, <3>2, RealTurns DEF EnrichInv
    <3>3. CASE GoneOn(w, "provider", g.prov + 1)
      BY <1>1, <1>2, <1>3, <1>4, <2>1, <3>1, <3>3, RealTurns DEF EnrichInv
    <3> QED
      BY <2>2, <3>2, <3>3
<1> QED
  BY <1>5, <1>6 DEF AskTitle

LEMMA AskCoverReal == ASSUME EnrichInv, EnrichReal, NEW w \in Enrichers, AskCover(w) PROVE EnrichReal'
<1>1. enricher[w].at = "cover" /\ UNCHANGED <<trackRow, groups>>
  BY DEF AskCover, Rows, EnrichJob
<1>2. PICK g \in AtWork :
        /\ g = enricher[w] /\ NumbersReal(g) /\ g.prov \in Nat /\ g.prov \in ProvidersInOrder /\ g.album \in AlbumsHeard
  BY <1>1, RealAtWork DEF WorkSteps, AskSteps
<1>3. g.prov >= 1 /\ g.prov <= EnrichProviders /\ g.prov + 1 >= 1
  BY <1>2, EnrichmentAssumption DEF ProvidersInOrder
<1>4. \A t \in TracksHeard : \A f \in TrackFields : trackRow'[t][f] \in EnrichValues
  BY <1>1 DEF EnrichReal
<1>5. covers' \subseteq covers \cup {g.album}
  BY <1>2 DEF AskCover
<1>6. covers' \subseteq AlbumsHeard
  BY <1>2, <1>5 DEF EnrichReal
<1>7. coolingDown' \subseteq ProvidersInOrder
  <2>1. UNCHANGED Asked \/ \E answer : AskProvider(w, g.prov, answer)
    BY <1>2 DEF AskCover
  <2>2. UNCHANGED Asked => coolingDown' \subseteq ProvidersInOrder
    BY DEF Asked, EnrichReal
  <2> QED
    BY <1>2, <2>1, <2>2, AskedReal
<1>8. GoesOn(w, "meta") \/ ProviderDone(w)
  BY DEF AskCover
<1>9. GoneOn(w, "meta", g.prov) \/ GoneOn(w, "provider", g.prov + 1)
  BY <1>2, <1>8, RealForms DEF EnrichInv
<1>10. "provider" \notin AskSteps
  BY DEF AskSteps
<1>11. CASE GoneOn(w, "meta", g.prov)
  BY <1>1, <1>2, <1>3, <1>4, <1>6, <1>7, <1>11, RealTurns DEF EnrichInv
<1>12. CASE GoneOn(w, "provider", g.prov + 1)
  BY <1>1, <1>2, <1>3, <1>4, <1>6, <1>7, <1>10, <1>12, RealTurns DEF EnrichInv
<1> QED
  BY <1>9, <1>11, <1>12

LEMMA ProviderTurnReal == ASSUME EnrichInv, EnrichReal, NEW w \in Enrichers, ProviderTurn(w) PROVE EnrichReal'
<1>1. enricher[w].at = "provider" /\ UNCHANGED <<trackRow, groups, covers, coolingDown>>
  BY DEF ProviderTurn, Rows, EnrichJob, Asked
<1>2. PICK g \in AtWork : g = enricher[w] /\ NumbersReal(g) /\ g.prov \in Nat
  BY <1>1, RealAtWork DEF WorkSteps
<1>3. g.prov >= 1 /\ g.prov + 1 >= 1
  BY <1>1, <1>2 DEF NumbersReal
<1>4. /\ coolingDown' \subseteq ProvidersInOrder /\ covers' \subseteq AlbumsHeard
      /\ \A t \in TracksHeard : \A f \in TrackFields : trackRow'[t][f] \in EnrichValues
  BY <1>1 DEF EnrichReal
<1>5. \/ TurnsTo(w, "image", 1) \/ GoesOn(w, "thumb")
      \/ enricher' = [enricher EXCEPT ![w].prov = g.prov + 1, ![w].asked = FALSE]
      \/ g.prov <= EnrichProviders /\ GoesOn(w, "title")
  <2>1. CASE markImageAttemptDue(w, g.late)
    BY <2>1 DEF markImageAttemptDue
  <2>2. CASE ~ (g.prov > EnrichProviders) /\ GoesOn(w, "title")
    BY <1>2, <2>2, EnrichmentAssumption
  <2>3. \/ markImageAttemptDue(w, g.late) \/ (~ (g.prov > EnrichProviders) /\ GoesOn(w, "title"))
        \/ enricher' = [enricher EXCEPT ![w].prov = g.prov + 1, ![w].asked = FALSE]
    BY <1>2 DEF ProviderTurn
  <2> QED
    BY <2>1, <2>2, <2>3
<1>6. CASE TurnsTo(w, "image", 1) \/ GoesOn(w, "thumb") \/ (g.prov <= EnrichProviders /\ GoesOn(w, "title"))
  <2>1. \/ GoneOn(w, "image", 1) \/ GoneOn(w, "thumb", g.prov)
        \/ g.prov <= EnrichProviders /\ GoneOn(w, "title", g.prov)
    BY <1>2, <1>6, RealForms DEF EnrichInv
  <2>2. "image" \notin AskSteps /\ "thumb" \notin {"provider", "image"} \cup AskSteps
    BY DEF AskSteps
  <2> QED
    BY <1>1, <1>2, <1>3, <1>4, <2>1, <2>2, RealTurns DEF EnrichInv
<1>7. CASE enricher' = [enricher EXCEPT ![w].prov = g.prov + 1, ![w].asked = FALSE]
  <2>1. enricher = [v \in Enrichers |-> enricher[v]] /\ {"at", "todo", "trackCopy", "prov"} \subseteq DOMAIN g
    BY DEF EnrichInv, EnrichTyped, AtWork
  <2>2. GoneOn(w, "provider", g.prov + 1)
    BY <1>1, <1>2, <1>7, <2>1 DEF GoneOn
  <2>3. "provider" \notin AskSteps
    BY DEF AskSteps
  <2> QED
    BY <1>1, <1>2, <1>3, <1>4, <2>2, <2>3, RealTurns DEF EnrichInv
<1> QED
  BY <1>5, <1>6, <1>7

LEMMA EnrichTrackReal == ASSUME EnrichInv, EnrichReal, NEW w \in Enrichers, EnrichTrack(w) PROVE EnrichReal'
<1>1. enricher[w].at = "meta" /\ UNCHANGED <<trackRow, covers, groups>>
  BY DEF EnrichTrack, Rows, EnrichJob
<1>2. PICK g \in AtWork :
        /\ g = enricher[w] /\ NumbersReal(g) /\ g.prov \in Nat /\ g.prov \in ProvidersInOrder
  BY <1>1, RealAtWork DEF WorkSteps, AskSteps
<1>3. g.prov + 1 >= 1 /\ g.prov \in EnrichValues /\ "provider" \notin AskSteps
  BY <1>2, EnrichmentAssumption DEF ProvidersInOrder, EnrichValues, AskSteps
<1>4. covers' \subseteq AlbumsHeard /\ \A t \in TracksHeard : \A f \in TrackFields : trackRow'[t][f] \in EnrichValues
  BY <1>1 DEF EnrichReal
<1>5. ASSUME NEW answer, AskProvider(w, g.prov, answer), ProviderDone(w) PROVE EnrichReal'
  <2>1. coolingDown' \subseteq ProvidersInOrder
    BY <1>2, <1>5, AskedReal
  <2>2. GoneOn(w, "provider", g.prov + 1)
    BY <1>2, <1>5, RealForms DEF EnrichInv
  <2> QED
    BY <1>1, <1>2, <1>3, <1>4, <2>1, <2>2, RealTurns DEF EnrichInv
<1>6. ASSUME NEW tf \in SUBSET TrackFields, NEW af \in SUBSET (AlbumFields \ {"title", "thumb"}),
             LET e == enricher[w] IN
             LET t == FillIn(e.trackCopy, tf, e.prov)  a == FillIn(e.albumCopy, af, e.prov) IN
             /\ AskProvider(w, e.prov, "found")
             /\ enricher' = [enricher EXCEPT ![w].at = "provider", ![w].prov = @ + 1, ![w].asked = TRUE,
                            ![w].trackCopy = t, ![w].albumCopy = a,
                            ![w].trackMod = @ \/ t # e.trackCopy, ![w].albumMod = @ \/ a # e.albumCopy]
      PROVE  EnrichReal'
  <2>a. PICK t, a : t = FillIn(g.trackCopy, tf, g.prov) /\ a = FillIn(g.albumCopy, af, g.prov)
    OBVIOUS
  <2>b. /\ AskProvider(w, g.prov, "found")
        /\ enricher' = [enricher EXCEPT ![w].at = "provider", ![w].prov = @ + 1, ![w].asked = TRUE,
                            ![w].trackCopy = t, ![w].albumCopy = a,
                            ![w].trackMod = @ \/ t # g.trackCopy, ![w].albumMod = @ \/ a # g.albumCopy]
    BY <1>2, <1>6, <2>a
  <2>1. coolingDown' \subseteq ProvidersInOrder
    BY <1>2, <2>b, AskedReal
  <2>2. \A f \in TrackFields : t[f] \in EnrichValues
    <3>1. DOMAIN g.trackCopy = TrackFields
      BY DEF AtWork, TrackValues
    <3>2. \A f \in TrackFields : t[f] \in {g.prov, g.trackCopy[f]}
      BY <2>a, <3>1 DEF FillIn
    <3> QED
      BY <1>2, <1>3, <3>2 DEF NumbersReal
  <2>3. PICK n : n = g.prov + 1
    OBVIOUS
  <2>4. PICK e : e = [g EXCEPT !.at = "provider", !.prov = n, !.asked = TRUE, !.trackCopy = t, !.albumCopy = a,
                          !.trackMod = @ \/ t # g.trackCopy, !.albumMod = @ \/ a # g.albumCopy]
    OBVIOUS
  <2>5. enricher = [v \in Enrichers |-> enricher[v]]
        /\ {"at", "todo", "trackCopy", "prov", "asked", "albumCopy", "trackMod", "albumMod"} \subseteq DOMAIN g
    BY DEF EnrichInv, EnrichTyped, AtWork
  <2>6. e.at = "provider" /\ e.prov = n /\ e.todo = g.todo /\ e.trackCopy = t
    BY <2>4, <2>5
  <2>7. enricher' = [enricher EXCEPT ![w] = e]
    BY <1>2, <2>b, <2>3, <2>4, <2>5
  <2>8. NumbersReal(e)
    BY <1>3, <2>2, <2>3, <2>6 DEF NumbersReal
  <2> QED
    BY <1>1, <1>2, <1>4, <2>1, <2>6, <2>7, <2>8, RealWorks DEF EnrichInv
<1> QED
  BY <1>2, <1>5, <1>6 DEF EnrichTrack

LEMMA ArtistImageReal == ASSUME EnrichInv, EnrichReal, NEW w \in Enrichers, enrichArtistImage(w) PROVE EnrichReal'
<1>1. enricher[w].at = "image" /\ UNCHANGED <<trackRow, covers, groups>>
  BY DEF enrichArtistImage, Rows, EnrichJob
<1>2. PICK g \in AtWork : g = enricher[w] /\ NumbersReal(g) /\ g.prov \in Nat /\ g # Free
  BY <1>1, RealAtWork DEF WorkSteps
<1>3. g.prov >= 1 /\ g.prov + 1 >= 1
  BY <1>1, <1>2 DEF NumbersReal
<1>4. covers' \subseteq AlbumsHeard /\ \A t \in TracksHeard : \A f \in TrackFields : trackRow'[t][f] \in EnrichValues
  BY <1>1 DEF EnrichReal
<1>5. ImageOver(w) \/ TurnsTo(w, "image", g.prov + 1)
  BY <1>2 DEF enrichArtistImage
<1>6. \/ UNCHANGED Asked
      \/ ~ (g.prov > 2 * EnrichProviders) /\ \E answer : AskProvider(w, ((g.prov - 1) % EnrichProviders) + 1, answer)
  BY <1>2 DEF enrichArtistImage
<1>7. coolingDown' \subseteq ProvidersInOrder
  <2>1. CASE UNCHANGED Asked
    BY <2>1 DEF Asked, EnrichReal
  <2>2. ASSUME NEW answer, ~ (g.prov > 2 * EnrichProviders),
               AskProvider(w, ((g.prov - 1) % EnrichProviders) + 1, answer)
        PROVE  coolingDown' \subseteq ProvidersInOrder
    <3>1. EnrichProviders \in Nat \ {0} /\ g.prov - 1 \in Nat
      BY <1>2, <1>3, <2>2, EnrichmentAssumption
    <3>2. PICK n \in Nat \ {0} : n = EnrichProviders
      BY <3>1
    <3>3. PICK m \in Nat : m = g.prov - 1
      BY <3>1
    <3>4. m % n \in 0 .. n - 1
      OBVIOUS
    <3>5. (m % n) + 1 \in 1 .. n
      BY <3>4
    <3>6. PICK p : p = (m % n) + 1
      OBVIOUS
    <3>7. p \in ProvidersInOrder /\ AskProvider(w, p, answer)
      BY <2>2, <3>2, <3>3, <3>5, <3>6 DEF ProvidersInOrder
    <3> QED
      BY <3>7, AskedReal
  <2> QED
    BY <1>6, <2>1, <2>2
<1>8. CASE TurnsTo(w, "image", g.prov + 1) \/ GoesOn(w, "thumb")
  <2>1. GoneOn(w, "image", g.prov + 1) \/ GoneOn(w, "thumb", g.prov)
    BY <1>2, <1>8, RealForms DEF EnrichInv
  <2>2. "image" \notin AskSteps /\ "thumb" \notin {"provider", "image"} \cup AskSteps
    BY DEF AskSteps
  <2>3. CASE GoneOn(w, "image", g.prov + 1)
    BY <1>1, <1>2, <1>3, <1>4, <1>7, <2>2, <2>3, RealTurns DEF EnrichInv
  <2>4. CASE GoneOn(w, "thumb", g.prov)
    BY <1>1, <1>2, <1>3, <1>4, <1>7, <2>2, <2>4, RealTurns DEF EnrichInv
  <2> QED
    BY <2>1, <2>3, <2>4
<1>9. CASE TrackDone(w)
  <2>1. coolingDown' \subseteq ProvidersInOrder
    BY <1>7
  <2> QED
    BY <1>1, <1>2, <1>4, <1>9, <2>1, RealEnds DEF EnrichInv
<1> QED
  BY <1>5, <1>8, <1>9 DEF ImageOver

LEMMA SyncThumbReal == ASSUME EnrichInv, EnrichReal, NEW w \in Enrichers, SyncThumb(w) PROVE EnrichReal'
<1>1. enricher[w].at = "thumb" /\ UNCHANGED <<trackRow, covers, groups, coolingDown>>
  BY DEF SyncThumb, Rows, EnrichJob, Asked
<1>2. PICK g \in AtWork : g = enricher[w] /\ NumbersReal(g)
  BY <1>1, RealAtWork DEF WorkSteps
<1>3. "track" \notin {"provider", "image"} \cup AskSteps
  BY DEF AskSteps
<1>4. GoneOn(w, "track", g.prov)
  <2>1. CASE GoesOn(w, "track")
    BY <1>2, <2>1, RealForms DEF EnrichInv
  <2>2. CASE enricher' = [enricher EXCEPT ![w].at = "track", ![w].albumMod = TRUE, ![w].albumCopy.thumb = 1]
    <3>1. enricher = [v \in Enrichers |-> enricher[v]] /\ {"at", "todo", "trackCopy", "prov"} \subseteq DOMAIN g
      BY DEF EnrichInv, EnrichTyped, AtWork
    <3> QED
      BY <1>2, <2>2, <3>1, ZenonT(40) DEF GoneOn
  <2> QED
    BY <2>1, <2>2 DEF SyncThumb
<1> QED
  BY <1>1, <1>2, <1>3, <1>4, RealTurns DEF EnrichInv, EnrichReal

LEMMA WriteTrackReal == ASSUME EnrichInv, EnrichReal, NEW w \in Enrichers, WriteTrackRow(w) PROVE EnrichReal'
<1>1. enricher[w].at = "track" /\ GoesOn(w, "album") /\ UNCHANGED <<covers, groups, coolingDown>>
  BY DEF WriteTrackRow, EnrichJob, Asked
<1>2. PICK g \in AtWork : g = enricher[w] /\ NumbersReal(g)
  BY <1>1, RealAtWork DEF WorkSteps
<1>3. "album" \notin {"provider", "image"} \cup AskSteps
  BY DEF AskSteps
<1>4. GoneOn(w, "album", g.prov)
  BY <1>1, <1>2, RealForms DEF EnrichInv
<1>5. \A t \in TracksHeard : \A f \in TrackFields : trackRow'[t][f] \in EnrichValues
  <2>1. trackRow' = trackRow \/ trackRow' = [trackRow EXCEPT ![g.track] = g.trackCopy]
    BY <1>2 DEF WriteTrackRow
  <2>2. DOMAIN trackRow = TracksHeard
    BY DEF EnrichInv, EnrichTyped
  <2> QED
    BY <1>2, <2>1, <2>2 DEF EnrichReal, NumbersReal
<1> QED
  BY <1>1, <1>2, <1>3, <1>4, <1>5, RealTurns DEF EnrichInv, EnrichReal

LEMMA ReadReal == ASSUME EnrichInv, EnrichReal, NEW w \in Enrichers, ReadForEnrich(w) PROVE EnrichReal'
<1>1. /\ enricher[w].at = "next" /\ enricher[w].todo # <<>> /\ UNCHANGED <<trackRow, covers, groups, coolingDown>>
      /\ enricher[w] \in AtNext /\ enricher[w] # Free /\ enricher[w].todo \in Seq(TracksHeard)
  BY EnrichersTyped DEF ReadForEnrich, Rows, EnrichJob, Asked, EnrichInv, AtNext
<1>2. PICK t \in TracksHeard : t = Head(enricher[w].todo)
  BY <1>1, TailOf
<1>3. CASE TrackDone(w)
  BY <1>1, <1>3, RealEnds DEF EnrichInv, EnrichReal
<1>4. ASSUME NEW at \in {"provider", "image"}, NEW a,
             enricher' = [enricher EXCEPT ![w] =
               [at |-> at, todo |-> @.todo, late |-> @.late, track |-> t, album |-> a,
                trackCopy |-> trackRow[t], albumCopy |-> albumFields[a], trackMod |-> FALSE, albumMod |-> FALSE,
                prov |-> 1, asked |-> FALSE, skipImage |-> w # Chain /\ imageTried, only |-> at = "image"]]
      PROVE  EnrichReal'
  <2>1. PICK e :
          e = [at |-> at, todo |-> enricher[w].todo, late |-> enricher[w].late, track |-> t, album |-> a,
               trackCopy |-> trackRow[t], albumCopy |-> albumFields[a], trackMod |-> FALSE, albumMod |-> FALSE,
               prov |-> 1, asked |-> FALSE, skipImage |-> w # Chain /\ imageTried, only |-> at = "image"]
    OBVIOUS
  <2>2. e.at = at /\ e.todo = enricher[w].todo /\ e.trackCopy = trackRow[t] /\ e.prov = 1
    BY <2>1
  <2>3. enricher' = [enricher EXCEPT ![w] = e]
    BY <1>4, <2>1 DEF EnrichInv, EnrichTyped
  <2>4. at \notin AskSteps
    BY DEF AskSteps
  <2>5. NumbersReal(e)
    BY <2>2, <2>4 DEF NumbersReal, EnrichReal
  <2>6. w = Chain \/ AnAlbums(e.todo)
    BY <1>1, <2>2 DEF EnrichReal, Enrichers
  <2> QED
    BY <1>1, <2>3, <2>5, <2>6, RealGoes DEF EnrichInv, EnrichReal
<1> QED
  BY <1>2, <1>3, <1>4 DEF ReadForEnrich

LEMMA WriteAlbumReal == ASSUME EnrichInv, EnrichReal, NEW w \in Enrichers, WriteAlbumRow(w) PROVE EnrichReal'
<1>1. /\ enricher[w].at = "album" /\ TrackDone(w) /\ UNCHANGED <<trackRow, covers, groups, coolingDown>>
      /\ enricher[w] # Free
  BY RealAtWork DEF WriteAlbumRow, EnrichJob, Asked, WorkSteps, AtWork, Free
<1> QED
  BY <1>1, RealEnds DEF EnrichInv, EnrichReal

LEMMA DeadlineReal == ASSUME EnrichInv, EnrichReal, NEW w \in BulkWorkers, DeadlinePasses(w) PROVE EnrichReal'
<1>1. /\ w \in Enrichers /\ enricher[w].at \in WorkSteps /\ UNCHANGED <<trackRow, covers, groups, coolingDown>>
      /\ enricher' = [enricher EXCEPT ![w].late = TRUE]
  BY DEF DeadlinePasses, Enrichers, WorkSteps, Rows, EnrichJob, Asked
<1>2. PICK g \in AtWork : g = enricher[w] /\ NumbersReal(g)
  BY <1>1, RealAtWork
<1>3. GoneOn(w, g.at, g.prov)
  <2>1. enricher = [v \in Enrichers |-> enricher[v]] /\ {"at", "todo", "trackCopy", "prov"} \subseteq DOMAIN g
    BY DEF EnrichInv, EnrichTyped, AtWork
  <2> QED
    BY <1>1, <1>2, <2>1 DEF GoneOn
<1>4. /\ g.at \in {"provider", "image"} \cup AskSteps => g.prov >= 1
      /\ g.at \in AskSteps => g.prov <= EnrichProviders
  BY <1>2 DEF NumbersReal
<1> QED
  BY <1>1, <1>2, <1>3, <1>4, RealTurns DEF EnrichInv, EnrichReal

LEMMA EnrichAllReal == ASSUME EnrichInv, EnrichReal, EnrichAll PROVE EnrichReal'
<1>1. groups' = groupTracksByAlbum /\ UNCHANGED <<trackRow, covers, enricher, coolingDown>>
  BY DEF EnrichAll, Rows, Asked
<1>2. PICK n \in Nat : groups' \in [1 .. n -> {AlbumTracks[a] : a \in AlbumsHeard}]
  BY <1>1, GroupsInOrder
<1>3. \A i \in DOMAIN groups' : AnAlbums(groups'[i])
  <2>1. TAKE i \in DOMAIN groups'
  <2>2. PICK a \in AlbumsHeard : groups'[i] = AlbumTracks[a]
    BY <1>2
  <2>3. Len(AlbumTracks[a]) \in Nat
    BY EnrichmentAssumption
  <2> QED
    BY <2>2, <2>3 DEF AnAlbums
<1> QED
  BY <1>1, <1>3 DEF EnrichReal

LEMMA TakeGroupReal == ASSUME EnrichInv, EnrichReal, NEW w \in BulkWorkers, TakeGroup(w) PROVE EnrichReal'
<1>1. /\ w \in Enrichers /\ groups # <<>> /\ groups' = Tail(groups) /\ UNCHANGED <<trackRow, covers, coolingDown>>
      /\ enricher' = [enricher EXCEPT ![w] = [at |-> "next", todo |-> Head(groups), late |-> FALSE]]
  BY DEF TakeGroup, Enrichers, Rows, Asked
<1>2. PICK e : e = [at |-> "next", todo |-> Head(groups), late |-> FALSE]
  OBVIOUS
<1>3. e.todo = Head(groups) /\ e.at = "next" /\ e \notin AtWork
  BY <1>2 DEF AtWork, WorkSteps
<1>4. groups \in Seq(Seq(TracksHeard))
  BY DEF EnrichInv, EnrichTyped
<1>5. \A i \in DOMAIN Tail(groups) : i + 1 \in DOMAIN groups /\ Tail(groups)[i] = groups[i + 1]
  BY <1>1, <1>4, TailOf
<1>6. 1 \in DOMAIN groups /\ Head(groups) = groups[1]
  BY <1>1, <1>4
<1>7. AnAlbums(e.todo) /\ \A i \in DOMAIN groups' : AnAlbums(groups'[i])
  BY <1>1, <1>3, <1>5, <1>6 DEF EnrichReal
<1> QED
  BY <1>1, <1>2, <1>3, <1>7, RealGoes DEF EnrichInv, EnrichReal

LEMMA FreedReal == ASSUME EnrichInv, EnrichReal, NEW w \in BulkWorkers, GroupDone(w) PROVE EnrichReal'
<1>1. /\ w \in Enrichers /\ enricher' = [enricher EXCEPT ![w] = Free]
      /\ UNCHANGED <<trackRow, covers, groups, coolingDown>>
  BY DEF GroupDone, Enrichers, Rows, EnrichJob, Asked
<1>2. Free \notin AtWork
  BY DEF Free, AtWork, WorkSteps
<1> QED
  BY <1>1, <1>2, RealGoes DEF EnrichInv, EnrichReal

LEMMA HandleImportReal == ASSUME EnrichInv, EnrichReal, NEW t \in TracksHeard, HandleImport(t) PROVE EnrichReal'
<1>1. /\ Chain \in Enrichers /\ UNCHANGED <<trackRow, covers, groups, coolingDown>>
      /\ enricher' = [enricher EXCEPT ![Chain] = [at |-> "next", todo |-> <<t>>, late |-> FALSE]]
  BY DEF HandleImport, Enrichers, Rows, Asked
<1>2. PICK e : e = [at |-> "next", todo |-> <<t>>, late |-> FALSE]
  OBVIOUS
<1>3. e \notin AtWork
  BY <1>2 DEF AtWork, WorkSteps
<1> QED
  BY <1>1, <1>2, <1>3, RealGoes DEF EnrichInv, EnrichReal

LEMMA EnrichRealStep == ASSUME EnrichInv, EnrichReal, EnrichmentNext PROVE EnrichReal'
<1>1. CASE EnrichAll
  BY <1>1, EnrichAllReal
<1>2. ASSUME NEW w \in BulkWorkers, TakeGroup(w) \/ GroupDone(w) \/ DeadlinePasses(w) PROVE EnrichReal'
  BY <1>2, TakeGroupReal, FreedReal, DeadlineReal
<1>3. ASSUME NEW t \in TracksHeard, HandleImport(t) PROVE EnrichReal'
  BY <1>3, HandleImportReal
<1>4. ASSUME NEW w \in Enrichers, ReadForEnrich(w) \/ ProviderTurn(w) \/ AskTitle(w) \/ AskCover(w) PROVE EnrichReal'
  BY <1>4, ReadReal, ProviderTurnReal, AskTitleReal, AskCoverReal
<1>5. ASSUME NEW w \in Enrichers,
             EnrichTrack(w) \/ enrichArtistImage(w) \/ SyncThumb(w) \/ WriteTrackRow(w) \/ WriteAlbumRow(w)
      PROVE  EnrichReal'
  BY <1>5, EnrichTrackReal, ArtistImageReal, SyncThumbReal, WriteTrackReal, WriteAlbumReal
<1>6. ASSUME NEW p, CoolsOff(p) PROVE EnrichReal'
  <2>1. coolingDown' \subseteq coolingDown /\ UNCHANGED <<trackRow, covers, groups, enricher>>
    BY <1>6 DEF CoolsOff, Rows, EnrichJob
  <2> QED
    BY <2>1 DEF EnrichReal
<1>7. CASE ImageTimeOver
  <2>1. UNCHANGED <<trackRow, covers, groups, enricher, coolingDown>>
    BY <1>7 DEF ImageTimeOver, Rows, EnrichJob, Asked
  <2> QED
    BY <2>1 DEF EnrichReal
<1> QED
  BY <1>1, <1>2, <1>3, <1>4, <1>5, <1>6, <1>7 DEF EnrichmentNext, Enriches

LEMMA EnrichTypeIfReal == EnrichReal => EnrichmentTypeOK
BY DEF EnrichReal, EnrichmentTypeOK, EnrichValues, AnAlbums

LEMMA EnrichRealHolds == ProvidersSpec => []EnrichReal
<1>1. ProvidersInit => EnrichReal
  BY EnrichRealInit DEF ProvidersInit
<1>2. EnrichInv /\ EnrichReal /\ [ProvidersNext]_<<scene, providers>> => EnrichReal'
  <2>1. EnrichReal /\ UNCHANGED enrichmentVars => EnrichReal'
    BY DEF enrichmentVars, EnrichReal
  <2> QED
    BY <2>1, LibraryScenes, EnrichRealStep
<1> QED
  BY <1>1, <1>2, EnrichInvHolds, PTL DEF ProvidersSpec
=============================================================================
