-------------------------------- MODULE Search --------------------------------
(***************************************************************************)
(* What is chosen for download (download/engine.go, quality/): a track     *)
(* among the answers of the sources, under a quality profile that users    *)
(* edit meanwhile, or an album among the releases of the album sources     *)
(* (download/album_queue.go).  The two share nothing: a behaviour does one *)
(* of them.                                                                *)
(***************************************************************************)
EXTENDS Integers, Sequences, FiniteSets, FiniteSetsExt

CONSTANTS
  DownloadSources,  \* configured plugins that can download
  Pool,             \* results a source may answer with
  MaxAnswer,        \* bound: results of an answer
  Contents,         \* what a profile can say: targets, fallback, mode, rank
  ProfileIds,       \* bound: profiles
  Releases,         \* album releases that match, numbered by their seeders
  MaxProfileEdits   \* bound: profileEdits of profiles

\* What a source answers and what a profile can say.
ASSUME ChoiceAssumption ==
  /\ Pool \subseteq [file : Nat, title : Nat, artist : Nat, duration : Nat, quality : Nat, source : {"none"}]
  /\ Contents \subseteq [targets : Seq(SUBSET Nat), fallback : BOOLEAN, mode : {"priority", "best_quality"},
                         byTier : BOOLEAN]
  /\ IsFiniteSet(DownloadSources) /\ MaxAnswer \in Nat

VARIABLES
  profiles,   \* quality_profiles: what the row says and is_default
  saving,     \* the update handler between its read and its write
  profileEdits, \* edits so far
  finding,    \* FindBestMatch: where it is, query, sources left, profile
  candidates, \* allCandidates
  best,       \* what it returned
  albumQueue  \* QueueAlbumWithFallback: where it is, releases, what it queued

searchVars == <<profiles, saving, profileEdits, finding, candidates, best, albumQueue>>

\* Scores count in 400ths, a similarity in 20ths.
minMatchConfidence == 220
Near == 20
NoCandidate ==
  [file |-> 0, title |-> 0, artist |-> 0, duration |-> 0, quality |-> 0, source |-> "none"]
Blank == [targets |-> <<>>, fallback |-> FALSE, mode |-> "none", byTier |-> FALSE]
NoProfile == [content |-> Blank, isDefault |-> FALSE]
NotSaving == [id |-> 0, content |-> Blank]
NotFinding ==
  [at |-> "idle", query |-> 0, queries |-> 0, left |-> <<>>, excluded |-> "none", profile |-> Blank]
NoAlbumQueue == [at |-> "idle", left |-> 0, releases |-> {}, queued |-> 0, tracks |-> 0]

\* The built-in default: FLAC, then MP3 320, with fallback, ranked by tier.
DefaultProfile ==
  [targets |-> <<{3, 4}, {2}>>, fallback |-> TRUE, mode |-> "priority", byTier |-> TRUE]

SearchInit ==
  /\ profiles = [i \in ProfileIds |-> NoProfile]
  /\ saving = NotSaving /\ profileEdits = 0
  /\ finding = NotFinding /\ candidates = <<>> /\ best = NoCandidate
  /\ albumQueue = NoAlbumQueue

Kept == {i \in ProfileIds : profiles[i] # NoProfile}
Finder == <<finding, candidates, best>>

-----------------------------------------------------------------------------
EditProfiles == profileEdits < MaxProfileEdits /\ profileEdits' = profileEdits + 1

(* The table is created with profiles of which one is the default.         *)
SeedProfiles ==
  /\ Kept = {} /\ profileEdits = 0 /\ finding.at = "idle" /\ albumQueue.at = "idle"
  /\ \E c \in Contents : profiles' = [profiles EXCEPT ![1] = [content |-> c, isDefault |-> TRUE]]
  /\ UNCHANGED <<saving, profileEdits, Finder, albumQueue>>

(* Profiles.  The API writes what a request says: a profile may be created *)
(* as a second default, and the last default may be deleted.               *)
CreateProfile ==
  /\ EditProfiles
  /\ \E i \in ProfileIds \ Kept, c \in Contents, d \in BOOLEAN :
       profiles' = [profiles EXCEPT ![i] = [content |-> c, isDefault |-> d]]
  /\ UNCHANGED <<saving, Finder, albumQueue>>

DeleteProfile ==
  /\ EditProfiles
  /\ \E i \in Kept : profiles' = [profiles EXCEPT ![i] = NoProfile]
  /\ UNCHANGED <<saving, Finder, albumQueue>>

SetDefault ==
  /\ EditProfiles
  /\ \E id \in ProfileIds :
       profiles' = [i \in ProfileIds |->
                     IF i \in Kept THEN [profiles[i] EXCEPT !.isDefault = (i = id)] ELSE NoProfile]
  /\ UNCHANGED <<saving, Finder, albumQueue>>

\* handleUpdateQualityProfile, or a preset for the default of this moment.
ReadForUpdate ==
  /\ saving = NotSaving /\ EditProfiles
  /\ \E i \in Kept, c \in Contents : saving' = [id |-> i, content |-> c]
  /\ UNCHANGED <<profiles, Finder, albumQueue>>

\* An UPDATE of a row that is gone changes nothing; is_default stays.
Update ==
  /\ saving # NotSaving
  /\ profiles' = IF saving.id \in Kept
                 THEN [profiles EXCEPT ![saving.id].content = saving.content] ELSE profiles
  /\ saving' = NotSaving
  /\ UNCHANGED <<profileEdits, Finder, albumQueue>>

LoadDefault ==
  LET defaults == {i \in Kept : profiles[i].isDefault} IN
  IF defaults = {} THEN {DefaultProfile} ELSE {profiles[i].content : i \in defaults}

-----------------------------------------------------------------------------
(* Scores: title 0.40, artist 0.45, duration 0.15; a wrong artist or title *)
(* is rejected.                                                            *)
ScoreTrackMatchWithPath(c) ==
  IF c.artist < 5 \/ c.title < 6 THEN 0 ELSE 8 * c.title + 9 * c.artist + 3 * c.duration

\* Qualities are numbered by TierScore; a target is the set it matches.
TierScore(c) == c.quality
TargetIndex(c, p) ==
  LET hit == {j \in 1 .. Len(p.targets) : c.quality \in p.targets[j]} IN
  IF hit = {} THEN Len(p.targets) + 1 ELSE Min(hit)
Matched(c, p) == TargetIndex(c, p) <= Len(p.targets)

Orders(which) == {f \in [1 .. Cardinality(which) -> which] : \A i \in which : \E j \in DOMAIN f : f[j] = i}
Rearranged(s, f) == [i \in DOMAIN f |-> s[f[i]]]
(* Those at the places "which"; sort.Slice keeps no order among equals.    *)
ByTier(s, which) ==
  {t \in {Rearranged(s, f) : f \in Orders(which)} :
     \A i \in 1 .. Len(t) - 1 : TierScore(t[i]) >= TierScore(t[i + 1])}

\* Mutant: candidates of every target are kept.
FilterLoosely(s, p) ==
  IF Len(p.targets) = 0 THEN {s}
  ELSE LET matching == {i \in DOMAIN s : Matched(s[i], p)} IN
       IF matching = {} /\ ~p.fallback THEN {<<>>}
       ELSE ByTier(s, IF matching = {} THEN DOMAIN s ELSE matching)

(* FilterByProfile: the best target that was reached and its candidates;   *)
(* without one, all of them when the profile falls back.                   *)
FilterByProfile(s, p) ==
  IF Len(p.targets) = 0 THEN {s}
  ELSE LET top == Min({TargetIndex(s[i], p) : i \in DOMAIN s})
       IN IF top > Len(p.targets) /\ ~p.fallback THEN {<<>>}
          ELSE ByTier(s, {i \in DOMAIN s : TargetIndex(s[i], p) = top})

rankAllByQuality(s, p) == ByTier(s, {i \in DOMAIN s : p.fallback \/ Matched(s[i], p)})

\* Of the best so far and the next one, the best.
Better(b, c) ==
  LET d == ScoreTrackMatchWithPath(c) - ScoreTrackMatchWithPath(b) IN
  IF d > Near \/ (d > -Near /\ TierScore(c) > TierScore(b)) THEN c ELSE b
Picks(s) == LET pick[i \in 0 .. Len(s) - 1] == IF i = 0 THEN s[1] ELSE Better(pick[i - 1], s[i + 1]) IN pick
pickBestByScore(s) == Picks(s)[Len(s) - 1]

pickBestByTierScore(s) ==
  s[CHOOSE i \in 1 .. Len(s) :
      \A j \in 1 .. Len(s) : TierScore(s[j]) <= TierScore(s[i])
                            /\ (TierScore(s[j]) = TierScore(s[i]) => j >= i)]

-----------------------------------------------------------------------------
(* The order of the sources is read anew for every query.                  *)
orderedDownloadable ==
  {o \in [1 .. Cardinality(DownloadSources) -> DownloadSources] :
     \A i, j \in DOMAIN o : i # j => o[i] # o[j]}

(* The profile is read before the sources are asked, which takes minutes.  *)
handleDownloadBest ==
  /\ finding.at = "idle" /\ albumQueue.at = "idle"
  /\ \E p \in LoadDefault, o \in orderedDownloadable, q \in 1 .. 3,
        x \in DownloadSources \cup {"none"} :
       finding' = [at |-> "asking", query |-> 1, queries |-> q, left |-> o, excluded |-> x,
                   profile |-> p]
  /\ UNCHANGED <<profiles, saving, profileEdits, candidates, best, albumQueue>>

\* Duplicates are told by file name, whoever offers the file.
Seen(c, s) == c.file # 0 /\ \E i \in 1 .. Len(s) : s[i].file = c.file
Accepted(c) == ScoreTrackMatchWithPath(c) >= minMatchConfidence
AddAnswer(s, c, name) ==
  IF ~Accepted(c) \/ Seen(c, s) THEN s ELSE Append(s, [c EXCEPT !.source = name])
Additions(s, more, name) ==
  LET add[i \in 0 .. Len(more)] == IF i = 0 THEN s ELSE AddAnswer(add[i - 1], more[i], name) IN add
Merged(s, more, name) == Additions(s, more, name)[Len(more)]

\* One more query, unless the first one found something or it was the last.
AfterQuery(s) ==
  IF finding.query = finding.queries \/ (finding.query = 1 /\ s # <<>>)
  THEN finding' = [finding EXCEPT !.at = "choosing", !.left = <<>>]
  ELSE \E o \in orderedDownloadable : finding' = [finding EXCEPT !.query = @ + 1, !.left = o]

ResultLists == UNION {[1 .. n -> Pool] : n \in 0 .. MaxAnswer}

(* searchSingleQuery: the first source with an acceptable result ends the  *)
(* query; one that fails, or has none, is passed over.                     *)
AskSource ==
  /\ finding.at = "asking" /\ finding.left # <<>>
  /\ LET name == Head(finding.left) IN
     \/ /\ name # finding.excluded
        /\ \E a \in ResultLists :
             /\ \E i \in DOMAIN a : Accepted(a[i])
             /\ candidates' = Merged(candidates, a, name)
             /\ AfterQuery(candidates')
     \/ /\ finding' = [finding EXCEPT !.left = Tail(@)] /\ UNCHANGED candidates
  /\ UNCHANGED <<profiles, saving, profileEdits, best, albumQueue>>

\* No source is left, or the context is over.
QueryEnds ==
  /\ finding.at = "asking"
  /\ candidates' = candidates /\ AfterQuery(candidates)
  /\ UNCHANGED <<profiles, saving, profileEdits, best, albumQueue>>

FindBestMatch ==
  /\ finding.at = "choosing"
  /\ LET p == finding.profile IN
     IF candidates = <<>>
     THEN best' = NoCandidate /\ finding' = [finding EXCEPT !.at = "none"]
     ELSE \E s \in IF p.mode = "best_quality" THEN rankAllByQuality(candidates, p)
                   ELSE FilterByProfile(candidates, p) :
            IF s = <<>>
            THEN best' = NoCandidate /\ finding' = [finding EXCEPT !.at = "none"]
            ELSE /\ best' = IF p.byTier THEN pickBestByTierScore(s) ELSE pickBestByScore(s)
                 /\ finding' = [finding EXCEPT !.at = "chosen"]
  /\ UNCHANGED <<profiles, saving, profileEdits, candidates, albumQueue>>

-----------------------------------------------------------------------------
(* QueueAlbumWithFallback: the album sources first, when they are set up.  *)
albumFirstEligible ==
  /\ finding.at = "idle" /\ albumQueue.at = "idle"
  /\ \/ albumQueue' = [albumQueue EXCEPT !.at = "albums", !.left = 2]
     \/ albumQueue' = [albumQueue EXCEPT !.at = "tracks", !.left = 2]
  /\ UNCHANGED <<profiles, saving, profileEdits, Finder>>

\* Each source adds the releases that match; one that fails adds none.
SearchAlbums ==
  /\ albumQueue.at = "albums" /\ albumQueue.left > 0
  /\ \E found \in SUBSET Releases :
       albumQueue' = [albumQueue EXCEPT !.left = @ - 1, !.releases = @ \cup found]
  /\ UNCHANGED <<profiles, saving, profileEdits, Finder>>

(* The release with most seeders is queued; when that fails the tracks are *)
(* not tried.                                                              *)
tryAlbumQueue ==
  /\ albumQueue.at = "albums" /\ albumQueue.left = 0
  /\ IF albumQueue.releases = {}
     THEN albumQueue' = [albumQueue EXCEPT !.at = "tracks", !.left = 2]
     ELSE \E r \in albumQueue.releases, ok \in BOOLEAN :
            /\ \A other \in albumQueue.releases : r >= other
            /\ albumQueue' = [albumQueue EXCEPT !.at = "over", !.queued = IF ok THEN r ELSE 0]
  /\ UNCHANGED <<profiles, saving, profileEdits, Finder>>

queueTrackFallback ==
  /\ albumQueue.at = "tracks"
  /\ IF albumQueue.left = 0 THEN albumQueue' = [albumQueue EXCEPT !.at = "over"]
     ELSE \E ok \in {0, 1} :
            albumQueue' = [albumQueue EXCEPT !.left = @ - 1, !.tracks = @ + ok]
  /\ UNCHANGED <<profiles, saving, profileEdits, Finder>>

SearchNext ==
  \/ SeedProfiles \/ CreateProfile \/ DeleteProfile \/ SetDefault \/ ReadForUpdate \/ Update
  \/ handleDownloadBest \/ AskSource \/ QueryEnds \/ FindBestMatch
  \/ albumFirstEligible \/ SearchAlbums \/ tryAlbumQueue \/ queueTrackFallback

-----------------------------------------------------------------------------
SearchTypeOK ==
  /\ \A i \in Kept : profiles[i].content \in Contents
  /\ finding.at \in {"idle", "asking", "choosing", "chosen", "none"}
  /\ albumQueue.at \in {"idle", "albums", "tracks", "over"}

\* Everything that could have been taken instead.
Found == {candidates[i] : i \in 1 .. Len(candidates)}
Fits(c, p) == (Len(p.targets) = 0 /\ p.mode = "priority") \/ Matched(c, p) \/ p.fallback

(* The track chosen meets the profile that was read, comes from a source   *)
(* that was not excluded and, of what was found, reaches the best target   *)
(* and, where tiers decide, its best tier; where confidence decides, a     *)
(* better tier costs less than 0.05 of it per other candidate (the walk of *)
(* pickBestByScore compares neighbours only, engine.go:521).  An album     *)
(* queued as such leaves its tracks alone.                                 *)
ChosenFits ==
  /\ finding.at = "chosen" =>
       LET p == finding.profile IN
       /\ best \in Found /\ Fits(best, p) /\ best.source # finding.excluded
       /\ p.mode = "priority" => \A c \in Found : TargetIndex(best, p) <= TargetIndex(c, p)
       /\ \A c \in Found :
            (p.mode = "best_quality" /\ Fits(c, p)) \/ TargetIndex(c, p) = TargetIndex(best, p) =>
              IF p.byTier THEN TierScore(best) >= TierScore(c)
              ELSE ScoreTrackMatchWithPath(c) - ScoreTrackMatchWithPath(best)
                     <= Near * (Len(candidates) - 1)
  /\ albumQueue.queued # 0 => albumQueue.tracks = 0
===============================================================================
