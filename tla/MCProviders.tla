---------------------------- MODULE MCProviders ----------------------------
(***************************************************************************)
(* TLC's instance of the providers' clients and of what becomes of their   *)
(* files, which share no state with one another in these modules.          *)
(* A behaviour is one component's scene: `scene` names it, its actions     *)
(* are the steps and everything else stands still.  The distinct states    *)
(* are the sum of the components', not their product.                      *)
(***************************************************************************)
EXTENDS ProviderCooldown, RateLimiter, TidalToken, TidalStream, Soulseek, SoulseekSearch, AlbumImport,
  DeezerSession, DeezerStream, Enrichment, Library

VARIABLE scene

OneTrackAlbum == "x" :> <<1>>
OneProvider == <<"d">>

\* Two discs with a track of the same number, an expected title nobody has;
\* files without number or without name; and expected tracks that do not
\* begin with the first.
AlbumFile(n, k, c) == [file |-> n, num |-> k, clean |-> c]
Expected(k, t) == [num |-> k, title |-> t]
SomeFolders ==
  {[files |-> <<AlbumFile("1", 1, "a"), AlbumFile("2", 2, "b"), AlbumFile("3", 1, "c")>>,
    expected |-> <<Expected(1, "a"), Expected(2, "x")>>],
   [files |-> <<AlbumFile("1", 3, "q"), AlbumFile("2", 0, "b"), AlbumFile("3", 0, "")>>,
    expected |-> <<Expected(1, "a"), Expected(2, "b")>>],
   [files |-> <<AlbumFile("1", 1, "a"), AlbumFile("2", 2, "b")>>,
    expected |-> <<Expected(2, "b"), Expected(3, "c")>>]}

\* Two files of one directory, one of none and a picture.
NetworkFile(p, n, a) == [path |-> p, name |-> n, audio |-> a]
SomeReplies ==
  {[username |-> u, files |-> fs] : u \in {"", "a", "b"}, fs \in
     (SUBSET {NetworkFile("d", "x", TRUE), NetworkFile("d", "y", TRUE), NetworkFile("", "y", TRUE)}) \ {{}}}
  \cup {[username |-> "a", files |-> {NetworkFile("d", "cover", FALSE)}]}

Scenes == {"cooldown", "rate", "token", "stream", "slskd", "slskdsearch", "albumimport",
           "deezerlogin", "deezer", "enrichment", "library"}
providers == <<cooldownVars, rateVars, tokenVars, streamVars, slskdVars, slskdSearchVars, albumImportVars,
  deezerSessionVars, deezerStreamVars, enrichmentVars, libVars>>

ProvidersInit ==
  /\ scene \in Scenes
  /\ CooldownInit
  /\ RateInit
  /\ TokenInit
  /\ StreamInit
  /\ SlskdInit
  /\ SlskdSearchInit
  /\ AlbumImportInit
  /\ DeezerSessionInit
  /\ DeezerStreamInit
  /\ EnrichmentInit
  /\ LibraryInit
  \* one of the two libraries is enough where it stands still
  /\ scene # "library" => names = [a \in ArtistIds |-> Unnamed]

CooldownScene ==
  /\ scene = "cooldown" /\ CooldownNext
  /\ UNCHANGED <<rateVars, tokenVars, streamVars, slskdVars, slskdSearchVars, albumImportVars,
                  deezerSessionVars, deezerStreamVars, enrichmentVars, libVars>>

RateScene ==
  /\ scene = "rate" /\ RateNext
  /\ UNCHANGED <<cooldownVars, tokenVars, streamVars, slskdVars, slskdSearchVars, albumImportVars,
                  deezerSessionVars, deezerStreamVars, enrichmentVars, libVars>>

TokenScene ==
  /\ scene = "token" /\ TokenNext
  /\ UNCHANGED <<cooldownVars, rateVars, streamVars, slskdVars, slskdSearchVars, albumImportVars,
                  deezerSessionVars, deezerStreamVars, enrichmentVars, libVars>>

StreamScene ==
  /\ scene = "stream" /\ StreamNext
  /\ UNCHANGED <<cooldownVars, rateVars, tokenVars, slskdVars, slskdSearchVars, albumImportVars,
                  deezerSessionVars, deezerStreamVars, enrichmentVars, libVars>>

SlskdScene ==
  /\ scene = "slskd" /\ SlskdNext
  /\ UNCHANGED <<cooldownVars, rateVars, tokenVars, streamVars, slskdSearchVars, albumImportVars,
                  deezerSessionVars, deezerStreamVars, enrichmentVars, libVars>>

SlskdsearchScene ==
  /\ scene = "slskdsearch" /\ SlskdSearchNext
  /\ UNCHANGED <<cooldownVars, rateVars, tokenVars, streamVars, slskdVars, albumImportVars,
                  deezerSessionVars, deezerStreamVars, enrichmentVars, libVars>>

AlbumimportScene ==
  /\ scene = "albumimport" /\ AlbumImportNext
  /\ UNCHANGED <<cooldownVars, rateVars, tokenVars, streamVars, slskdVars, slskdSearchVars,
                  deezerSessionVars, deezerStreamVars, enrichmentVars, libVars>>

DeezerloginScene ==
  /\ scene = "deezerlogin" /\ DeezerSessionNext
  /\ UNCHANGED <<cooldownVars, rateVars, tokenVars, streamVars, slskdVars, slskdSearchVars,
                  albumImportVars, deezerStreamVars, enrichmentVars, libVars>>

DeezerScene ==
  /\ scene = "deezer" /\ DeezerStreamNext
  /\ UNCHANGED <<cooldownVars, rateVars, tokenVars, streamVars, slskdVars, slskdSearchVars,
                  albumImportVars, deezerSessionVars, enrichmentVars, libVars>>

EnrichmentScene ==
  /\ scene = "enrichment" /\ EnrichmentNext
  /\ UNCHANGED <<cooldownVars, rateVars, tokenVars, streamVars, slskdVars, slskdSearchVars,
                  albumImportVars, deezerSessionVars, deezerStreamVars, libVars>>

LibraryScene ==
  /\ scene = "library" /\ LibraryNext
  /\ UNCHANGED <<cooldownVars, rateVars, tokenVars, streamVars, slskdVars, slskdSearchVars,
                  albumImportVars, deezerSessionVars, deezerStreamVars, enrichmentVars>>

ProvidersNext ==
  /\ scene' = scene
  /\ \/ CooldownScene
     \/ RateScene
     \/ TokenScene
     \/ StreamScene
     \/ SlskdScene
     \/ SlskdsearchScene
     \/ AlbumimportScene
     \/ DeezerloginScene
     \/ DeezerScene
     \/ EnrichmentScene
     \/ LibraryScene

ProvidersSpec == ProvidersInit /\ [][ProvidersNext]_<<scene, providers>>

(* Every component's variables keep their types: among others the states of *)
(* an album's import, whose records in the downloads table stay few.       *)
ProvidersTypeOK ==
  /\ TokenTypeOK
  /\ StreamTypeOK
  /\ SlskdTypeOK
  /\ SlskdSearchTypeOK
  /\ AlbumImportTypeOK
  /\ DeezerSessionTypeOK
  /\ DeezerStreamTypeOK
  /\ EnrichmentTypeOK
  /\ LibraryTypeOK

(* The providers' logins: PersistedTokenAlive, that the stored Tidal token  *)
(* is one Tidal still takes, and LoginHonest, that a Deezer check speaks   *)
(* of the login as it is now.                                              *)
LoginsHonest == PersistedTokenAlive /\ LoginHonest

(* What the providers' own downloads leave on disk: ImportedIsWhole for    *)
(* Tidal's segments, LeftoverPlays for Deezer's chunks, and NearestFormat  *)
(* for the quality Deezer was asked for.                                   *)
DownloadsWhole == ImportedIsWhole /\ LeftoverPlays /\ NearestFormat

(* The Soulseek client: TransfersFollowed, that a download is answered     *)
(* with its own state however its id changed, and ResultsCovered, that a   *)
(* search loses no file name a usable peer offered.                        *)
SoulseekSound == TransfersFollowed /\ ResultsCovered

(* The providers are spared: RateKept, the pace of one client's requests,  *)
(* ParkedIsStored, a pause that survives a restart, and EnrichmentSpares,  *)
(* that enrichment heeds a pause and searches for an image once.           *)
ProvidersSpared == RateKept /\ ParkedIsStored /\ EnrichmentSpares

(* The library loses nothing: TracksKept, the tracks through merges, and   *)
(* FieldsKept, what enrichment filled in.                                  *)
LibraryKept == TracksKept /\ FieldsKept

===========================================================================
