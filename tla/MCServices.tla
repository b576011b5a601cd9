---------------------------- MODULE MCServices ----------------------------
(***************************************************************************)
(* TLC's instance of the services that share no state with one another in  *)
(* these modules: what users and jobs ask for, and what is planned for it. *)
(* A behaviour is one component's scene: `scene` names it, its actions     *)
(* are the steps and everything else stands still.  The distinct states    *)
(* are the sum of the components', not their product.                      *)
(***************************************************************************)
EXTENDS SseHub, JobManager, Tracking, Accounts, Playlist, Search, Settings, AlbumZip

VARIABLE scene

Connected == [c \in {"a", "b", "c"} |-> IF c = "c" THEN "u2" ELSE "u1"]
SourceAnswers == {<<>>, <<"s">>}

\* Two tracks of one name, one whose name is what the second of them gets.
ZipItem(f, n, k) == [file |-> f, name |-> n, kind |-> k]
AlbumItems == <<ZipItem(1, <<"a">>, "track"), ZipItem(2, <<"a">>, "track"),
                ZipItem(3, <<"a", 2>>, "track"), ZipItem(4, <<"cover">>, "cover")>>

\* A near miss, two good results, one of them without file name, and one
\* that is rejected; qualities 3 and 4 are lossless.
OneResult(f, t, a, d, q) ==
  [file |-> f, title |-> t, artist |-> a, duration |-> d, quality |-> q, source |-> "none"]
SearchResults == {OneResult(1, 20, 20, 20, 2), OneResult(2, 18, 20, 20, 3),
                  OneResult(0, 17, 20, 19, 4), OneResult(1, 4, 20, 20, 4)}
Profile(t, f, m, b) == [targets |-> t, fallback |-> f, mode |-> m, byTier |-> b]
ProfileContents == {Profile(<<{3, 4}, {2}>>, FALSE, "priority", FALSE),
                    Profile(<<{4}, {3}>>, TRUE, "best_quality", FALSE),
                    Profile(<<{3, 4}>>, TRUE, "priority", TRUE)}

Scenes == {"hub", "jobs", "tracking", "accounts", "playlist", "search", "settings", "zip"}
services == <<hubVars, jobVars, trackVars, accountVars, listVars, searchVars, settingsVars, zipVars>>

ServicesInit ==
  /\ scene \in Scenes
  /\ HubInit
  /\ JobInit
  /\ TrackInit
  /\ AccountInit
  /\ ListInit
  /\ SearchInit
  /\ SettingsInit
  /\ ZipInit

HubScene ==
  /\ scene = "hub" /\ HubNext
  /\ UNCHANGED <<jobVars, trackVars, accountVars, listVars, searchVars, settingsVars, zipVars>>

JobsScene ==
  /\ scene = "jobs" /\ JobNext
  /\ UNCHANGED <<hubVars, trackVars, accountVars, listVars, searchVars, settingsVars, zipVars>>

TrackingScene ==
  /\ scene = "tracking" /\ TrackNext
  /\ UNCHANGED <<hubVars, jobVars, accountVars, listVars, searchVars, settingsVars, zipVars>>

AccountsScene ==
  /\ scene = "accounts" /\ AccountNext
  /\ UNCHANGED <<hubVars, jobVars, trackVars, listVars, searchVars, settingsVars, zipVars>>

PlaylistScene ==
  /\ scene = "playlist" /\ ListNext
  /\ UNCHANGED <<hubVars, jobVars, trackVars, accountVars, searchVars, settingsVars, zipVars>>

SearchScene ==
  /\ scene = "search" /\ SearchNext
  /\ UNCHANGED <<hubVars, jobVars, trackVars, accountVars, listVars, settingsVars, zipVars>>

SettingsScene ==
  /\ scene = "settings" /\ SettingsNext
  /\ UNCHANGED <<hubVars, jobVars, trackVars, accountVars, listVars, searchVars, zipVars>>

ZipScene ==
  /\ scene = "zip" /\ ZipNext
  /\ UNCHANGED <<hubVars, jobVars, trackVars, accountVars, listVars, searchVars, settingsVars>>

ServicesNext ==
  /\ scene' = scene
  /\ \/ HubScene
     \/ JobsScene
     \/ TrackingScene
     \/ AccountsScene
     \/ PlaylistScene
     \/ SearchScene
     \/ SettingsScene
     \/ ZipScene

ServicesSpec == ServicesInit /\ [][ServicesNext]_<<scene, services>>

(* Every component's variables keep their types: among others the phases   *)
(* of a job, the registered connections and the statuses of albums.        *)
ServicesTypeOK ==
  /\ HubTypeOK
  /\ JobTypeOK
  /\ TrackTypeOK
  /\ AccountTypeOK
  /\ ListTypeOK
  /\ SearchTypeOK
  /\ SettingsTypeOK
  /\ ZipTypeOK

(* What the server streams: ChannelClosedOnce, that an event connection is *)
(* let go of once, and ArchiveWhole, that a finished album zip is complete. *)
ResponsesSound == ChannelClosedOnce /\ ArchiveWhole

(* A job's ends: CancelReaches, that a cancel reaches the job it was meant  *)
(* for, and OutcomeSaved, that how it ended is what a restart reads.       *)
JobsKept == CancelReaches /\ OutcomeSaved

===========================================================================
