# groovearr: TLA+ models of the download pipeline and its neighbours

groovearr queues music downloads, hands them to provider plugins (Deezer, Tidal, slskd)
or to a download client (qBittorrent), watches them, imports the files and
enriches them; around that it keeps a catalog fresh, tracks artists, mirrors
playlists, organizes the library and serves all of it to signed-in users. The modules
here model that. They are checked with TLC on small instances; the invariants of the
download pipeline, of the catalog and of most services are proved with TLAPS for
every value of the constants.

## 1. Inventory of the system

Lines are Go lines without tests.

| Component (under `src/internal`) | State | Operations | Meets others through | Hard behaviour | Correct when |
|---|---|---|---|---|---|
| **download/types, download/sqlite** (store) | `downloads` rows | Insert, Get, Update (whole row), UpdateProgress, TransitionState (compare-and-swap), lists | every service holds private copies of rows | `SetMaxOpenConns(1)` makes one statement atomic and nothing larger | no stale copy undoes a step another actor relies on |
| **download/service** | mutex `mu` | Queue, QueuePending, QueueAlbum, Cancel, Retry (+ goroutine) | store, plugins, bus | `mu` does not cover the monitor, the importer or Retry | cancelled stays cancelled; a retry never loses a record |
| **download/monitor** | `active` map, semaphores, tick counters, deadlines | tick: sync, start, poll, check, retry; resolver goroutine; recoverOrphans | store, plugins, bus | polls in parallel, ticks that overlap after 30 s, slots, backoff, restarts | slots are accounted for, every downloading record is watched, retries are bounded |
| **download/importer, handlers** | none of its own | onDownloadCompleted, handler chain, album import | bus, store, library | one goroutine per event, duplicates, Cancel in mid-chain | one chain per record; nothing rests in importPending or importing |
| **providers** (14.9k) | transfers in memory, slskd, qBittorrent | StartDownload, GetStatus, Cancel, ActiveDownloads | polled by the monitor | transfers lost, cancelled remotely, renamed | no transfer runs unwatched after a cancel |
| **events** | subscriptions | Subscribe, Publish | goroutine per delivery | reordering, loss at exit, shared pointers | an announcement is acted upon once |
| **refresh** (1.7k), **catalog** (2.2k) | `metadata_refresh_queue`, in-flight calls, cold-fetch queue | enqueue, claim, finish, retry, RefreshAlbum (coalescing), Fetch/run | store, metadata providers | re-enqueue while worked on, shared outcomes, backpressure, restart | a due item is never lost; one refresh per album at a time |
| **metadata** (1.0k) | cooldown per provider | MarkAfter, Clear, resolve | refresh, enrichment | late answers, persistence outside the lock | a cooldown never ends early |
| **jobs** (2.0k), **sse** (0.4k) | current job; client channels | Start, Cancel, finish, Shutdown; Register, Broadcast, Unregister | API, event bus | late Start at shutdown, full buffers, close against send | one job at a time; its end is the last thing said of it |
| **ratelimit** | time of the last reservation | RoundTrip | HTTP clients | reservations of cancelled requests | requests stay minInterval apart |
| **tracking** (1.9k) | tracked artists and albums | Track, refresh, search, link, edit, recompute | download service, import events | a refresh writes rows it read before a provider call | nothing a user or an import decided is taken back |
| **playlist** (1.2k) | playlists, their rows, folders | import, sync, download missing, folder build, retry worker | download service, library | overlapping runs rewrite rows | rows are replaced only by a list that was fetched |
| **library** (3.5k), **tagging**, **sanitize** | library tables, files | scan, organize, merge, import, listing | jobs, handlers | row and file change in separate steps | every row's file is there or is being moved back |
| **download/handler_enrichment**, **jobs/enrich** | rows, cover files | enrich from providers, fetch images | library store, cooldown | whole rows written from old copies | nothing filled is lost, a parked provider is spared |
| **download/handler_album_import** | synthetic records, folder | scan, match, chain per file | store, library | interrupted imports are repeated | every file scanned is accounted for |
| **download/engine, album_queue**, **matching**, **quality** | profiles | search, rank, choose, queue | every source | filter, score, tie-breaker and fallback in one choice | what is chosen satisfies the profile |
| **providers/tidal, deezer, soulseek** | token, login, transfers, streams | refresh, log in, download, poll | their servers | rotated tokens, ids that change, connections that end | the persisted token works; what is imported is whole |
| **plugin**, **config** | registry, configuration | Get, Merge, Save, Rebuild, health checks | everyone | overlapping saves, failing writes | secrets survive, settings stay valid |
| **api** (7.6k), **session**, **user** | sessions, open responses | handlers, zip downloads | services | edits race logins; streams break off | a session speaks for the account as it is |
| **discovery**, **identity**, **ui** | none | search, match, apply | catalog, library | - | - |

`PROJECT.json` lists the same components with their status, and every hazard found
in this code at its line.

## 2. Modules

```
DownloadStore          rows, SQL statements, transfers on the provider's side
  |-- DownloadService  Queue, QueuePending, Cancel, Retry
  |-- DownloadMonitor  ticks, tracking, semaphores, resolver, recovery
  |-- DownloadImporter completed-events and import chains
DownloadPipeline       composes the four, adds restarts, fairness, the properties
DownloadLifecycle      abstract specification: edges of a record's life
DownloadInvariants     inductive strengthenings
MCDownload             values for TLC
Download{Handover,Slot,Lifecycle}Proofs   theorems

CatalogStore           albums, their rows, the refresh queue and its statements
  |-- RefreshEngine    the coalesced album refresh, step by step
CatalogRefresh         composes it with the worker, visitors, warm job, matcher,
                       backfill and restarts
CatalogInvariants      its properties and their inductive strengthening
MCCatalog              its run                 CatalogProofs   its theorems

MCServices             JobManager  SseHub  Tracking  Accounts  Playlist  Search
                       Settings  AlbumZip      ServicesProofs  their theorems
MCProviders            ProviderCooldown  RateLimiter  TidalToken  TidalStream
                       Soulseek  SoulseekSearch  DeezerSession  DeezerStream
                       AlbumImport  Enrichment  Library
ProvidersProofs        theorems about limiter, token, login, cooldown, enrichment's pauses
LibraryProofs          theorems about library and enrichment's fields
TransferProofs         theorems about the Tidal and Deezer streams, Soulseek's transfers and search,
                       an album's import, and the types of all clients
```

### Download pipeline

**State and code.** `rec` is the table; a row keeps `state`, `via` (SourceName),
`file` (Filename is set), `tries` (RetryCount), `wait` (RetryAfter is ahead),
`pid` (ProviderID). `job[id][n]` is the n-th transfer started for a record, and n is
its provider id. `bus[id]` counts announced completions without a goroutine at work.
`active`, `slots` are `MonitoringService.active` and `.semaphores`; `tick`, `task`
are the position of a tick and what it does for each id. `can`, `ret`, `res`, `imp`
are the frames of Cancel, of Retry with resolveAndSubmit, of resolvePendingSources
and of an import chain: a program counter and the **private copy of the row** that
the goroutine carries.

**Granularity.** One action is at most one database statement, one provider call or one
critical section of `activeMu`. A Get followed by an Update is two actions, so every
lost update of the code is in the model. A tick does its work for one id at a time,
except polls, which interleave as the code's goroutines do. Recovery's
TransitionState and Update are one step: before `Start` has returned nothing else
writes a row in `downloading` or `importing` (the importer writes only what it has
taken from `importPending`).

**Abstractions.** A search is its outcome: a source, nothing, or (`SearchPanics`) a
panic that scanRetry survives. `wait` and `late` become true or false at any time
after they are set, so backoff and timeout have no length. `failRecord`, removing the
tracking and releasing the slot are shared by all phases through the frame's
`then` ("what remains to be done"). A track plugin goes on listing a cancelled
transfer; the client deletes its torrent.

**DownloadLifecycle** is the promise of the services when no user intervenes:
which state may follow which, and how the count moves. With Cancel or Retry the code
does not keep it (see section 5), so the refinement is checked without them.

### Catalog

`meta`, `rows`, `queue` are the album's metadata row, its tracks and its row in
`metadata_refresh_queue`; `inflight` is the engine's map of running calls. `call[c]` is the
frame of a caller in RefreshAlbum - the worker, a cold visitor, the warm job, or the
matcher that applies an identity - with the position of the provider loop, what was
searched, and the rows it carries to the write. Every statement and every provider answer is
a step. Each album has one writer by the coalescing, not by SQL.

Left out or merged: nothing in production enqueues an artist, so the queue holds
albums; priority is dropped; `catalog.enabled` is taken as on; whether a provider is
cooling is left open at every look (`ProviderCooldown` models the bucket);
failure counts and LastAccessedAt; `old` merges the stale TTL and the unmatched retry; the
empty provider list; backfill of artist-only rows and of empty legacy tracklists.
`prev` and `searched` are forgotten once no later step reads them. No code deletes an
album.

### Services and providers

Components that share no state in this model are explored as *scenes*: `scene` names
the one a behaviour plays, its actions are the steps, everything else stands still. The
distinct states are the sum of the components', not the product. Each component's
invariants and mutants are its own. Every component module has `...Init`, `...Next` and
`...Vars` of its own, so it can be composed otherwise.

| Module | State | Left out or simplified |
|---|---|---|
| JobManager | manager slot, cancel handle, job goroutine, `job.json`, one organized track | one track stands for all; runners reduced to how they treat items, failures and the context; progress and job_started broadcasts; failing saves |
| SseHub | clients, channels, closes | payloads; a full buffer drops the event |
| Accounts | users, sessions, login buckets | one edit or delete handler at a time; purge of sessions succeeds; ids are not reused |
| Tracking | artist row, album rows, frames of refresh, search, link, recompute | one of each at a time; release kinds |
| Playlist | playlist row, its rows, folder, downloads, library | one playlist; one position; copies are one step; semaphore of the auto-sync worker, folder name conflicts, unset path |
| Search | profiles, the walk over sources, its candidates | scores in 400ths from three similarity grades, qualities numbered by TierScore; links of tracks to profiles; upgrade scan. A behaviour searches a track or queues an album |
| Settings | memory, file, forms, saves, registry, health loop | a section is a secret and a download directory; secrets told apart by length; other fields merge like the path; file written whole or not; sections compared by content |
| AlbumZip | slots, responses, files on disk | names are a base and suffixes; sanitizing and path checks; single-track download |
| ProviderCooldown | bucket, table, callers | what a provider answers is open; time has a horizon |
| RateLimiter | reservation, waiting requests, clock | - |
| TidalToken | token in memory, on disk, at the server; clients | a token outlives a device flow and a caller's refresh (`IsTokenExpired`); crash between answer and persist |
| TidalStream | segments, prefetch, output, record | one Cancel; panics; several downloads at once |
| Soulseek | slskd's transfers, the client's two maps, pollers | one StartDownload at a time; a cancel is one step; first match arbitrary |
| SoulseekSearch | replies, what is seen, results | slskd's list only grows; quality, size and artist parsing |
| DeezerSession | login, license, ARL, checkers | whether a login brings a license token is open |
| DeezerStream | body, chunk buffer, file, record | units for bytes; one download; panics |
| AlbumImport | folder, synthetic records, placed files, rows | equal titles for contained ones; folder appears whole; covers, tags and enrichment are folded into a failing chain |
| Enrichment | track and album rows, workers, chain, images | two of the retries folded into one question; cover written whole or not; tag writing; cancellation (in JobManager) |
| Library | artist, album, track rows, files, hands of job, chain, merge | one title, one song per file; covers, durations, year fill; order of the scan is free; the path a name yields is open between spellings |

## 3. Runs

### Download pipeline (MCDownload)

`MaxStarts`, `MaxCancels`, `MaxUserRetries` and
`MaxCrashes` bound counters in guards; `RetryEvery = ResolveEvery = 1` lets every
tick scan and resolve, which is the most interference and, as a tick may be delayed
for ever in the safety runs, loses no interleaving of interest. Two importer
goroutines per record are enough for `ImportExclusive` to fail.

| Run | Instance | Shows |
|---|---|---|
| RetriesAndRestarts | 1 track, MaxRetries 2, 3 transfers, 1 restart, fair | `TypeInv`, `DownloadingWatched`, `RetryBudget`; every step refines `DownloadLifecycle`; the record `Settles` |
| TwoProviders | 1 track, 2 plugins, 2 transfers, 1 restart | `SourceStable` |
| TwoDownloads | 2 tracks, one slot, symmetric | `SlotsMatch`, `TrackedLimit` |
| CancelRaces | 1 track, 1 Cancel, provider cancels, 2 transfers | `ImportExclusive`, `ImportPendingHandled`, `ImportingHandled`, `SlotInv` |
| AlbumUnlimited | 1 album, no limit, 1 Cancel, 1 restart | `HandoverInv`, `ExclusiveInv` (the inductive invariants) on the album path |
| NoArtistOrTitle | 1 untitled track, Cancel, Retry, provider cancels, fair | `TrackingEnds` |
| IgnoredIsFinal, CancelStopsTransfer, LeavesDownloading | 1 record | violated, see section 5 |

One record is enough where the property is about the actors at one row: rows share
nothing but slots and the order of a tick, and `TwoDownloads` covers these. With
`MaxStarts` reached a launch can only fail; `MaxStarts = MaxRetries + 1` in
RetriesAndRestarts, so there the bound is never what stops a record.

Every property of a passing run has a mutant of the code (an operator next to the
original, marked "Mutant") under which TLC finds it violated.

**One tick at a time.** `safeTick` waits 30 s. With two overlapping ticks TLC finds
`SlotsMatch`, `DownloadingWatched` and `ImportExclusive` violated: two polls of one
transfer each announce it and each release its slot. Runs therefore have one
tick, which is what happens when provider calls return in time; only the hand-over
theorems do without this assumption.

**SearchPanics** is TRUE in TwoProviders, TwoDownloads, CancelRaces and AlbumUnlimited.
It is FALSE in NoArtistOrTitle to keep it small, and in
RetriesAndRestarts because with TRUE TLC refutes `Settles`: a panic
re-queues a record that has no source (`monitor_retry.go:55-64`), the resolver takes it,
its failed search sets RetryCount back to 1 (line 292), and the cap never ends the cycle.

**Fairness** (`DownloadPipeline!Fairness`): weak fairness for each tick, each id within
a tick, resolver and recovery, each import goroutine, the tail of a Cancel and of a
Retry, backoff and deadline. The loop has a one-second ticker, goroutines are
scheduled, calls are assumed to return, time passes. Nothing is assumed of users, restarts or of what a
transfer does: a transfer may run for ever, and the deadline alone ends it.
`Settles` counts `failedPending` as rest: a search that never succeeds leaves the
record there, and the code goes on trying it.

### Catalog

One album; the worker with a batch of two, two attempts, one visitor or warm job;
three set-ups: two providers; one provider with the matcher; one provider with a
legacy row and one restart.

| Property | Says |
|---|---|
| `OneWriter` | who writes an album's rows or metadata holds its slot |
| `FreshHasRows` | an album called fresh has a tracklist |
| `SearchedBeforeUnmatched` | the ninety-day verdict comes only after every live provider was searched and answered |
| `PartialNotExpanded` | a row kept on purpose is not expanded later |
| `DueRowHandled` | a due row is finished or put off; only a call that times out leaves it due |
| `WaitersAnswered` | who joined a refresh gets its outcome or leaves |

Fairness: weak fairness of the worker's loop and of each caller's steps. The loop
has a ticker, callers are goroutines, provider calls end by their timeouts. Nothing is assumed
of visitors, the matcher or restarts.

### Services

| Property | Scene | Says |
|---|---|---|
| `JobsKept` | jobs | the cancel handle is the running job's own (`CancelReaches`); job.json tells the end the manager tells (`OutcomeSaved`) |
| `DivergenceRepaired` | jobs | a file whose row an interrupted organize did not write is repaired before a scan can import it again, while job.json tells of it |
| `ResponsesSound` | hub, zip | a channel is closed once and not while it can be sent to; zip slots are held by requests under way only, and a finished archive holds every file that is still there under a name of its own, no track torn |
| `ForwardOnly` | tracking | what a user or an import did between the read and the write of a refresh stays |
| `SessionsSound` | accounts | a session that was handed out speaks for the account as it is, a session ended does not come back |
| `SyncExclusive`, `RowsKept` | playlist | one sync at a time; rows go only when a fetched list replaces them |
| `ChosenFits` | search | the track chosen meets the profile that was read and reaches the best target, tier or, within what neighbour comparison loses, confidence; an album queued as such leaves its tracks alone |
| `SettingsSound` | settings | memory and disk validate; a secret is the one typed last; where saves did not overlap the plugins run on what was saved; a requested check takes place |

Instance: two or three of each actor, one restart, one or two edits, buffers and batches of one
(so that the full case is the normal one). Liveness is not stated for these scenes: none of
them has a scheduler the properties depend on.

### Providers

| Property | Scene | Says |
|---|---|---|
| `LoginsHonest` | token, deezerlogin | the token on disk is one the server still takes, between answer and write and after an unhooked rebuild excepted; a Deezer connection is reported good only if a login proved it after the check began, and only overlapping checks leave the ten-second client in place |
| `DownloadsWhole` | stream, deezer | what is imported is the whole stream in order (Tidal); what a Deezer download leaves plays as far as it goes; the format taken is the nearest that could be had |
| `SoulseekSound` | slskd, slskdsearch | a download is answered with its own transfer's state however its id changed; a search loses no file name a usable peer offered |
| `AlbumAccounted` | albumimport | where the expected tracks are numbered from one on and the names are apart, every file scanned is in the library directory or still in the folder, never replaced by another of the same album; what failed nowhere has its row; only an interrupted import leaves records behind |
| `FilesFollowed` | library | a row's file is there, or a move is under way that will set the row or put the file back |
| `LibraryKept` | library, enrichment | a row whose file exists is not lost (`TracksKept`); what one of the job's workers filled no other worker takes away (`FieldsKept`; a chain at the same album may) |
| `ProvidersSpared` | cooldown, rate, enrichment | a parked provider has its row in the table over restarts; no more requests than intervals; an artist's image is searched once in its time, and a worker that was told to wait asks nothing more of that provider until then |

Larger instances that also held, without being part of the runs: Library with two merges or
two jobs (2.4 and 2.8 million states); TidalToken with MaxTokens 4 and MaxClients 3; Settings
with two plugins (2.8 million) and with three saves (5.3 million); Soulseek with two peers, two
files and two transfers (6.5 million); DeezerSession with two callers and two checkers;
Enrichment with two tracks (1.4 million) and with two bulk jobs (3.3 million).

Both runs turn the deadlock check off: a scene ends where its bounds are used up.

## 4. Proofs

Each theorem is about every instance: any finite set of downloads, albums, sessions, any
number of ticks, callers, importers, any bounds on counters. A bound on a counter (`MaxCrashes`,
`MaxCancels`) may be any number, so no theorem leans on it unless it says so.

Assumptions on constants, each named in the module that declares them: `StoreAssumption`,
`ServiceAssumption`, `MonitorAssumption` (there is a tick; scans and resolutions come every positive number of ticks),
`PipelineAssumption`, `SetupAssumption` (the catalog's set-ups), `JobAssumption`, `TrackAssumption`,
`AccountAssumption`, `ListAssumption`, `SettingsAssumption`, `CooldownAssumption`, `RateAssumption`,
`DeezerAssumption`, `TokenAssumption`, `LibraryAssumption`, `EnrichmentAssumption`,
`ChoiceAssumption`, `SearchAssumption`, `StreamAssumption`, `DeezerStreamAssumption` (there are segments, chunks, formats; at least one usable peer is
waited for). They say which sets are finite or disjoint,
that bounds are natural numbers and that durations are positive; of the library, that SQLite's keys are positive and start at 1;
of the search, what a source's answer and a profile consist of, and that an answer is of bounded length;
of enrichment, that a track's row names one album; of an archive, that its items are a sequence with named files;
of a release (`AlbumAssumption`), that it is a list of files, each with a path of its own. `DoublingAssumption` is a fact of arithmetic (`n < 2^n`), which bounds
the escalation of pauses and of which the provers know nothing. TLC evaluates them in the runs.

### Download pipeline

* **DownloadHandoverProofs**, `TypeCorrect`: `Spec => []TypeInv`. Types alone are not
  inductive: that a retry's count stays in range needs that scanRetry's copies are
  below the cap, and that a slot index is a provider needs that a dispatch past its
  slot has one.
* There too, `HandoverHolds`, `PendingIsHandled`, `ImportingIsHandled`. Whole-row writes
  can put back stale columns, so "importPending is handled" is not inductive. It
  becomes so with what each copy may hold: nobody carries `importPending` to a
  write, only chains carry `importing`, tick copies carry `downloading`, `queued` or
  `failed`. This holds for any number of overlapping ticks, Retry
  calls, importers and restarts: a downloaded file always has someone to import it.
* **DownloadSlotProofs**, `SlotsInvariant`, `SlotsAccounted`, `LimitKept`, under `OneTick`. `SlotInv`
  adds to `SlotsMatch` that a tick which is to drop or follows a download still finds
  it tracked under the handle it copied, and that one which is to free a slot finds
  it untracked: so nobody releases twice. Token counts are compared with
  cardinalities through lemmas on adding and removing one holder.
* There too, `ExclusiveHolds`, `ImportsExclusive`, under `OneTick` and
  `MaxUserRetries = 0`. That no two chains import one record needs that a completion is announced
  at most once, which needs that a record announced or under import cannot become `downloading`
  again. `ExclusiveInv` says why, for each record: at most one event or chain, and
  while there is one the row is `importPending`, `importing` or `ignored` (`OneImport`); a tick at work
  on a record finds the row in a state that its place in the tick allows, or ignored, and nobody imports
  it (`TaskAlone`); what the resolver took is a queued row without a source, which ticks leave alone
  (`ResolverAlone`); until recovery is over nothing else works (`BootAlone`). Cancel is in it at
  every point. Both hypotheses are needed: overlapping polls announce twice, and `Retry`
  writes the row without looking at what is under way.
* **DownloadLifecycleProofs**, `LifeHolds`, `BudgetKept`, `LifecycleImplemented`, `SourceAlwaysStable`, `DownloadingAlwaysWatched`, under
  `OneTick` and no users (`MaxUserRetries = 0`, `MaxCancels = 0`), for any restarts and any failures of
  transfers, searches, renames and imports. Ticks, chains and the resolver write whole rows from copies, so that
  a write is an edge of the life cycle needs that the copy is as good as the row. `LifeInv` says so, for
  each record: a copy agrees with the row in source, file and count (`TaskLife`, `ResolverLife`, `ImportLife`), and
  the row counts the transfers started (`RowLife`: `Started <= tries + 1`, and `<= tries` while it is queued). It is
  inductive because of `ExclusiveInv`: whoever holds a copy has the record to itself. Each step is shown to keep `Life` and to
  take the row along an `Edge` (`Advances`); the refinement follows with the mapping `state`, `tries` of the
  rows. `SourceAlwaysStable` reads off `LifeInv` that what is written over a downloading row has its source.
  `DownloadingAlwaysWatched` needs one invariant more, `WatchInv`: a tick about to let go of a
  record finds it no longer downloading. There `~ProviderCancels` is needed besides: a transfer cancelled at the
  provider is dropped while its row still says downloading. Cancel and Retry do break the edges (`IgnoredIsFinal`
  and section 5), so the refinement would not hold with them.

### Catalog

**CatalogProofs**, `CatalogTypes`, `CatalogOneWriter`, `CatalogFreshHasRows`,
`CatalogSearchedBeforeUnmatched`, `CatalogPartialNotExpanded`. `CatalogInv` adds to the first four
what the position of a frame fixes (`FramesWell`), that while nothing was missed every provider is
searched or yet to come (`SearchAccounted`), and that nobody is about to publish "fresh" without
rows, not from the copy of the metadata it carries either (`FreshToBeHasRows`). That only the holder of
the slot writes makes these survive the other callers' steps. For `PartialNotExpanded`, an action property,
`PartialKept` adds that a call which looks for a release read a row that was not partial, that the
album is not partial while it does, and that the copy a failure is booked on is up to date in this. It holds where no album has a legacy row. Where identity and legacy rows
mix, the code breaks it (section 5), and the property excludes these set-ups by its premise.

### Services

**ServicesProofs** proves each component's invariant of its own steps; `ScenesAreSteps` takes it
to the composition.

* Jobs: `JobsAlwaysKept`, `DivergenceAlwaysRepaired`. `JobInv` ties job.json, the handle and the job's
  goroutine together by phase (`JobSaved`) and says which files have no row or two (`JobFiles`).
* Playlists: `OneSyncAtATime`, `RowsOnlyReplaced`. `RunInv`: `syncing` is up iff exactly one
  runner is between the guard and its deferred release.
* Accounts: `SessionsAlwaysSound`. `AccountInv`: a session handed out and not yet ended speaks for the
  account as it is, or an edit under way is still to purge it (`SessionOk`); an update that changes nothing of
  relevance carries the account as it is (`EditOk`).
* Tracking: `TrackingForwardOnly`, an action property, from the types of the frames and the conditional writes.
* Settings: `SettingsAlwaysSound`. `SettingsInv` says of every form in flight that its secret is the one typed last
  or the stars of one with as many characters, that memory, disk and registry agree by the phase of the one save under
  way as long as saves never overlapped (`SavedAlone`), and that a request is pending, being answered or answered
  (`CheckerInv`).
* Streams and archives: `ResponsesAlwaysSound`. `ZipInv`: the slots taken are the requests under way; up to its end an archive
  holds or still plans every file that is there, each under a name of its own (`ArchiveFits`). That a free name exists among the
  suffixes is a pigeonhole over the names taken, by the least-number principle.
* Search: `ChosenAlwaysFits`. `ChoiceInv`: no candidate is of the excluded source, the profile used is the
  one that was read, whatever is edited meanwhile (`CandidatesFit`, `BestFits`). `PickClose` bounds what `pickBestByScore` loses: less
  than 0.05 per candidate walked past, by the least-number principle over the walk; `PickTop` says that
  the pick by tier loses nothing, `ProfileSelects` that what a profile leaves to choose from are the candidates it asks for, all of them.
* Types of all of it: `ServicesTyped`. Not mere typing: that an active admin is always left needs that no account leaves before another
  is active (`AdminStays`), that a subscriber's buffer keeps its bound needs the hub's (`BufTyped`).

### Providers

**ProvidersProofs** is laid out in the same way: an invariant per component, taken to the composition by its
own `ScenesAreSteps`.

* Rate limiter: `PaceKept`. `RateInv` says that the slots given away up to any time are no more than the intervals
  that fit into it; that a request goes out in its slot then carries over to what was sent.
* Tidal's token: `TokenAlive`, for any number of goroutines, clients and refreshes. A refresh spends the token it
  asks with. `TokenInv` says that goroutines at work on a client hold its lock, that no two clients are refreshed
  between two expiries (`OneRefresh`), that a token got in the device flow cannot be spent by any refresh under
  way (`AnswersGood`), and that a refresh which will not be persisted does not concern the persisted token
  (`PersistedGood`).
* Deezer's login: `ChecksHonest`. `SessionInv` says for every position of a check what it has proved, and who
  is to put the ten-second client back. `LoginsAlwaysHonest` is this and the token's theorem together.
* Cooldown: `PauseStored`. `CoolInv`: whoever is parked has a row, or the goroutine that parked it still owes one.
* Enrichment: `PausesHeeded`, for any albums, providers, workers and jobs. `SpareInv`: who is about to put a question of the
  track pass found the provider out of the cooldown, and nobody but he puts it there on his account; a search for the image
  is counted exactly while `imageAttempted` says so. With pace and pauses this is `ProvidersAlwaysSpared`.

* Library (**LibraryProofs**): `FilesAlwaysFollowed`, `TracksAlwaysKept`, `LibraryKeysHold`, for any artists, albums, rows
  and spellings. `LibInv` has two halves. `KeysInv`: a key is given once and every row's album and artist have one; what a hand
  read in an earlier step is still so (`HandFits`: an album it read is its artist's as long as that one is there; `MergeFits`: so are
  the two artists of a merge). `FilesInv`: every row's file is there, or somebody at work is on his way to tell the row,
  or the file is one of those the code loses (`FileOk`, the exceptions of `FilesFollowed`); a row that an organizer read still names
  the path it read, or is excepted (`Entry`).
* Enrichment's fields: `FieldsAlwaysKept`. `EnrichInv`: no album is in the lists of two workers, nor in one and also still waiting
  (`OneWorkers`), so that a copy held for a write lacks nothing its row has, unless the import chain is at work on the same
  album, and that is the exception of `FieldsKept` (`WorkFits`, `CopyFits`). With the tracks this is `LibraryAlwaysKept`.

**TransferProofs** does the same for what the clients transfer.

* Tidal's stream: `ImportedAlwaysWhole`, for any number of segments and chunks. `StreamInv`: the reader and the prefetch
  never hold the same segment and what they hold is what comes after the output (`PlacesFit`, with `Reached` the last
  segment the reader went on to); the output is always the beginning of the stream, in order (`OutputFits`).
* Deezer's stream: `LeftoverPlays` and `NearestFormat`, for any chunk size, tracks and formats. `FetchInv`: the format is the
  first of the order asked for that was not refused (`ChoiceFits`); the units written are the body's from its first on, deciphered
  exactly where the whole chunk they lie in is enciphered (`BodyFits`); a file that was kept is long enough (`FileFits`). Both
  streams together are `DownloadsAlwaysWhole`.
* Soulseek: `SoulseekAlwaysSound`, for any peers, files, pollers and replies. `SlskdInv`: a record stands for the file its id
  stands for, and so does every record, list or half-started download that somebody carries between two steps (`CallFits`,
  `StartingFits`). What was read early still holds when it is written late because slskd only moves on (`Later`): it
  forgets no transfer, nor its file, nor that it succeeded. `SearchInv`: what is found covers the replies seen, whatever their batches.
* An album's import: `AlbumAlwaysAccounted`, for any releases, failures, retries and restarts. `MatchFilesApart` is about the
  matching alone: where names are apart, no two matches share a file or a path; it goes up the list of files
  by the least-number principle (were there a file at which this ends, there would be a first one). `AlbumInv` carries it through the
  import: a scanned file is in the folder or stands at a path that no match still to come goes to, with its row unless its chain
  failed or is about to write it (`AlbumFits`); a record left in the table takes an interrupted import, of which each leaves one
  at most (`CountsFit`). `Regular` and `NamesApart` are needed: see section 5 for what happens without them.
* Types of all of it: `ProvidersTyped`. Most of it follows from the invariants above; on their own stand `TokensReal` (what is asked with,
  stored or persisted is a token that was granted, and a client's lock is held by whoever refreshes that client) and `EnrichReal`
  (a row names providers that exist, the provider asked is one of them, and a worker has no more to do than one album's tracks).

### Only model-checked

* `Settles`, `TrackingEnds`, `DueRowHandled`, `WaitersAnswered`: liveness under fairness is out of the prover's reach.

## 5. Where code and documents differ

Checked (violation runs):

* *A cancelled record can come back* (`IgnoredIsFinal`). Whole-row writes of stale
  copies and the unconditional progress write undo `ignored`.
* *A cancel can leave a transfer running* (`CancelStopsTransfer`). Before the provider id is stored, Cancel
  relies on `checkCancellations`, which skips ignored records.
* *A provider-side cancel strands the record* (`LeavesDownloading`) until a restart.

Seen while reading: `monitoring-service.md` says unknown provider ids are adopted,
the code logs them (`monitor_core.go:272-278`); the comment of scanRetry says a record
without an alternative is re-queued with its old source, the code skips it
(`monitor_retry.go:66-70`); `import-handler-chain.md` says a concurrent cancel aborts
the import, the final write overwrites it; a timed-out transfer keeps running at the
provider while its slot is reused (`monitor_dispatch.go:388-396`); failed searches of
scanRetry are not counted against `MaxRetries` (`types.go:29-31`).

Seen while modelling the neighbours. Where the code does less than one would expect, the
property is stated with what the code does (the exception is named in its comment).

*Catalog.* A resolved album whose rows failed or are pending is still published as matched
(`refresh/service.go:942-957`). `recordAlbumFailure` reads and writes outside the slot
(`refresh/service.go:1053`) and can drop `Partial`; with a legacy row next to the identity
the album is then expanded, against `PartialNotExpanded`. The backfill runs at every start and overwrites newer rows. The doc of MaxAttempts
speaks of failures, transient ones count too. A call that times out leaves its row due with no
backoff. `FinishRefresh` drops a row that was enqueued again meanwhile, `RetryRefresh` overwrites its due
time. `terminalRetryElapsed` prefers LastRefreshedAt to UpdatedAt.

*Cooldown, jobs.* A later, shorter `MarkAfter` ends a longer pause early; a `Clear` between bucket and
table leaves a row. `job_started` of one job may be sent after the end of the next. A second job, or a
restart, after an interrupted organize forgets the diverged path; the organize that follows an artist
merge is started past the job file (`handlers_library.go:352`). `runPersistedJob` stores
the start time as FinishedAt (`handlers_jobs.go:116,130`).

*Tracking.* Albums queued track by track have track titles as keys, so `requeueStalled` never
finds them (`service_search.go:478-508`). `MarkAlbumStatus(downloading)` overwrites an ignore made
meanwhile (354, 386). Two searches at once may queue an album twice.

*Playlists.* "Repeated calls never double-queue" (`service.go:222-229`): two overlapping runs can,
when the first record fails in between. A sync writes back the row it read minutes earlier (538), undoing
edits of auto_sync and mode. An import is not guarded against a sync (165). The older of two folder builds
removes files of the newer.

*Library.* `getOrCreateAlbum` checks and then inserts: two rows for one album. Scan and import
may create two rows for a path; an organize then leaves one dangling. The chain's whole-row writes
may undo an organize's path. `os.Rename` of the renamer replaces an existing file. Two enrichers that
create one cover.jpg: the failing one removes it. The attempt at an image is claimed for a day even
when every provider is cooling.

*Tidal.* A settings save rebuilds the client without the persist callback (`api/handlers.go:1036`), a
rebuild during a refresh starts from the spent token, the device flow stores its token outside
`refreshMu`. `writeStream` sets downloading over a cancel's ignored (`client.go:545`). Downloads with one
display name write one file (503).

*Deezer.* A connection dropped in mid-file is taken for its end, and the file is imported truncated
(`download.go:797`). Overlapping connection checks may leave the ten-second client in place for good (271-275).
An expired ARL is noticed at the next check only. A missing preferred quality falls to lower ones,
then to better ones.

*Soulseek.* `findDownloadIDByFilename` ignores peer and age (`client.go:375`). The fallback id keeps
backslashes, listings are normalised (345, 457). A removed download may be put back by a listing
(405). A loose track of one peer is dropped when another's album has the same name (952-963).

*Search.* `pickBestByScore` says "highest match confidence … within 0.05", but compares neighbours and
may drift. `FindBestMatch` says that quality trumps the score (`engine.go:253-257`); without
`rank_candidates_by_quality` the pick is by score. Profiles: a second default can be created, none can be left.
Candidates are deduplicated by file name across peers (273).

*Settings.* Overlapping saves: the older one's reconcile may rebuild a plugin from settings older than the
persisted ones (`handlers.go:1025-1041`). A failed write leaves memory changed and plugins not rebuilt; a second try
sees no difference (1004). Requests to check are called coalesced (`health.go:124-126`), but a full channel
drops earlier names. `os.WriteFile` is not atomic (`persist.go:127`). `Get()` shares its Sources map with `Merge`.

*Album import, zip.* A record left by an interrupted import makes the next one skip a track
(`handler_album_import.go:161`); the positional fallback may use another track's number, and the files replace one another
(345); a file named exactly like an expected track whose number an earlier file was given goes by its own name (374) to the same path
and replaces it: the case `NamesApart` leaves out; an album of which nothing was imported is set to imported (190). A cover that breaks off stays torn in a finished zip.

*Accounts.* Two updates of one account at once can leave a session of an older role (`handlers_users.go:337`).

## 6. Not modelled

*Pipeline*: database errors and failing provider cancels; a plugin removed or replaced while a
download is tracked (close to a lost transfer); torrents with equal hashes; the dedup match (ids
are distinct recordings); store.Delete; progress, paths, names, error texts, events for the user
interface; the length of backoffs. The hazards of `monitor_retry.go:55,66,280`, `monitor_core.go:240`,
`service.go:124` and `monitor_dispatch.go:389` (a panicking search outside scanRetry ends the process, failed searches are
not counted, a record without artist waits for ever, deduplication ignores waiting retries, timed-out
transfers run on) are described in sections 3 and 5 and have no property.

*Everywhere*: the parsing and formatting of provider answers, tags and templates; listings and
statistics for the user interface; HTTP routing and parameter checks; the discovery of candidates
and their scores; the image cache. `domain`, `logging`, `version` hold no state that matters, the web interface is a
program of its own. Interactions between scenes are not composed: the cooldown seen by the
refresh engine, by enrichment and by search is left open at every look there, which allows
whatever ProviderCooldown does; the job manager's cancel is left open in Library and Enrichment in the same way.

## 7. Plan

1. (done) The pipeline: store, service, monitor, importer, restarts; type, hand-over and slot proofs.
2. (done) Catalog refresh; services; providers and files.
3. (done) Proofs: `ImportExclusive`; the catalog's safety properties; jobs, tracking, accounts, playlists, settings.
4. (done) Proofs: `RetryBudget`, `DownloadingWatched` and the refinement of `DownloadLifecycle` without users.
5. (done) Proofs: `LoginsHonest` and `ProvidersSpared` of the providers.
6. (done) Proofs: `LibraryKept` and `FilesFollowed` of the library and enrichment.
7. (done) Proofs: `SoulseekSound` and `DownloadsWhole` of the providers' transfers.
