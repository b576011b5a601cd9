-------------------------------- MODULE Settings --------------------------------
(***************************************************************************)
(* The settings (config/persist.go, config/config.go), the handler that    *)
(* saves them (api/handlers.go), the plugin registry it rebuilds           *)
(* (plugin/registry.go) and the health checker it wakes                    *)
(* (plugin/health.go).  The save holds the configuration's lock only while *)
(* it merges and writes; what follows reads the settings again, and        *)
(* several browsers may be saving.                                         *)
(***************************************************************************)
EXTENDS Naturals, Sequences, FiniteSets, SequencesExt, TLC

CONSTANTS
  Plugins,       \* plugins with a section of settings
  Savers,        \* browsers
  FirstLength,   \* of the secrets in the first config.json
  SecretLengths, \* of those typed later; 0 is an empty field
  MaxSaves,      \* bound: PUT /config requests
  MaxBoots,     \* bound: starts of the process
  MaxChecks      \* bound: health checks of all plugins in one start

ASSUME SettingsAssumption == FirstLength \in Nat /\ SecretLengths \subseteq Nat

VARIABLES
  settings,  \* Persistence.cfg: library path, the sections, the download order
  file,      \* config.json
  registered, \* Registry.plugins: the section each was built from, and its number
  saver,     \* by browser: the form it shows, and its request
  saves, starts, checks,  \* bounds
  typed,     \* ghost: the secret typed last, in a save that was merged
  raced,     \* ghost: two saves overlapped, or a part of one failed
  wake,      \* HealthChecker.wake, capacity 1
  prober,    \* the checker's loop: what is left, and the instance it probes
  status,    \* HealthChecker.status: the instance the last answer is about
  asked      \* ghost: the names of the latest RequestCheck that were not skipped

settingsVars == <<settings, file, registered, saver, saves, starts, checks, typed, raced,
                  wake, prober, status, asked>>

(* A secret is told apart by its length; `hidden` is one shown as stars.   *)
Secret(n) == [len |-> n, hidden |-> FALSE]
(* MaskKeepsLength: as many stars as the secret has characters, which      *)
(* isMaskedString takes for a secret when there are four.                  *)
MaskKeepsLength(s) == IF s.len = 0 THEN s ELSE [len |-> s.len, hidden |-> TRUE]
maskSecretString(s) ==
  IF s.len = 0 THEN s ELSE [len |-> IF s.len > 4 THEN s.len ELSE 8, hidden |-> TRUE]
isMaskedString(s) == s.len >= 5 /\ s.hidden

(* A section: its secret, and whether its download directory is an own one *)
(* next to the library.  The library path is written relative, shown       *)
(* absolute, or another one, inside that directory.                        *)
Section(n, own) == [secret |-> Secret(n), own |-> own]
Paths == {"relative", "absolute", "inside"}
NoPath == ""
FirstConfig == [path |-> "relative", sources |-> [p \in Plugins |-> Section(FirstLength, FALSE)], order |-> <<>>]

ValidateConfig(c) == c.path = "inside" => \A p \in Plugins : ~c.sources[p].own
expandPaths(path) == IF path = "relative" THEN "absolute" ELSE path
contractPaths(path, prev) == IF prev = "relative" /\ path = "absolute" THEN "relative" ELSE path
MaskOf(c) == [path |-> expandPaths(c.path),
              sources |-> [p \in Plugins |-> [c.sources[p] EXCEPT !.secret = maskSecretString(@)]]]

(* Config.Merge: absent fields and sections stay, a masked secret is the   *)
(* one there is.                                                           *)
mergeJSONPreservingSecrets(orig, part) ==
  IF isMaskedString(part.secret) THEN [part EXCEPT !.secret = orig.secret] ELSE part
Merge(c, part) ==
  [c EXCEPT !.path = IF part.path = NoPath THEN @ ELSE part.path,
            !.sources = [p \in Plugins |->
              IF p \in DOMAIN part.sources
              THEN mergeJSONPreservingSecrets(@[p], part.sources[p]) ELSE @[p]]]

IsConfigured(section) == section.secret.len > 0
Configured == {p \in Plugins : IsConfigured(registered[p].section)}
ByName == SetToSeq(Plugins)
(* connectedNames: the order without those that are gone, the new ones     *)
(* after it in the registry's order.                                       *)
connectedNames(order) ==
  LET kept == SelectSeq(order, LAMBDA p : p \in Configured)
  IN kept \o SelectSeq(ByName, LAMBDA p : p \in Configured \ ToSet(kept))

-----------------------------------------------------------------------------
NoForm == [at |-> "away"]
AtRest == [todo |-> {}, probed |-> 0]

(* InitAll, InitRemaining: every plugin from its section or its defaults.  *)
InitAll(c) == registered' = [p \in Plugins |->
                               [section |-> c.sources[p], number |-> registered[p].number + 1]]

SettingsInit ==
  /\ settings = FirstConfig /\ file = FirstConfig
  /\ registered = [p \in Plugins |-> [section |-> FirstConfig.sources[p], number |-> 1]]
  /\ saver = [s \in Savers |-> NoForm]
  /\ saves = 0 /\ starts = 1 /\ checks = 0
  /\ typed = [p \in Plugins |-> Secret(FirstLength)] /\ raced = FALSE
  /\ wake = <<>> /\ prober = AtRest
  /\ status = [p \in Plugins |-> 0] /\ asked = {}

(* handleGetConfig: the browser has the settings with the secrets hidden,  *)
(* for as long as the page is open.                                        *)
GetConfig(s) ==
  /\ saver[s].at = "away" /\ saves < MaxSaves
  /\ saver' = [saver EXCEPT ![s] = [at |-> "form", view |-> MaskOf(settings)]]
  /\ saves' = saves + 1
  /\ UNCHANGED <<settings, file, registered, starts, checks, typed, raced, wake, prober, status, asked>>

(* What the page sends of a section: its secret as it was shown or typed   *)
(* anew.                                                                   *)
Edited(section) ==
  [secret : {section.secret} \cup {Secret(n) : n \in SecretLengths}, own : BOOLEAN]
Partials(view) ==
  [path : {NoPath, view.path, "inside"}, sources : {<< >>}]
    \cup UNION {[path : {NoPath, view.path}, sources : [{q} -> Edited(view.sources[q])]] : q \in Plugins}

(* handleUpdateConfig up to the lock: it keeps the sections as they were   *)
(* and validates the merged settings on a copy.                            *)
SnapshotAndTry(s) ==
  /\ saver[s].at = "form"
  /\ \E part \in Partials(saver[s].view) :
       saver' = [saver EXCEPT ![s] =
         IF ValidateConfig(Merge([settings EXCEPT !.path = expandPaths(@)], part))
         THEN [at |-> "tried", part |-> part, old |-> settings.sources] ELSE NoForm]
  /\ raced' = (raced \/ \E t \in Savers \ {s} : saver[t].at \notin {"away", "form"})
  /\ UNCHANGED <<settings, file, registered, saves, starts, checks, typed, wake, prober, status, asked>>

(* Persistence.Update, under the lock.  A failed write is answered with an *)
(* error and leaves the merged settings in memory only.                    *)
Save(c) ==
  LET kept == [c EXCEPT !.path = contractPaths(@, settings.path)] IN
  /\ settings' = kept
  /\ file' \in {kept, file}

TypedIn(part) == [p \in Plugins |->
  IF p \in DOMAIN part.sources /\ ~part.sources[p].secret.hidden THEN part.sources[p].secret ELSE typed[p]]

MergeAndSave(s) ==
  /\ saver[s].at = "tried"
  /\ LET c == Merge(settings, saver[s].part) IN
     IF ~ValidateConfig(c)
     THEN /\ saver' = [saver EXCEPT ![s] = NoForm]
          /\ UNCHANGED <<settings, file, typed, raced>>
     ELSE /\ Save(c) /\ typed' = TypedIn(saver[s].part)
          /\ raced' = (raced \/ file' # settings')
          /\ saver' = [saver EXCEPT ![s] = IF file' = settings'
                         THEN [at |-> "saved", old |-> saver[s].old] ELSE NoForm]
  /\ UNCHANGED <<registered, saves, starts, checks, wake, prober, status, asked>>

(* reconcileAfterConfigUpdate: the settings are read once more; another    *)
(* save may have been merged since, and `old` may be older than both.      *)
ReadUpdated(s) ==
  /\ saver[s].at = "saved"
  /\ saver' = [saver EXCEPT ![s] =
       [at |-> "rebuild", updated |-> settings, built |-> {},
        todo |-> {p \in Plugins : settings.sources[p] # saver[s].old[p]}]]
  /\ UNCHANGED <<settings, file, registered, saves, starts, checks, typed, raced, wake, prober, status, asked>>

\* A factory that cannot create leaves the instance there is.
Rebuild(s, p) ==
  /\ saver[s].at = "rebuild" /\ p \in saver[s].todo
  /\ \/ /\ registered' = [registered EXCEPT ![p] =
             [section |-> saver[s].updated.sources[p], number |-> @.number + 1]]
        /\ saver' = [saver EXCEPT ![s].todo = @ \ {p}, ![s].built = @ \cup {p}]
        /\ UNCHANGED raced
     \/ /\ raced' = TRUE
        /\ saver' = [saver EXCEPT ![s].todo = @ \ {p}]
        /\ UNCHANGED registered
  /\ UNCHANGED <<settings, file, saves, starts, checks, typed, wake, prober, status, asked>>

(* RequestCheck: a full channel is emptied first, and the names in it are  *)
(* forgotten.                                                              *)
RequestCheck(s) ==
  /\ saver[s].at = "rebuild" /\ saver[s].todo = {}
  /\ IF saver[s].built = {} THEN UNCHANGED <<wake, asked>>
     ELSE wake' = <<saver[s].built>> /\ asked' = saver[s].built
  /\ saver' = [saver EXCEPT ![s].at = "order"]
  /\ UNCHANGED <<settings, file, registered, saves, starts, checks, typed, raced, prober, status>>

(* The download order follows the plugins that are configured now; what is *)
(* written was computed from the settings read before the rebuilds.        *)
SyncOrder(s) ==
  /\ saver[s].at = "order"
  /\ LET synced == connectedNames(saver[s].updated.order) IN
     IF synced = saver[s].updated.order THEN UNCHANGED <<settings, file, raced>>
     ELSE /\ Save([settings EXCEPT !.order = synced])
          /\ raced' = (raced \/ file' # settings')
  /\ saver' = [saver EXCEPT ![s] = NoForm]
  /\ UNCHANGED <<registered, saves, starts, checks, typed, wake, prober, status, asked>>

-----------------------------------------------------------------------------
(* The health checker's one loop: after a first round a wake-up or the     *)
(* ticker starts another, which looks each plugin up, probes the instance  *)
(* and keeps the answer under the plugin's name.                           *)
CheckerIdle == prober = AtRest
TakeWake ==
  /\ CheckerIdle /\ checks > 0 /\ wake # <<>>
  /\ prober' = [AtRest EXCEPT !.todo = wake[1]] /\ wake' = <<>>
  /\ UNCHANGED <<settings, file, registered, saver, saves, starts, checks, typed, raced, status, asked>>

CheckNow ==
  /\ CheckerIdle /\ checks < MaxChecks
  /\ prober' = [AtRest EXCEPT !.todo = Plugins] /\ checks' = checks + 1
  /\ UNCHANGED <<settings, file, registered, saver, saves, starts, typed, raced, wake, status, asked>>

(* checkOne: an unconfigured, disabled or cooling plugin keeps the status  *)
(* it had.                                                                 *)
BeginProbe(p) ==
  /\ prober.probed = 0 /\ p \in prober.todo
  /\ IsConfigured(registered[p].section)
  /\ prober' = [todo |-> prober.todo, probed |-> registered[p].number, name |-> p]
  /\ UNCHANGED <<settings, file, registered, saver, saves, starts, checks, typed, raced, wake, status, asked>>

SkipProbe(p) ==
  /\ prober.probed = 0 /\ p \in prober.todo
  /\ prober' = [AtRest EXCEPT !.todo = prober.todo \ {p}] /\ asked' = asked \ {p}
  /\ UNCHANGED <<settings, file, registered, saver, saves, starts, checks, typed, raced, wake, status>>

ProbeAnswers ==
  /\ prober.probed > 0
  /\ status' = [status EXCEPT ![prober.name] = prober.probed]
  /\ prober' = [AtRest EXCEPT !.todo = prober.todo \ {prober.name}]
  /\ UNCHANGED <<settings, file, registered, saver, saves, starts, checks, typed, raced, wake, asked>>

(* The process ends anywhere and starts from the file: reload, InitAll.    *)
Restart ==
  /\ starts < MaxBoots /\ starts' = starts + 1
  /\ settings' = file /\ InitAll(file)
  /\ saver' = [s \in Savers |-> NoForm]
  /\ typed' = [p \in Plugins |-> file.sources[p].secret] /\ raced' = FALSE
  /\ wake' = <<>> /\ prober' = AtRest /\ checks' = 0
  /\ status' = [p \in Plugins |-> 0] /\ asked' = {}
  /\ UNCHANGED <<file, saves>>

SettingsNext ==
  \/ \E s \in Savers :
       \/ GetConfig(s) \/ SnapshotAndTry(s) \/ MergeAndSave(s) \/ ReadUpdated(s)
       \/ RequestCheck(s) \/ SyncOrder(s) \/ \E p \in Plugins : Rebuild(s, p)
  \/ TakeWake \/ CheckNow \/ ProbeAnswers \/ Restart
  \/ \E p \in Plugins : BeginProbe(p) \/ SkipProbe(p)

-----------------------------------------------------------------------------
SettingsTypeOK ==
  /\ settings.path \in Paths /\ file.path \in Paths
  /\ Len(wake) <= 1 /\ prober.todo \subseteq Plugins

NoSaver == \A s \in Savers : saver[s].at \in {"away", "form"}

(* The latest request for a check is honoured even by a checker that was   *)
(* at work: when nothing is left to do, the status of a plugin it named is *)
(* about the instance that is registered now, not about a replaced one     *)
(* whose answer came late.                                                 *)
RequestHonoured ==
  NoSaver /\ CheckerIdle /\ checks > 0 /\ wake = <<>> => \A p \in asked : status[p] = registered[p].number

(* However saves overlap, fail or are cut off: the settings in memory and  *)
(* on disk pass the validation (each save was tried on settings that may   *)
(* have changed before it was merged), and a plugin's secret is the one    *)
(* typed last, never the stars a page showed nor a secret of an older      *)
(* page.  Where saves did not overlap and nothing failed, the registered   *)
(* plugins are those the settings describe.  And RequestHonoured.          *)
SettingsSound ==
  /\ ValidateConfig(settings) /\ ValidateConfig(file)
  /\ \A p \in Plugins : settings.sources[p].secret = typed[p]
  /\ NoSaver /\ ~raced => /\ \A p \in Plugins : registered[p].section = settings.sources[p]
                          /\ file = settings
  /\ RequestHonoured
==============================================================================
