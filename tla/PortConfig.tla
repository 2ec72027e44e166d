----------------------------- MODULE PortConfig -----------------------------
(***************************************************************************)
(* EndpointConfigService: api-endpoints.yaml, read at start and again at   *)
(* every change the watcher reports, each reload on its own. PortRegistry  *)
(* takes a port's tier and breaker settings from it once, at register(),   *)
(* and asks it for the adapter at every call, after MOCK_MODE.             *)
(***************************************************************************)
EXTENDS Integers, FiniteSets

CONSTANTS MaxVersions,   \* bound on edits of the file
          Tiers, Adapters,
          NoConfig       \* the empty map a service starts with

\* A version of the file: valid and with an entry of the port or without one, not what
\* the Zod schema asks, or broken (a ${VAR} that is not set, no YAML); and what its
\* entry says.
FileContents == [verdict : {"listed", "unlisted", "mismatch", "broken"},
                 tier : Tiers, adapter : Adapters]

\* A version of the file as the loads know it; the file starts at version 1.
Version == [version : Nat \ {0}, content : FileContents]

ASSUME ConfigAssumption == NoConfig \notin Version

VARIABLES production,  \* NODE_ENV
          mockMode,    \* MOCK_MODE
          file,        \* [version, content] on disk
          notices,     \* change events the watcher has still to deliver
          reads,       \* loads whose readFile is done or under way: [version, content]
          config,      \* this.config: [version, content] or NoConfig
          process,     \* "starting", "up" or "dead"
          portTier,    \* what register() resolved: the tier, or "unregistered"
          registeredOn,\* history: this.config when the port was registered
          excused      \* history: two loads were in flight at once, an edit came before
                       \* the watcher, or a reload could not read the file

configVars == <<production, mockMode, file, notices, reads, config, process, portTier,
                registeredOn, excused>>

Usable(r) == r.content.verdict \in {"listed", "unlisted"}
HasEndpointConfig(c) == c # NoConfig /\ c.content.verdict = "listed"

ConfigInit ==
  /\ production \in BOOLEAN /\ mockMode \in BOOLEAN
  /\ file \in [version : {1}, content : FileContents]
  /\ notices = 0
  /\ reads = {file} /\ config = NoConfig   \* onModuleInit: loadConfig()
  /\ process = "starting" /\ portTier = "unregistered" /\ registeredOn = NoConfig
  /\ excused = FALSE

\* Somebody edits the file; awaitWriteFinish reports it when it is stable.
Edit ==
  /\ file.version < MaxVersions /\ process # "dead"
  /\ \E c \in FileContents : file' = [version |-> file.version + 1, content |-> c]
  /\ notices' = IF process = "up" THEN notices + 1 ELSE notices
  /\ excused' = (excused \/ process = "starting")
  /\ UNCHANGED <<production, mockMode, reads, config, process, portTier, registeredOn>>

\* The watcher's callback starts a load: readFile takes what is on disk now, its
\* promise may resolve after that of a later load. A burst of edits is one event.
Reload ==
  /\ process = "up" /\ notices > 0
  /\ notices' \in 0..notices - 1
  /\ reads' = reads \cup {file}
  /\ excused' = (excused \/ reads # {})
  /\ UNCHANGED <<production, mockMode, file, config, process, portTier, registeredOn>>

\* Mutant: only the first file is ever taken.
InstallsFirst(r) == IF config = NoConfig /\ Usable(r) THEN r ELSE config

\* Nothing but a usable file replaces the map.
Installs(r) == IF Usable(r) THEN r ELSE config

\* What the service that comes up does after a load: a broken file rejects
\* onModuleInit everywhere, a mismatch only outside production.
ComesUp(r) == Usable(r) \/ (r.content.verdict = "mismatch" /\ production)

\* loadConfig after the await: resolve, parse, validate, swap.  The watcher catches
\* what a reload throws.
Load(r) ==
  /\ r \in reads /\ reads' = reads \ {r}
  /\ config' = Installs(r)
  /\ process' = CASE process # "starting" -> process
                  [] process = "starting" /\ ComesUp(r) -> "up"
                  [] OTHER -> "dead"
  /\ UNCHANGED <<production, mockMode, file, notices, portTier, registeredOn, excused>>

\* readFile rejects: onModuleInit rejects with it, and the watcher's reload is lost.
ReadFails(r) ==
  /\ r \in reads /\ reads' = reads \ {r}
  /\ process' = IF process = "starting" THEN "dead" ELSE process
  /\ excused' = TRUE
  /\ UNCHANGED <<production, mockMode, file, notices, config, portTier, registeredOn>>

\* The tier register() takes: the entry's, or the fallback (dynamic, never queued).
TierOf(c) == IF HasEndpointConfig(c) THEN c.content.tier ELSE "dynamic"

\* register() when the modules come up.
RegisterPort ==
  /\ process = "up" /\ portTier = "unregistered"
  /\ portTier' = TierOf(config) /\ registeredOn' = config
  /\ UNCHANGED <<production, mockMode, file, notices, reads, config, process, excused>>

\* The adapter of execute(): MOCK_MODE, then the current map's entry, then live.
AdapterUsed ==
  IF mockMode THEN "mock" ELSE IF HasEndpointConfig(config) THEN config.content.adapter ELSE "live"

ConfigNext ==
  \/ Edit \/ Reload \/ RegisterPort
  \/ \E r \in reads : Load(r) \/ ReadFails(r)

ConfigSpec == ConfigInit /\ [][ConfigNext]_configVars

-----------------------------------------------------------------------------
\* Whatever is saved, whenever: the map in use is a valid file's, no reload takes the
\* last valid one away, and a service runs without one in production only.
ConfigIsValid ==
  /\ config # NoConfig => Usable(config)
  /\ config = NoConfig /\ process = "up" => production
  /\ process = "dead" => config = NoConfig

\* Once the watcher has caught up, calls use the adapter that MOCK_MODE and the file on
\* disk name, unless that file is invalid, an edit came before the watcher was started,
\* a reload could not read it, or two reloads overlapped (and the older one may have
\* finished last).
SettledIsCurrent ==
  process = "up" /\ notices = 0 /\ reads = {} /\ Usable(file) /\ ~excused =>
    /\ config = file
    /\ ~mockMode /\ file.content.verdict = "listed" => AdapterUsed = file.content.adapter
    /\ ~mockMode /\ file.content.verdict = "unlisted" => AdapterUsed = "live"
    /\ mockMode => AdapterUsed = "mock"

\* Reloads reach the adapter and never the tier: a port keeps the tier of the map it
\* was registered on, however often the map was replaced since, and the two disagree
\* only after an edit.
RegisteredFromFile ==
  portTier # "unregistered" =>
    /\ portTier = TierOf(registeredOn)
    /\ TierOf(config) # portTier => config # registeredOn /\ file.version > 1

\* Edits, watcher and reloads in any order leave a valid and current configuration.
ConfigSafe == ConfigIsValid /\ SettledIsCurrent /\ RegisteredFromFile
=============================================================================
