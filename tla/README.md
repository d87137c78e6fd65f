# Verification of dreamKIT's core logic in TLA+

dreamKIT is the software of a vehicle kit: a manager process (dk-manager) that
serves the messages of the digital.auto server, an in-vehicle user interface
(Qt/QML) with its pages and a marketplace, an installer for vehicle apps and
services, and the services themselves. This directory models the part of it that
keeps state which several threads or several programs change, model-checks it with
TLC and proves the central invariants with TLAPS.

Paths below are relative to `src/dreamos-core/dk-ivi-lite/` unless they start with
`src/services`.

## 1. Inventory

| part | state it keeps | operations | how it interacts | what is hard | what makes it correct |
|---|---|---|---|---|---|
| **dk-manager: prototype commands** (`dk-manager/src/message_to_kit_handler.cpp`, `prototype_utils.cpp`, `dapr_utils.cpp`, `fileutils.cpp`) | `digitalAutoPrototypeMutex`; `prototypes.json`; `main.py` and the Ara app of each prototype; docker containers | deploy_request, deploy_AraApp_Request, list_prototypes, run/stop/set-python-code | a thread per message; replies to the server; files read by the UI | handlers overlap; only two of six take the lock; files are truncated, then written, and nobody looks whether a read or a write succeeded; dk-manager is killed at any point | nothing listed twice, nor lost without such a failure; success means listed, stored and (if asked) running the new code; every message answered |
| **dk-manager: VSS mapping** (same file, `FileUtils`) | overlay, `supportedvssapi.json`, channel list, CAN defaults, `vss.json`, vehicle model, start/stop scripts, two mutexes; feeder processes, databroker | vss_mapping, vss_mapping_factory_reset, set_support_apis | generators and docker run by `system()`; optional zone controller; the server is told the API list | a long pipeline, each stage of which may fail, most of them unnoticed; mapping and reset overlap, as they hold different mutexes; a failed request is sent again | one feeder per channel; a success leaves all artifacts of one mapping; the API list matches the overlay; no mutex kept |
| **dk-manager: connection, registration, downloads** (`dkmanager.cpp`) | connection flags, serial number | connect, reconnect, dispatch | socket.io callbacks | callbacks against the main thread | dispatch: a thread per message |
| **dk-manager: vehicle orchestrator** (`vcuorchestrator.cpp`) | files sent to the zone controller | send files, restart | called by mapping and reset, if built in; a socket to the zone controller | messages are emitted and never looked after: late, or lost | what arrived in the end is what was sent, and runs |
| **UI: digital.auto page** (`src/digitalauto/`) | rows, list in memory, current row, dialog, watcher, reload timer, worker trigger | load, start, stop, remove | reads and rewrites `prototypes.json`; docker | the file changes under an open dialog; queued worker answers; no lock shared with dk-manager | the page shows the file in the end; no duplicates; the app named is the app removed |
| **UI: installed services / vApps pages** (`src/installedservices/`, `src/installedvapps/`) | the same, a mutex per page, a status thread or timer | load, start, stop, remove | shares the list file with two installers; docker | early returns that keep the mutex; a thread that reads the list unlocked; late status signals | rows and toggles settle on the file and on docker; an app runs its own image |
| **UI: marketplace** (`src/marketplace/`) | search results | search, installApp | runs `main_simple.py` and waits | the GUI thread waits for a program that rewrites the watched file | the installed app is listed |
| **app install service** (`dk_appinstallservice/scripts/`) | image, `runtimecfg.json`, package; overlay, CAN defaults, `supportedvssapi.json`; the two lists of what is installed | one installation: a pipeline of stages | docker; restarts vssgen, databroker, dk_manager and dk_ivi; a new installation kills the one that runs | a stage fails, or the installer is killed with a file truncated; the broker is restarted on fixed delays | a success has done everything; what is listed keeps what it needs; what is offered is mapped |
| **UI: dk-manager subprocess** (`src/main/dkmanager_subprocess.cpp`, `main.cpp`) | `QProcess` and its state, the child | start, stop, kill after a timeout | QProcess signals, handled when the GUI thread waits or loops | a start that is given up and happens later; a child that ignores SIGTERM, crashes, or ends unnoticed | no child outlives the UI; the UI always ends; a reported start is followed by a reported stop |
| **UI: controls** (`src/controls/`, `src/library/vapiclient/`) | widgets, clients, subscriptions | read the targets, click, drag, subscribe | databroker (KUKSA): current and target values; callbacks on detached threads | echoes of one's own and others' writes, a slider that is held, eight-bit values | the widgets end up showing the targets; what is written is in range |
| **CAN provider** (`src/services/dreampack-HVAC-CAN-provider`) | running flags, registration, client, connectivity | receiver and transmitter threads, stop, restart of the process | databroker, CAN bus, signals, gRPC's callback thread | stop against start, a second signal, outages of the broker, a lost subscription | a stop ends every thread; each direction is served again after an outage |
| demo service, configuration, installation scripts | - | - | - | nothing shared | - |

`PROJECT.json` lists the same parts with their status, and under `hazards` the places
in the code the properties are about.

## 2. Modules

    PrototypeRegistry            what the prototype commands promise (abstract)
      ^ implemented by
    PrototypeStore               prototype commands of dk-manager
      ^ EXTENDS        \- PrototypeStoreProofs   theorems
    PrototypeSystem  ---INSTANCE---> DigitalAuto (the page)
      ^ EXTENDS        \- PrototypeSystemProofs  theorems
    VssMapping                   VSS commands of dk-manager
      ^ EXTENDS        \- VssMappingProofs       theorems
    InstalledApps                pages of installed services and vApps, installers
      ^ EXTENDS        \- InstalledAppsProofs    theorems
    InstallService               the pipeline of the app installer
      ^ EXTENDS        \- InstallServiceProofs   theorems
    IviMain  ---EXTENDS---> Controls   the UI process, its child dk-manager, the controls
      ^ EXTENDS        \- IviMainProofs          theorems
    DbcFeeder                    the CAN provider
      ^ EXTENDS        \- DbcFeederProofs        theorems
    ListLemmas                   what removing an element leaves of a list; used by the
                                 proofs about both kinds of pages
    MCPrototypeStore, MCPrototypeSystem, MCVssMapping, MCInstalledApps,
    MCInstallService, MCIviMain, MCDbcFeeder                             for TLC

Every module has one action per step of the code that another thread or program can
see: a write to a file is two actions (open truncates, close leaves the text), a
handler is a path of stages, and what a handler of the GUI thread does without
touching anything shared is one action. `PROJECT.json` maps each definition to its
lines. Definitions commented *Fault* or *Mutant* are never used by `Next`: each is a variant of
the definition after it with a plausible bug, kept to show that the property named in
`PROJECT.json` notices that bug.

### PrototypeStore

`Handlers` are the threads that `OnMessageToKit` starts; `pc[h]` is where
`MessageToKitHandler::run` is. `Arrive` dispatches (a handler serves one message, so the
number of handlers bounds the messages). A deployment goes `Lock`, then the files
(`OpenFile`, `CloseFile`), `ReadList` (`AppendPrototypeToList` reads), `OpenList`,
`WriteList`, possibly `StopApp` and `RunApp`, `Reply`, `Unlock`; each open for writing may
fail and leads to `Fail`. The failures that `FileUtils` does not look at are steps of
their own: `ReadFile` returns "" for a list that it cannot open, which reads as an empty
list (`ReadList`), and `WriteFile` returns 0 whatever became of `<<`, `flush` and `close`,
so that a file may stay empty or be cut off (`CloseFile`, `WriteList`). The handler goes
on to answer success; `missed` remembers which read or write of which handler it was.
start, stop, set-python-code and list_prototypes take no lock, as in the code. `Boot` and
`Exit` are docker's: a container reads `main.py` some time after it was started. `Restart`
kills dk-manager between any two steps and takes the threads with it (`lost`), leaving
files and containers. `MaxFaults` bounds restarts and unnoticed failures together.

*Abstracted*: the text of a file is the handler that wrote it; two writers whose writes
overlap leave `Torn`. An entry of the list is its id (`lastDeploy`, name and the like
decide nothing). `docker stop; docker rm` are one step, `docker run` another.
get-log, get-app-log and get-python-code only read and are left out.

`PrototypeRegistry` is the promise: one list that a prototype enters once and atomically;
success is acknowledged only for a prototype that is in it. Three things are excepted,
each an action or a condition of the abstract specification: a restart may lose the list
(`Crash`); a deployment whose read or write of the list failed unnoticed makes its
prototype `faulty` (`Fault`) and may empty the list, replace it by its own entry
(`RegisterAlone`) or be acknowledged for nothing. The refinement maps the registry to what
`prototypes.json` would hold if nobody were writing: a prototype is registered at the
instant the file is truncated to receive it.

### VssMapping

A message kind is a path through stages (`After`); a stage is one action. The overlay
is the function from API to its CAN signal (`Absent`: no entry); `Changed` is one
item applied to it, with the code's substring match (`Within` says which name occurs in
which). `Torn` is an overlay in which one request's text was overlaid by another's.
`Feeds` are dbc file and channel pairs, `FrameOf` what the dbc says about which
signals share a frame (`updateDbcDefaultValue`).

A stage fails in one of two ways. `MayFail` names the stages at which the code looks at the
failure and returns false: saving a file, the default values, generating `vss.json` or the
model, opening the list of supported APIs (`GiveUp`). Everywhere else it goes on: a file
behind `if (isOpen())` is skipped, a stream is never asked whether it could write, the exit
status of a shell command is dropped. Such a failure is a `Slip` of its stage, with the
outcomes the code leaves (the file as it was, empty, or cut off), and the request may end
with `true`. `flawed` is a history variable, the requests with a slip of their own.

Mapping and reset hold **different** mutexes and the code orders nothing between them, so
that any two requests of different kinds may overlap in every run about them. A request
that had another at its side is `flawed` as well: what the two leave on disk between them is
anybody's. The properties promise something to the requests that are not flawed, whatever
the flawed ones before them have left behind.

With an orchestrator, stop, start and the files are messages that `Emit` appends to
`link` without looking after them; `Deliver` is the zone controller taking the next one, at
any time later, `Lose` the connection dropping it. `zone` are the files there. `lastStop`
says how effective the last stop of the feeders was: it may have `missed` them, because it
failed or found no stop script.

`mem[h].added` and `mem[h].deleted` count how often the request has created and deleted
each API (`addedVssMappingList`, `deleteVssMappingList`); `UpdateSupported` turns them
into the change of the list. `tainted` is a history variable: the list of supported APIs is
promised to match the overlay only as long as, since the last flawless reset, no request
failed or shared the overlay with another, no write of overlay, default values or list
failed unnoticed, no request created an API that it had deleted itself, and
set_support_apis did not replace the list; what each of these does to it is described in
section 5.

*Abstracted*: the list of supported APIs is the set of the APIs in it; the channel list is
per item as in the code and only grows, except by a reset; the config and dbc files that a
mapping sends on are not told apart. An item's two files, the overlay and the default
values, are written in one step.

### DigitalAuto and PrototypeSystem

`DigitalAuto` is the page with the GUI thread (`gui`), its worker, the file watcher
(`changed`: notifications merge while the signal is queued) and the reload timer.
`PrototypeSystem` composes it with the store over one `list` and one `container`:
a write by dk-manager sets `changed`. Modal dialogs exclude other clicks (`Click`), but
not queued signals: the list can be loaded again while a dialog is open. The current
row after a reload is nondeterministic where Qt leaves it to the list view. Element
-1 of a list (`removeApp` checks the index only from above) is undefined behaviour,
modelled as the state `crashed` of the GUI thread. The page's `docker kill; rm; run`
is one step: the page waits for it and shares the name of the container only with
dk-manager.

### InstalledApps

One module for both pages, which have the same design; `page` says which one, chosen
initially. `Load` and `Fill` are `initInstalledServicesFromDB`: lock, clear, read and
return **without unlock** if the file does not parse, or fill and unlock. If the mutex is
still held, `Load` hangs the GUI thread for good (`hung`). `ScanDocker` and
`ScanRows` are the status thread of the services page, which reads the list without
the mutex: while the GUI thread changes the list the outcome is a crash or a
prefix of the rows. `CheckRunning` is the timer of the other page. `Install`,
`OpenInstall`, `SaveInstall` are the marketplace's installation, for which the GUI
thread waits; `OutsideLoads`, `OutsideOpens`, `OutsideSaves` are
`updateappmgrfile.py`, run from another container. `Restart` kills the UI anywhere,
also between truncation and write.

*Abstracted or left out*: the second computer ("vip"), the embedded mode (its toggle
handler is never called), the editor, the busy indicator, messages. An installation
from outside is modelled by its last step, the registration; the pipeline before it is
`InstallService`.

### InstallService

`main.py` takes one app through the stages of `Stages`; `pc` is the stage, and each
stage is one action, two where a file is truncated and then written (`Open` lists the
second halves). A vehicle app is registered after `SaveConfig`, a service has its
package (`Download`), its signals (`OpenOverlay`, `SaveOverlay` and, if its package has
a dbc file, `OpenDefaults`, `SaveDefaults`, once per signal), the list of supported APIs
and the restarts first. `GiveUp` is the early return of every stage with a command or a
request (`MayFail`). The two JSON lists do not parse while truncated (`Garbled`); the
overlay and the defaults read as empty, because of `yaml.safe_load` and the size test.
The list of supported APIs is held in memory (`known`) from before the loop until after
it. The installer runs in a container that the next installation stops and removes
(`Kill`), at any stage; `torn` remembers which file it had truncated. `Generate` is the
vssgen container, which the restart of the broker does not wait for (`hasty`).

*Abstracted or left out*: what a JSON config says beyond category and signals; the
second computer (vip); that dk_manager and dk_ivi are restarted (`RestartUi`) is a stage
that can fail, their own restarts are in their modules. Files are those of a kit on
which nothing else edits the overlay; `VssMapping` is the other writer.

### Controls and IviMain

`Controls` is the page of vehicle controls over the databroker: `shown` is a widget,
`target` and `current` the broker's values, `echoes[s]` the target values of `s` that are
on their way through a thread of the client and the event queue. `Lights` are truth
values, `Seats` three buttons, `Fans` sliders with a signal of one byte. `ReadTargets`
is `init()`, which keeps the string of the read before if a read fails. `Write` is the
pair of calls `setCurrentValue`, `setTargetValue`, each of which may fail unnoticed.
`Deliver` is the callback and the handler it is posted to: setting a slider that is
**held** fires `onValueChanged` again, which writes back. `connected` is whether the
configured endpoint is the constant the page asks for.

`IviMain` extends it with `main()`: the child process dk-manager, what `QProcess` knows of
it (`state`, which follows the child only when an event is handled or waited for), the
reports `managerStarted`, `managerStopped`, `managerError` as counters, and the way out:
destroy the pages, terminate, five seconds, kill, two seconds, `~QProcess`. What the child
does is free: it may start late, not at all, end or crash at any time, ignore SIGTERM.
`LateCallback` is a detached subscription thread that calls the page after it was
destroyed (undefined behaviour: nothing happens, or the state `crashed`).

### DbcFeeder

Four threads: `main` (`start()`, suspended while `handler` runs the signal handler's
`stop()`), `receiver`, `sender`, and gRPC's, whose actions are `Report` and `Exec`.
`_running`, `_transmit`, `_registered`, `_connected` are variables of their own, and
`stop()` is two steps (close the client; clear `_transmit`), after `_running` was
cleared, since both the handler and the receiver call it. `channel` is the connectivity,
`seen` what was last reported: reports may skip a state. On IDLE the callback sleeps and
replaces the process (`Exec`), which starts from `Init` with the broker as it is.
`OpenClient` raises, and the process ends, without a broker. The broker may refuse the
subscription, when a path of the mapping is not defined there (`SenderBegins`), and the
callback may raise an exception, which ends the subscription (`CallbackFails`). `early`,
`cut` and `unseen` are history variables for the exceptions of the properties: a `stop()`
that came before the sender set its own flag (it is overwritten); a `stop()` of the signal
handler that a second signal broke off before it cleared that flag; and a subscription that
was lost in a way that no IDLE tells of, so that nobody renews it.

## 3. What is checked

Deadlock checking is off in all runs: every model may rest once all messages are
served and the user does nothing. That nothing gets *stuck* is what the liveness
properties say.

| run | question | result |
|---|---|---|
| `store` | 3 messages of any of the six kinds, 2 prototypes; each open may fail; once, anywhere, a restart or a read or write that fails unnoticed | holds: types, `IInv`, `OneEntryPerId`, `NoEntryLost`, `ImplementsRegistry`, `ListIsAllOrNothing`, `AckedFilesIntact`, `AckedRunIsNew`, `EveryMessageAnswered` (about 1,386,000 states) |
| `vss_map` | 2 requests, each a mapping, a reset or set_support_apis, in sequence or overlapping; every failure that ends a request, and one that does not | holds: types, `OneFeederPerFeed`, `SupportedMatches`, `SuccessHeals`, `FeedersFollowMapping`, `EveryRequestAnswered` (1,368,000) |
| `vss_zone` | the build with a zone controller: 2 mappings or resets, messages late or lost, a file sent empty | holds: `ZoneFollows` (7,133,000, up to symmetry) |
| `page` | dk-manager deploying two prototypes while the user clicks twice | holds: types, `ListedOnce`, `PageCatchesUp` (212,000) |
| `apps_pages` | both pages of installed apps, one click, both installers, one restart | holds: types, `EachAppOnce`, `RunsItsOwnImage`, `KeptOnlyWhenEmpty`, `PageShowsFile`, `TogglesFollowDocker` (228,000) |
| `feeder` | the CAN provider, two outages of the broker, two signals, subscriptions refused or ended by their callback | holds: types, `LostSubscriptionNoticed`, `StopEnds`, `ReceiverServesAgain`, `SenderServesAgain` (24,600) |
| `install` | 3 installations of an app and 3 services, a failure or a kill at any stage | holds: types, `SuccessMeansInstalled`, `ListedStaysReady`, `SupportedIsMapped` (696,000) |
| `ivi` | the UI process with its child and the controls, 2 changes of values | holds: types, `NoOrphan`, `StartsAreStopped`, `Quits`, `WrittenInRange`, `Settles` (1,763,000) |
| `vss_substring` | does an item change only the API it names? | **violated**: names are compared with `contains` |
| `page_lost` | does a deployed prototype stay listed? | **violated**: a removal on the page writes an old list back |
| `page_named` | is the app removed the one the dialog names? | **violated**: the row is looked up when the dialog is confirmed, after a reload |
| `feeder_twice` | does a second signal end the CAN provider? | **violated**: `sys.exit` waits for a transmitter whose flag nobody clears any more |

The violated properties quote a comment, a text shown to the user or a README of the
repository; `findings` in `PROJECT.json` gives both places.

### Bounds

- *Handlers 2-3*: two handlers already interleave in every pair of stages; the third
  finds what two left behind (a retry, a lock kept, a torn file). The passing runs about VSS have
  two, because resets, overlaps and failures at every stage leave no room for more: what a third
  request repairs after two that overlapped is shown by the theorems only.
- *Prototypes / APIs / apps 2*: one to be lost or doubled and one that must not be
  affected; `page_named` takes three so that rows shift.
- *Unnoticed failures and restarts 1* (`MaxFaults`; none in the runs about the page, whose
  question is another): after it the model is in a state that `Init` does not produce, and
  handlers that have not been used yet serve messages after it. The theorems cover any
  number. The installed apps have their own bound of one restart.
- *Two CAN signals in one frame, one dbc on two channels*: a signal with a neighbour in
  its frame, and feeders that must be told apart.
- *Clicks 1-2, one installation of each kind*: enough for a toggle, removal or stop to
  overlap with a reload and another program's write.
- *Payloads* (`AllMappings`): create with and without a signal, update of the signal and
  channel, deletion, two items in one request, and a deletion followed by a creation of
  the same API in one request.
- *Installations 3 of 4 apps*: one that leaves something half done, one that builds on it,
  one that checks; services that share an API, have none, have a dbc file or not.
- *Changes of values 2* (`MaxWrites`): a change by the user and one by another program,
  in either order, with each echo; writes that a held slider sends back are not counted.
  The slider goes to 0, to 37 (between two steps) and 100; others set 55 and 255, the
  ends of rounding and of a byte.
- *Outages 2, signals 2*: an outage while the feeder recovers from one; a signal that
  meets the `stop()` of another. `feeder_twice` needs no outage.
- `ScanDocker` asks docker only once all earlier status signals were handled; the
  thread sleeps five seconds between scans.

Each property has a mutant of a mapped definition that makes it fail under the
same run (`mutants`), so none holds merely because its case never happens.

### Fairness

- `QThread::start` was called for every handler, so each handler that can take a step does
  so in the end: weak fairness per handler (`EveryMessageAnswered`,
  `EveryRequestAnswered`). Nothing obliges the zone controller to take a message or the
  connection to lose one, and no handler waits for either. A mutex is not assumed fair;
  with finitely many messages it need not be.
- The Qt event loop serves its sources and comes back to each: weak fairness of the
  GUI's steps, in `InstalledApps` one per source (watcher, status signals, timer,
  results), because a timer that is always due must not starve the rest.
- Worker and status threads run on, and commands sent to the background take effect.
- `IviMain`: the GUI thread handles what is posted to it, per signal, and works its way
  out of `main()`, time limits included; what was sent SIGKILL ends. The child, the user and
  the broker owe nothing.
- `DbcFeeder`: every thread runs on, and gRPC reports a state that stays; no signal need
  come, no callback fail. `SecondSignalEnds` is refuted under the same fairness, by threads
  that run on and never end. `ReceiverServesAgain` and `SenderServesAgain` are conditional on
  the broker staying up in the end.
- Nothing is assumed of the server, the user, docker (a container need never boot, and
  may exit at any time), or the power supply.

## 4. What is proved

### PrototypeStoreProofs

Checked by TLAPS for **any** set of handlers, prototypes and
commands and any number of restarts and unnoticed failures:

| theorem | says |
|---|---|
| `Invariance` | `Spec => []IInv` |
| `TypeCorrect` | `Spec => []TypeOK` |
| `NoDuplicates` | `Spec => []OneEntryPerId`: no prototype is ever listed twice |
| `EntriesKept` | `Spec => NoEntryLost`: only a restart between truncation and write, a read of the list that failed unnoticed, or such a write loses entries |
| `Refinement` | `Spec => ImplementsRegistry`: the handlers, their mutex and their two-step writes implement `PrototypeRegistry`, with its three exceptions |
| `FilesOfAckedDeployment` | `Spec => AckedFilesIntact`: a success means that the files hold what this deployment wrote, but for a write of its own that failed unnoticed (then cut off or empty, never an older text) and for set-python-code |
| `ContainerOfAckedRun` | `Spec => AckedRunIsNew`: no success while older code runs |
| `RepliesAreWhole` | `Spec => ListIsAllOrNothing`: a reply shows the registry or nothing |

Assumptions, all named in `PrototypeStore`: the commands of the instance are among
the six the code knows, the bound on faults is a natural number, the markers
(`None`, `Torn`, ...) differ from handlers and from each other.

**The argument.** `OneEntryPerId` is not inductive: a handler about to write
`prototypes.json` carries a list that it read earlier. `IInv` adds what makes that list
current. `Discipline`: whoever is between lock and unlock owns the mutex, and only
commands that lock reach the stages that touch the list. `ListState`: the truncated list
is empty; the list carried to the truncation is the current one with at most the handler's
own prototype appended (or that prototype alone, if `missed` says that the read failed);
the list carried to the write is free of duplicates. `Answers`: past the list, a
deployment's prototype is registered unless `missed` has its write, and nobody is answered
before. Each action preserves each part (one lemma per action; `KeepDiscipline`,
`KeepList` and `KeepAnswers` say what a step may change without disturbing a part).
`Alone` - two handlers that hold the mutex are the same - makes every other handler
irrelevant in the two write steps. `NoEntryLost` and the refinement are then step by step:
the truncation is `Register` (or a stutter for a known id), the answer is `Acknowledge`, a
restart in the middle of a write is `Crash`, a read or write of the list that fails
unnoticed is `Fault`, the truncation after such a read `RegisterAlone`; everything else
stutters.

Files and containers need a second invariant, `DeployInv`, on top of `IInv`. `FilesState`
says of the handler that holds the mutex what the stages behind it have put into its two
files; `OwnFiles` is its own step, `OthersFiles` that no other step disturbs it, because
whoever else writes a file is either outside the mutex (set-python-code, which `Editors`
excepts) or cannot exist (`Alone`). `RunState`: from `stopApp` on, a container of the
prototype was started later and has read, or will read, the new `main.py`. Starts by
messages without the lock are covered: they too read what is on disk when docker boots.

### VssMappingProofs

For **any** handlers, APIs, signals, channels, requests, noticed and unnoticed failures, with
mappings and resets overlapping freely:

| theorem | says |
|---|---|
| `Invariance` | `Spec => []IInv`, for both builds |
| `TypeCorrect` | `Spec => []TypeOK`, for both builds |
| `NeverTwoFeeders` | `Spec => []OneFeederPerFeed`: without an orchestrator, one feeder per channel, two where a mapping and a reset restart them at the same time, never more, as long as the last stop was carried out |
| `SuccessIsHealed` | `Spec => SuccessHeals`: a success without a flaw leaves all artifacts of this mapping or reset |
| `FeedersFollow` | `Spec => FeedersFollowMapping`: and, without an orchestrator, exactly its feeders |
| `ListMatchesMapping` | `Spec => []SupportedMatches`: until something taints them, the list of supported APIs is that of the mapped ones, and their frames have defaults |
| `OnlyTheNamedApi` | `Spec => OnlyNamedApiChanges`: an item changes the API it names and no other |

Assumptions: those named in `VssMapping`. The last two theorems also assume `NamesApart`: no
name of an API or signal occurs in another. That is an assumption about the data and not
about the code, which looks names up with `contains`. Run `vss_map` satisfies it; run
`vss_substring` does not, and `OnlyNamedApiChanges` is violated there, so that the theorem
says where the fault lies: with names apart, nothing else, and no interleaving, changes an
API that was not named. No theorem assumes anything about the order of requests. What is
said of the feeders is said of those that dk-manager runs itself: on a zone controller no
success can promise them, since nothing is known of a message that was emitted; what holds
there once the messages have arrived, `ZoneFollows`, is model-checked only.

**The argument.** The properties speak of the last step, `Unlock`; what is true there was
made true many stages before. `MapDone` and `ResetDone` say, stage by stage, what the
stages behind a request that is not flawed have done (`Past(h, stages)`: at one of them, or
at `Unlock` without having failed). That nobody undoes it is `Separate`: two handlers are
between lock and unlock only if both are `flawed`, by the mutex for two requests of one kind
(`Discipline`) and by what `Lock` records for a mapping beside a reset; set_support_apis
writes only the list of supported APIs, of which only a reset claims anything, and is
recorded as well. `Feeding` counts the feeders: after a stop that was carried out there are
none until a request behind its stop starts some, one more per channel for each of the at
most two that are. Earlier requests may have failed in any of their stages without notice:
nothing is claimed of what they left, but each stage writes its file anew.

`ListMatchesMapping` relates files that differ through most of a request: the overlay is
written item by item, the list only near the end. The second invariant, `ListInv`, says what
is true meanwhile. `Owed(h)`: from the list on disk and the counts in the memory of the
request one can tell which APIs are mapped now - a listed API is mapped as long as the
request has not deleted it, another was created once more than deleted if it is mapped,
else as often. `Covered`: the default values never lag behind, since they are written
with the item. `UpdateSupported` pays the debt. What breaks `Owed` or `Covered` is a taint: a
third creation path of the code, creating what the same request deleted, and the failures
to write one of the three files. With names apart, `Changed` changes one API (`ChangedIs`)
and `WithNames` is a union (`WithNamesApart`).

### PrototypeSystemProofs

For **any** handlers, prototypes, restarts and clicks, with dk-manager and the page writing
one `prototypes.json`:

| theorem | says |
|---|---|
| `SysInvariance` | `SysSpec => []SysInv` |
| `SysTypeCorrect` | `SysSpec => []SysTypeOK` |
| `NothingListedTwice` | `SysSpec => []ListedOnce`: in the file and on the page |

Assumptions: those of `PrototypeStore`, and that the bound on clicks is a natural number.

**The argument.** The store's `IInv` does not hold here: the page writes the file without
the lock, so that the list a handler carries may be an old one, and entries are lost (run
`page_lost`). What survives is `CopiesOnce`: every copy of the list, in the file, in a
handler, in the page's memory and rows, names each prototype once, so that it does not
matter whose copy is written last. A handler keeps it because it appends only what its
own copy lacks, the page because it only removes or copies. `Remembered` says what the
page's later steps rely on: an app that is named, a current row that exists. Each step of
either side is a lemma; `PageStepFrom` and `PageStepBeside` hand a step of the page to the
composition.

### InstalledAppsProofs

For **any** apps, clicks, installations and restarts, for both pages:

| theorem | says |
|---|---|
| `Invariant` | `Spec => []IInv` |
| `TypeCorrect` | `Spec => []TypeOK` |
| `NothingListedTwice` | `Spec => []EachAppOnce` |
| `ContainersRunTheirImage` | `Spec => []RunsItsOwnImage` |
| `MutexKeptOnEmptyPage` | `Spec => []KeptOnlyWhenEmpty` |
| `LaunchFindsItsRow` | `Spec => []RowStaysValid`: from the click to docker run, the row is the app's |

Assumptions: those named in `InstalledApps` (the pages of the instance are among the two,
bounds are natural numbers, what is preinstalled is a list of apps without duplicates).

**The argument.** A container gets its name from the row that was clicked and its image
from the list in memory, at that index. `RowsAgree` says that rows and list name the
same apps in the same order, each once; `RowStaysValid` that the index remembered from the
click is still that app's when docker is called. The latter holds because the GUI thread
does not return to the event loop in between, and the two others that touch the rows, the
status thread and the timer, change toggles only (`CheckedKeepsApps`). `CopiesOnce` is as
in `PrototypeSystemProofs`, with two installers instead of dk-manager.
`FillsEmptyPage` makes `KeptOnlyWhenEmpty` inductive: rows are appended under the mutex, to
a page that was cleared after the mutex was taken.

### InstallServiceProofs

For **any** apps, kinds, APIs and number of installations, with a failure at each stage that
has one and a kill at every stage:

| theorem | says |
|---|---|
| `Invariance` | `Spec => []IInv` |
| `TypeCorrect` | `Spec => []TypeOK` |
| `SuccessIsComplete` | `Spec => []SuccessMeansInstalled` |
| `ListedIsKept` | `Spec => []ListedStaysReady` |
| `OfferedIsMapped` | `Spec => []SupportedIsMapped` |

Assumption: `InstallAssumption` (each app has a kind and a set of APIs; the markers for files
that do not parse and for a broker that is down are no values of what they stand for).

**The argument.** A file that is open is empty on disk, so nothing about its text is
invariant. `OverlayText`, `DefaultsText`, `ListText` are what the open file held before it
was truncated and `OverlayNext` what it will hold; the invariant is about these. `Loop`:
the signals that the loop has behind it are in the overlay, in the list in memory and,
with a dbc file, among the defaults. `Offered`: the list in memory, loaded before the loop
and saved after it, covers the one on disk and holds nothing that the overlay will not
have. `Progress` carries what each stage has done to the end. `ListKept` says of every
listed app what `torn` leaves of its files, in terms of the same texts.

### IviMainProofs

For **any** signals, widgets, changes of values and any behaviour of the child process:

| theorem | says |
|---|---|
| `Invariance` | `Spec => []IInv` |
| `TypeCorrect` | `Spec => []TypeOK` |
| `NoChildSurvives` | `Spec => []NoOrphan` |
| `StopsAreReported` | `Spec => []StartsAreStopped` |
| `FanSpeedsFit` | `Spec => WrittenInRange` |

Assumption: `ControlsAssumption` (the three kinds of signals differ; a drag ends between 0
and 100; other programs set truth values for lights and bytes for the rest).

**The argument.** `Starting`, `Running` and `NotRunning` bound what the child may be doing
by what `QProcess` has seen of it, and `Where` says what main() has seen at each of its
places: it leaves `terminating` and `killing` only with the child's end or towards
`Destroy`, the destructor of QProcess, which kills and waits. `FanSpeedsFit` rests on two
lemmas about the conversions between slider and signal (`ShownFits`, `SettingFits`): what
is shown of any byte is at most 100, and what is written for any position up to 100 is a
multiple of ten in range.

### DbcFeederProofs

For **any** number of signals and of outages of the databroker:

| theorem | says |
|---|---|
| `Invariance` | `Spec => []FeederInv` |
| `TypeCorrect` | `Spec => []TypeOK` |
| `LossIsNoticed` | `Spec => []LostSubscriptionNoticed` |
| `StopIsLasting` | `Spec => []StoppedForGood`: the safety half of `StopEnds` |

Assumption: `FeederAssumption` (the two bounds are natural numbers).

**The argument.** `StopEnds` says that a feeder told to stop ends, `StoppedForGood` why it
can: once a `stop()` is over, the transmitter's flag is cleared and the transmitter is past
the line that would set it, unless the `stop()` came too early (`early`) or was broken off
(`cut`). It needs `Threads` (`start()` creates one thread after the other) and `StopsFirst`
(`stop()` begins with `_running`, whether a signal or the receiver calls it). `Connection` says what the reported
state of the channel may still hide: `READY` that the broker is up, `IDLE` that the restart of
the process is pending; with it `LostSubscriptionNoticed` is inductive.

### What is only model-checked, and why

- All liveness properties (`EveryMessageAnswered`, `EveryRequestAnswered`, `PageCatchesUp`,
  `PageShowsFile`, `TogglesFollowDocker`, `StopEnds`, `ReceiverServesAgain`,
  `SenderServesAgain`, `Quits`, `Settles`): they rest on fairness, and the prover does not do
  ENABLED. With the exception of `ZoneFollows`, every invariant and every action property of
  a passing run is a theorem.
- That `RemoveFirst` and the like leave a list injective is proved from their definition
  by the minimum of a set of indices (`ListLemmas`). The library's theorems for induction
  over data take an operator as a parameter and cannot be used, so nothing is stated that
  would need them: `InstalledApps` removes with `RemoveFirst`, of which a definition is
  visible to the prover, rather than with `SelectSeq`, of which none is.
- `ZoneFollows`: its invariant would have to speak of every prefix of the messages on their
  way.
- What a mapping and a reset that overlap leave in the files they share is not asserted, as
  the code promises nothing of it; that the next request repairs it, is (`SuccessHeals`).

## 5. Behaviour worth knowing that no run asserts

What follows is described rather than stated as a property that some run refutes; the
properties except it, by name, where it would break them.

Failures that dk-manager does not notice:

- `prototypes.json` that cannot be read counts as empty: the next deployment rewrites it with
  its own entry and answers success (`fileutils.cpp:34-44`);
- `WriteFile` returns 0 once the file is open: with the disk full, success is answered for a
  `main.py` that is empty or cut off, or for a list that was not written
  (`fileutils.cpp:57-63`), although `dk-manager/src/README.md:90` describes a prototype that
  is appended to the list;
- a mapping goes on to `true` if the channel list, the default values, a script or the list
  of supported APIs does not open or cannot be written, or if docker or a script fails. The
  comment at `message_to_kit_handler.cpp:1033`, "during the deployment of new mapping, if
  there is any error at any step, the system shall report to web client -> done", is not
  true of these stages; only the stages of `MayFail` report;
- a file, stop or start that does not reach the zone controller is not noticed by anybody; if
  the stop script is lost, the stop of the next request finds none, and its start doubles the
  feeders.

dk-manager:

- mapping and factory reset may overlap, leave files of both and start a feeder twice; the
  next request of either kind puts the feeders and all generated files in step again, the
  list of supported APIs only a reset;
- set-python-code runs `dapr stop` for the app, but apps are docker containers: it goes on
  running the old code;
- a mapping sent again after a failure counts as an update of what the overlay already
  holds, so that its API never reaches the list of supported APIs;
- an API that one mapping request deletes and creates again stays mapped but drops out of the
  list of supported APIs: it is not appended, as the list still mentions it, and is then taken out
  for the deletion;
- each handler reads the list of supported APIs and announces it on its own, so the
  server may end with the older list;
- a mapping is answered `true` without a databroker running;
- a factory reset sends `vss.json` to the zone controller before regenerating it;
- an app that is removed on the digital.auto page is stopped only if the page thinks it
  runs;
- an app started while the worker checks another is never checked, and its dialog
  keeps its busy indicator;
- a removal confirmed after a reload uses row -1 on all three pages;
- two installers that overlap may lose one of their entries, since neither locks the list;
- a page that loads while an installer has the list file truncated returns with its mutex
  held; the next load hangs the UI for good.

The installer:

- an installer killed with the list of supported APIs or an apps list truncated leaves a
  file that does not parse, and every later installation of that kind fails; killed with
  the overlay truncated, it loses the APIs of all services installed before;
- the broker is started after fixed delays and may load the `vss.json` of before;
- in the embedded mode a service is listed without any of its APIs mapped.

The UI process and the controls:

- the configured endpoint of the databroker is connected to, but the pages ask for a
  constant one: if they differ, every call prints "Client ... not found";
- a slider that is held while its own earlier values come back moves back, writes them
  again, and may go on so until it is released; the user's last choice may be lost;
- `init()` keeps the value of the read before when a read fails: a fan may be shown with
  the seat's value until its first update;
- an orderly stop is reported twice, a crash as two errors and a stop, a failed start as
  two errors; a start that takes more than five seconds is reported as failed and may
  succeed unreported; a kill that times out is reported as a stop of a child that lives;
- a subscription thread may call the page after it was destroyed.

The CAN provider:

- a `stop()` that comes between the start of the transmitter thread and its first line is
  overwritten by that line: the process then goes on until it is killed (a second signal
  should end it in any case, says the comment at `dbcfeeder.py:584`, and does not: run
  `feeder_twice`);
- a restart that is pending when a signal comes undoes the stop;
- a loss of the connection that shows as a failure, not as IDLE, leaves the transmitter
  without a subscription; so does a path that the broker refuses, or an exception in the
  callback (`dbcfeeder.py:295-300`).

## 6. Not modelled, and why

- get-log, get-app-log, get-python-code, get_support_apis, execute_cmd, downloads: they
  read or run a command and keep no state.
- factory_reset has an empty body. The orchestrator itself is not built by default; what
  the mapping sends to it is modelled.
- searching the marketplace, the layout of the pages, the configuration, the demo
  service, the installation scripts.
- the list files are assumed to exist when a page opens (dk-manager and the start
  script of the container create them): a watcher on a missing file never fires.

## 7. Plan

Done, in this order: `PrototypeStore` with its abstract specification and proofs,
`VssMapping`, `DigitalAuto` and `PrototypeSystem`, `InstalledApps`, `DbcFeeder`,
`InstallService`, `Controls` and `IviMain`; then the proofs about `VssMapping`,
`InstallService` and `IviMain`; then those about `PrototypeSystem`, `InstalledApps` and
`DbcFeeder`, the rest of `PrototypeStore`'s and the list of supported APIs.

Next, theorems: an abstract page (it shows the list of a moment at which it read the file, and
nothing else) that `InstalledApps` and `DigitalAuto` implement step by step; an abstract
mapping service (a success maps what was asked for, unless it is flawed) that `VssMapping`
implements; `ZoneFollows`, from an invariant over the messages on their way.

Next, models: the connection flags of dk-manager; a composition of `VssMapping` with
`InstallService` over one overlay.
