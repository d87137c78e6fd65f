---------------------------- MODULE InstallService ----------------------------
(***************************************************************************)
(* The installer of vehicle apps and services (dk_appinstallservice):      *)
(* main.py takes one app through a pipeline of stages, each of which may   *)
(* fail and end it, and registers the app in the list of installed apps at *)
(* the end.  README.md starts it with `docker stop; docker rm; docker run` *)
(* of one container: a new installation kills the one that still runs, at  *)
(* any point, also between the truncation of a file and its writing.       *)
(*                                                                         *)
(* A file is the set of things in it.  The overlay and the CAN defaults    *)
(* read as empty while truncated (yaml.safe_load and the size test), the   *)
(* two JSON lists do not parse.                                            *)
(***************************************************************************)
EXTENDS Naturals, FiniteSets

CONSTANTS Apps,
          Apis,        \* VSS APIs
          KindOf,      \* [Apps -> Kinds]: the category
          ApisOf,      \* [Apps -> SUBSET Apis]: the SignalList
          WithDbc,     \* apps whose package has a dbc file for their signals
          Garbled,     \* a JSON file that was truncated and not written
          Down,        \* the databroker does not run
          MaxInstalls  \* bound: installations started

Kinds == {"vehicle", "vehicle-service"}

ASSUME InstallAssumption ==
  /\ KindOf \in [Apps -> Kinds] /\ ApisOf \in [Apps -> SUBSET Apis]
  /\ WithDbc \subseteq Apps
  /\ \A S \in SUBSET Apps : S # Garbled
  /\ \A S \in SUBSET Apis : S # Garbled
  /\ \A S \in SUBSET Apis : S # Down
  /\ MaxInstalls \in Nat

VARIABLES
  embedded,   \* DK_EMBEDDED_MODE or DK_MOCK_MODE: no docker, no VSS mapping
  pc, app,    \* the stage of the installation and the app it installs
  todo,       \* signals of its SignalList still to be mapped
  signal,     \* the one being mapped, as a set
  known,      \* supported_vss_api, the list in memory
  text,       \* what the file that is open held before
  pulled,     \* apps whose image is there
  configured, \* apps whose runtimecfg.json is there
  unpacked,   \* apps whose package was unpacked
  overlay,    \* vssmapping_overlay.vspec
  defaults,   \* dbc_default_values.json, by the API whose signal it is
  supported,  \* supportedvssapi.json
  listed,     \* installedapps.json and installedservices.json, by kind
  vss,        \* vss.json
  generating, \* vssgen runs
  served,     \* the APIs the databroker loaded
  result,     \* how the last installation ended
  installs,   \* installations started
  torn,       \* history: files a kill left truncated
  hasty       \* history: the databroker was started before vssgen was done

memory == <<app, todo, signal, known, text>>
files  == <<pulled, configured, unpacked, overlay, defaults, supported, listed>>
mapping == <<overlay, defaults, supported>>
broker == <<vss, generating, served, hasty>>
vars   == <<embedded, pc, memory, files, broker, result, installs, torn>>

\* The stages, in order; at the second of two a file is open, and truncated.
Stages == {"pull", "config", "configOpen", "download", "supported", "signal",
           "overlayOpen", "default", "defaultsOpen", "save", "supportedOpen",
           "vssgen", "stopBroker", "startBroker", "restart", "register", "listOpen"}
Open   == {"configOpen", "overlayOpen", "defaultsOpen", "supportedOpen", "listOpen"}

TypeOK ==
  /\ embedded \in BOOLEAN
  /\ pc \in Stages \cup {"idle"} /\ app \in Apps
  /\ todo \cup signal \subseteq ApisOf[app] /\ known \subseteq Apis
  /\ text \subseteq Apis \cup Apps
  /\ {pulled, configured, unpacked} \subseteq SUBSET Apps
  /\ {overlay, defaults, vss} \subseteq SUBSET Apis
  /\ supported = Garbled \/ supported \subseteq Apis
  /\ DOMAIN listed = Kinds
  /\ \A k \in Kinds : listed[k] = Garbled \/ listed[k] \subseteq Apps
  /\ served = Down \/ served \subseteq Apis
  /\ generating \in BOOLEAN /\ hasty \in BOOLEAN
  /\ result \in {"none", "success", "failed"}
  /\ installs \in 0..MaxInstalls /\ torn \subseteq Open

Init ==
  /\ embedded \in BOOLEAN
  /\ pc = "idle" /\ app \in Apps /\ todo = {} /\ signal = {}
  /\ known = {} /\ text = {}
  /\ pulled = {} /\ configured = {} /\ unpacked = {}
  /\ overlay = {} /\ defaults = {} /\ supported = {}
  /\ listed = [k \in Kinds |-> {}]
  /\ vss = {} /\ generating = FALSE /\ served = {} /\ hasty = FALSE
  /\ result = "none" /\ installs = 0 /\ torn = {}

kind == KindOf[app]

Goto(stage) == pc' = stage /\ UNCHANGED <<result, installs, torn, embedded>>

\* A return from main() after a failure; the process exits with 0 all the same.
Fail ==
  /\ pc' = "idle" /\ result' = "failed"
  /\ UNCHANGED <<embedded, memory, files, broker, installs, torn>>

-----------------------------------------------------------------------------
\* Mutant: the signals an earlier installation has not mapped are kept.
FaultBegin(a) ==
  /\ pc = "idle" /\ installs < MaxInstalls
  /\ pc' = "pull" /\ app' = a /\ result' = "none"
  /\ todo' = todo \cup ApisOf[a] /\ signal' = {} /\ known' = {} /\ text' = {}
  /\ installs' = installs + 1
  /\ UNCHANGED <<embedded, files, broker, torn>>

\* A container is started for app a.
Begin(a) ==
  /\ pc = "idle" /\ installs < MaxInstalls
  /\ pc' = "pull" /\ app' = a /\ result' = "none"
  /\ todo' = ApisOf[a] /\ signal' = {} /\ known' = {} /\ text' = {}
  /\ installs' = installs + 1
  /\ UNCHANGED <<embedded, files, broker, torn>>

\* The container is stopped and removed; what it had open stays truncated.
Kill ==
  /\ pc # "idle"
  /\ pc' = "idle" /\ result' = "failed"
  /\ torn' = torn \cup ({pc} \cap Open)
  /\ UNCHANGED <<embedded, memory, files, broker, installs>>

\* docker pull, or in embedded mode a status file.
Pull ==
  /\ pc = "pull"
  /\ pulled' = pulled \cup {app}
  /\ Goto("config")
  /\ UNCHANGED <<memory, configured, unpacked, mapping, listed, broker>>

OpenConfig ==
  /\ pc = "config"
  /\ configured' = configured \ {app}
  /\ Goto("configOpen")
  /\ UNCHANGED <<memory, pulled, unpacked, mapping, listed, broker>>

\* An app is registered next, a service has its package and its API first.
SaveConfig ==
  /\ pc = "configOpen"
  /\ configured' = configured \cup {app}
  /\ Goto(IF kind = "vehicle" THEN "register" ELSE "download")
  /\ UNCHANGED <<memory, pulled, unpacked, mapping, listed, broker>>

\* A package that is no zip archive is reported, and the installation goes on.
Download ==
  /\ pc = "download"
  /\ unpacked' \in {unpacked, unpacked \cup {app}}
  /\ Goto(IF embedded THEN "register" ELSE "supported")
  /\ UNCHANGED <<memory, pulled, configured, mapping, listed, broker>>

-----------------------------------------------------------------------------
(* The VSS mapping of a service.                                           *)

\* Mutant: the list is saved before the overlay has the APIs.
FaultLoadSupported ==
  /\ pc = "supported" /\ supported # Garbled
  /\ known' = supported \cup todo /\ supported' = supported \cup todo
  /\ Goto(IF todo = {} THEN "vssgen" ELSE "signal")
  /\ UNCHANGED <<app, todo, signal, text, pulled, configured, unpacked, overlay, defaults,
                 listed, broker>>

\* A list that does not parse raises, and nothing catches it.
LoadSupported ==
  /\ pc = "supported" /\ supported # Garbled
  /\ known' = supported
  /\ Goto(IF todo = {} THEN "vssgen" ELSE "signal")
  /\ UNCHANGED <<app, todo, signal, text, files, broker>>

\* Mutant: the overlay is not loaded before it is written.
FaultOpenOverlay ==
  /\ pc = "signal"
  /\ \E api \in todo :
       /\ signal' = {api} /\ todo' = todo \ {api}
       /\ known' = known \cup {api}
  /\ text' = {}
  /\ overlay' = {}
  /\ Goto("overlayOpen")
  /\ UNCHANGED <<app, pulled, configured, unpacked, defaults, supported, listed, broker>>

\* modify_vss_entry reads the overlay, adds the API in memory and opens the file.
OpenOverlay ==
  /\ pc = "signal"
  /\ \E api \in todo :
       /\ signal' = {api} /\ todo' = todo \ {api}
       /\ known' = known \cup {api}
  /\ text' = overlay
  /\ overlay' = {}
  /\ Goto("overlayOpen")
  /\ UNCHANGED <<app, pulled, configured, unpacked, defaults, supported, listed, broker>>

\* Where the loop over the signals goes next.
NextSignal == IF todo = {} THEN "save" ELSE "signal"

SaveOverlay ==
  /\ pc = "overlayOpen"
  /\ overlay' = text \cup signal
  /\ Goto(IF app \in WithDbc \cap unpacked THEN "default" ELSE NextSignal)
  /\ UNCHANGED <<memory, pulled, configured, unpacked, defaults, supported, listed, broker>>

\* updateDbcDefaultValue.py, run for the API just added to the overlay.
OpenDefaults ==
  /\ pc = "default"
  /\ text' = defaults
  /\ defaults' = {}
  /\ Goto("defaultsOpen")
  /\ UNCHANGED <<app, todo, signal, known, pulled, configured, unpacked, overlay, supported,
                 listed, broker>>

SaveDefaults ==
  /\ pc = "defaultsOpen"
  /\ defaults' = text \cup signal
  /\ Goto(NextSignal)
  /\ UNCHANGED <<memory, pulled, configured, unpacked, overlay, supported, listed, broker>>

OpenSupported ==
  /\ pc = "save"
  /\ supported' = Garbled
  /\ Goto("supportedOpen")
  /\ UNCHANGED <<memory, pulled, configured, unpacked, overlay, defaults, listed, broker>>

SaveSupported ==
  /\ pc = "supportedOpen"
  /\ supported' = known
  /\ Goto("vssgen")
  /\ UNCHANGED <<memory, pulled, configured, unpacked, overlay, defaults, listed, broker>>

-----------------------------------------------------------------------------
(* The containers, which load what the mapping wrote.                      *)

RestartVssgen ==
  /\ pc = "vssgen"
  /\ generating' = TRUE
  /\ Goto("stopBroker")
  /\ UNCHANGED <<memory, files, vss, served, hasty>>

\* The vssgen container writes vss.json from the overlay, in its own time.
Generate ==
  /\ generating
  /\ generating' = FALSE /\ vss' = overlay
  /\ UNCHANGED <<embedded, pc, memory, files, served, hasty, result, installs, torn>>

\* Mutant: the broker is started without having been stopped.
FaultStopBroker ==
  /\ pc = "stopBroker"
  /\ Goto("startBroker")
  /\ UNCHANGED <<memory, files, broker>>

StopBroker ==
  /\ pc = "stopBroker"
  /\ served' = Down
  /\ Goto("startBroker")
  /\ UNCHANGED <<memory, files, vss, generating, hasty>>

\* `docker start` does nothing to a container that runs.
StartBroker ==
  /\ pc = "startBroker"
  /\ served' = IF served = Down THEN vss ELSE served
  /\ hasty' = generating
  /\ Goto("restart")
  /\ UNCHANGED <<memory, files, vss, generating>>

\* dk_manager and dk_ivi are restarted; they keep nothing modelled here.
RestartUi ==
  /\ pc = "restart"
  /\ Goto("register")
  /\ UNCHANGED <<memory, files, broker>>

-----------------------------------------------------------------------------
(* updateappmgrfile.py add.                                                *)

OpenList ==
  /\ pc = "register" /\ listed[kind] # Garbled
  /\ text' = listed[kind]
  /\ listed' = [listed EXCEPT ![kind] = Garbled]
  /\ Goto("listOpen")
  /\ UNCHANGED <<app, todo, signal, known, pulled, configured, unpacked, mapping, broker>>

SaveList ==
  /\ pc = "listOpen"
  /\ listed' = [listed EXCEPT ![kind] = text \cup {app}]
  /\ pc' = "idle" /\ result' = "success"
  /\ UNCHANGED <<embedded, memory, pulled, configured, unpacked, mapping, broker,
       installs, torn>>

\* A command or a request that fails, or a list that does not parse.
MayFail ==
  \/ pc \in {"pull", "download", "default", "vssgen", "stopBroker", "startBroker",
       "restart",
             "register"}
  \/ pc = "supported" /\ supported = Garbled

GiveUp == MayFail /\ Fail

Next ==
  \/ \E a \in Apps : Begin(a)
  \/ Kill \/ GiveUp
  \/ Pull \/ OpenConfig \/ SaveConfig \/ Download
  \/ LoadSupported \/ OpenOverlay \/ SaveOverlay \/ OpenDefaults \/ SaveDefaults
  \/ OpenSupported \/ SaveSupported
  \/ RestartVssgen \/ Generate \/ StopBroker \/ StartBroker \/ RestartUi
  \/ OpenList \/ SaveList

Spec == Init /\ [][Next]_vars

-----------------------------------------------------------------------------
\* Service a has all its APIs in the overlay and the list of supported APIs.
Mapped(a)    == ApisOf[a] \subseteq overlay
Supported(a) == supported # Garbled /\ ApisOf[a] \subseteq supported

(* An installation that ends with a success has done all of its work,      *)
(* whatever killed or failed installations left behind: the image and the  *)
(* runtime configuration are there and the app is listed; the APIs of a    *)
(* service are mapped, supported, and, unless the broker was started       *)
(* before vssgen was done, served (main.py to its last line).              *)
SuccessMeansInstalled ==
  (pc = "idle" /\ result = "success") =>
    /\ app \in pulled \cap configured
    /\ listed[kind] # Garbled /\ app \in listed[kind]
    /\ (kind = "vehicle-service" /\ ~embedded) =>
         /\ Mapped(app) /\ Supported(app)
         /\ app \in WithDbc \cap unpacked => ApisOf[app] \subseteq defaults
         /\ served # Down
         /\ hasty \/ ApisOf[app] \subseteq served

(* Once a service is listed, later installations, failed or killed ones    *)
(* too, keep what it needs: a file it depends on loses something only when *)
(* an installation is killed while it has that very file open.             *)
ListedStaysReady ==
  LET Kept(file) == file \notin torn /\ pc # file
  IN \A k \in Kinds : listed[k] # Garbled =>
       \A a \in listed[k] :
         /\ a \in pulled
         /\ Kept("configOpen") => a \in configured
         /\ (k = "vehicle-service" /\ ~embedded) =>
              /\ Kept("overlayOpen") => Mapped(a)
              /\ Kept("supportedOpen") => Supported(a)

(* The list of supported APIs, which clients are told, never names an API  *)
(* that the overlay lacks, wherever an installation stopped, unless it was *)
(* the overlay that was torn (the list is saved after the loop).           *)
SupportedIsMapped ==
  (supported # Garbled /\ pc # "overlayOpen" /\ "overlayOpen" \notin torn) =>
    supported \subseteq overlay
=============================================================================
