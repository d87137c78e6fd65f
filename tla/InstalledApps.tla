--------------------------- MODULE InstalledApps ---------------------------
(***************************************************************************)
(* The two pages of the in-vehicle UI that list what was installed from    *)
(* the marketplace: vehicle services and vehicle apps (page).  Each reads  *)
(* a list file that it shares with the installers: the marketplace's, run  *)
(* by the GUI thread, which waits for it, and the one of                   *)
(* dk_appinstallservice, run from outside.  There is no lock on the file.  *)
(*                                                                         *)
(* All handlers of a page run on the GUI thread, one after the other       *)
(* (gui).  Loading the list holds a mutex of the page, and keeps it if the *)
(* file cannot be parsed.  A worker thread checks apps that were started.  *)
(* What runs is polled every few seconds: by a timer of the GUI thread for *)
(* apps, for services by one more thread, which reads the list in memory   *)
(* without the mutex (embedded mode, which stops that thread, and the      *)
(* second computer, "vip", are left out).                                  *)
(*                                                                         *)
(* isSubscribed is never read but where it is FALSE, the busy indicator    *)
(* and the messages of the dialogs are layout: none of them is kept here.  *)
(***************************************************************************)
EXTENDS Naturals, Sequences, SequencesExt

CONSTANTS
    Ids,          \* app ids
    Pages,        \* the pages of this instance
    Preinstalled, \* what the list file holds at the start
    WithImage,    \* the apps whose docker image the page finds
    MaxClicks, MaxInstalls, MaxRestarts, \* bounds on the environment
    None,
    Broken         \* a file that is truncated or holds two writers' text

AllPages == {"services", "vapps"}

ASSUME PagesAssumption == Pages \subseteq AllPages
ASSUME PreinstalledAssumption ==
    /\ Preinstalled \in Seq(Ids) /\ IsInjective(Preinstalled)
    /\ WithImage \subseteq Ids
ASSUME BoundsAssumption == {MaxClicks, MaxInstalls, MaxRestarts} \subseteq Nat

VARIABLES
    page,
    file,    \* installedservices.json or installedapps.json
    running, \* the image that the container named i runs, or None
    held,    \* installedServicesMutex, dk_installedappsMutex
    view,    \* appListModel: the rows, [id, checked]
    info,    \* installedServicesList, installedVappsList: ids
    current, \* currentIndex of the list view, 0 if none (-1 in the code)
    dialog,  \* the modal dialog that is open and the app it names
    gui,     \* what the GUI thread is in the middle of, and for which app
    read,    \* the list that the GUI thread has read
    changed, \* a fileChanged signal is queued
    trigger, worker, results, \* as on the digital.auto page
    scan,    \* what docker ps told the status thread, or None
    sts,     \* updateServicesRunningSts signals queued for the GUI thread
    kills,   \* docker kill commands sent to the background
    outside, \* the installer outside: what it is doing, the list it holds
    clicks, installs, restarts

guiVars == <<view, info, current, dialog, gui, read, held>>
threadVars == <<trigger, worker, results, scan, sts>>
boundVars == <<clicks, installs, restarts>>
vars == <<page, file, running, guiVars, changed, threadVars, kills, outside,
          boundVars>>

IdsOf(rows) == [n \in DOMAIN rows |-> rows[n].id]
Rows(ids) == [n \in DOMAIN ids |-> [id |-> ids[n], checked |-> FALSE]]
Show(id, on) ==
    [n \in DOMAIN view |-> IF view[n].id = id THEN [view[n] EXCEPT !.checked = on]
                                              ELSE view[n]]
DockerPs == {i \in Ids : running[i] # None}
(* Faults: the id is not set; the id is not looked up.                     *)
WithAppNoId(list, i) == Append(list, None)
WithAppAgain(list, i) == Append(list, i)

(* An installer replaces the entry of a known id or leaves it there.       *)
WithApp(list, i) == IF i \in Range(list) THEN list ELSE Append(list, i)

NoDialog == [kind |-> "none", app |-> None]
At(stage, i, n) == [at |-> stage, app |-> i, row |-> n]
Idle == At("idle", None, 0)
Free == gui = Idle
Alive == gui.at # "crashed"
Click == Free /\ dialog = NoDialog /\ clicks < MaxClicks /\ clicks' = clicks + 1

(* The new content of a file that was opened for writing: what is written, *)
(* unless another program wrote to it since it was truncated.              *)
Written(list) == {list} \cup (IF file = Broken THEN {} ELSE {Broken})

(* Containers of an earlier session may still run when the page opens.     *)
Init ==
    /\ page \in Pages
    /\ file = Preinstalled
    /\ \E left \in SUBSET (Range(Preinstalled) \cap WithImage) :
          running = [i \in Ids |-> IF i \in left THEN i ELSE None]
    /\ held = FALSE /\ view = <<>> /\ info = <<>> /\ current = 0
    /\ dialog = NoDialog /\ gui = At("load", None, 0) /\ read = <<>>
    /\ changed = FALSE
    /\ trigger = None /\ worker = "waiting" /\ results = <<>>
    /\ scan = None /\ sts = <<>> /\ kills = {}
    /\ outside = [at |-> "idle", read |-> <<>>]
    /\ clicks = 0 /\ installs = 0 /\ restarts = 0
-----------------------------------------------------------------------------
(* Fault: only an empty page is loaded again.                              *)
FileChangedWhenEmpty ==
    /\ Free /\ changed
    /\ changed' = FALSE
    /\ gui' = IF view = <<>> THEN At("load", None, 0) ELSE gui
    /\ UNCHANGED <<page, file, running, view, info, current, dialog, read, held,
                   threadVars, kills, outside, boundVars>>

(* fileChanged sleeps for a second, then loads.                            *)
FileChanged ==
    /\ Free /\ changed
    /\ changed' = FALSE
    /\ gui' = At("load", None, 0)
    /\ UNCHANGED <<page, file, running, view, info, current, dialog, read, held,
                   threadVars, kills, outside, boundVars>>

(* initInstalledServicesFromDB: lock (the GUI thread never comes back if   *)
(* the mutex was kept), clear, read; a file that does not parse ends it    *)
(* there, without unlock.                                                  *)
Load ==
    /\ gui.at = "load"
    /\ IF held
         THEN /\ gui' = At("hung", None, 0)
              /\ UNCHANGED <<view, info, current, read, held>>
         ELSE /\ held' = TRUE /\ view' = <<>> /\ info' = <<>>
              /\ IF file = Broken
                   THEN gui' = Idle /\ current' = 0 /\ UNCHANGED read
                   ELSE gui' = At("fill", None, 0) /\ read' = file /\ UNCHANGED current
    /\ UNCHANGED <<page, file, running, dialog, changed, threadVars, kills, outside,
                   boundVars>>

(* Fault: the mutex is kept after a load that went well, too.              *)
FillKeepsMutex ==
    /\ gui.at = "fill"
    /\ info' = info \o read /\ view' = view \o Rows(read)
    /\ current' = 0
    /\ gui' = Idle /\ read' = <<>>
    /\ UNCHANGED <<page, file, running, dialog, held, changed, threadVars, kills,
                   outside, boundVars>>

(* Then the rows are appended, to the list and to the view, and the mutex  *)
(* is released.                                                            *)
Fill ==
    /\ gui.at = "fill"
    /\ info' = info \o read /\ view' = view \o Rows(read)
    /\ current' \in {0} \cup (IF current # 0 /\ read # <<>> THEN {1} ELSE {})
    /\ held' = FALSE /\ gui' = Idle /\ read' = <<>>
    /\ UNCHANGED <<page, file, running, dialog, changed, threadVars, kills, outside,
                   boundVars>>
-----------------------------------------------------------------------------
(* Fault: the row handed over is one too small.                            *)
ClickToggleOffByOne(n) ==
    /\ Click
    /\ current' = n
    /\ view' = [view EXCEPT ![n].checked = ~@]
    /\ IF view[n].checked
         THEN dialog' = [kind |-> "stop", app |-> view[n].id] /\ UNCHANGED gui
         ELSE /\ dialog' = [kind |-> "start", app |-> view[n].id]
              /\ gui' = At(IF page = "vapps" THEN "look" ELSE "launch", view[n].id, n - 1)
    /\ UNCHANGED <<page, file, running, info, read, held, changed, threadVars, kills,
                   outside, installs, restarts>>

(* A click on a toggle flips it and starts the app, or asks to stop it.    *)
ClickToggle(n) ==
    /\ Click
    /\ current' = n
    /\ view' = [view EXCEPT ![n].checked = ~@]
    /\ IF view[n].checked
         THEN dialog' = [kind |-> "stop", app |-> view[n].id] /\ UNCHANGED gui
         ELSE /\ dialog' = [kind |-> "start", app |-> view[n].id]
              /\ gui' = At(IF page = "vapps" THEN "look" ELSE "launch", view[n].id, n)
    /\ UNCHANGED <<page, file, running, info, read, held, changed, threadVars, kills,
                   outside, installs, restarts>>

(* Apps only: nothing to do for an app that docker ps shows.               *)
LookAtDocker ==
    /\ gui.at = "look"
    /\ gui' = IF gui.app \in DockerPs THEN Idle ELSE [gui EXCEPT !.at = "launch"]
    /\ UNCHANGED <<page, file, running, view, info, current, dialog, read, held,
                   changed, threadVars, kills, outside, boundVars>>

(* docker kill, rm, run of the image found at the row, which may fail; a   *)
(* service without an image is not even tried.                             *)
Launch ==
    /\ gui.at = "launch"
    /\ gui' = IF gui.row \in DOMAIN info THEN Idle ELSE At("crashed", None, 0)
    /\ IF \/ gui.row \notin DOMAIN info
          \/ page = "services" /\ info[gui.row] \notin WithImage
         THEN UNCHANGED <<running, trigger>>
         ELSE /\ \E image \in {None} \cup ({info[gui.row]} \cap WithImage) :
                    running' = [running EXCEPT ![gui.app] = image]
              /\ trigger' = gui.app
    /\ UNCHANGED <<page, file, view, info, current, dialog, read, held, changed,
                   worker, results, scan, sts, kills, outside, boundVars>>

AcceptStart ==
    /\ Free /\ dialog.kind = "start"
    /\ dialog' = NoDialog
    /\ UNCHANGED <<page, file, running, view, info, current, gui, read, held, changed,
                   threadVars, kills, outside, boundVars>>

(* executeServices(false) sends docker kill to the background; for a       *)
(* service it looks at the row first, and there may be none any more.      *)
AnswerStop(confirmed) ==
    /\ Free /\ dialog.kind = "stop"
    /\ dialog' = NoDialog /\ current' = 0
    /\ IF confirmed /\ page = "services" /\ current \notin DOMAIN info
         THEN gui' = At("crashed", None, 0) /\ UNCHANGED kills
         ELSE /\ kills' = IF confirmed THEN kills \cup {dialog.app} ELSE kills
              /\ UNCHANGED gui
    /\ UNCHANGED <<page, file, running, view, info, read, held, changed, threadVars,
                   outside, boundVars>>

ClickRemove(n) ==
    /\ Click
    /\ current' = n
    /\ dialog' = [kind |-> "remove", app |-> view[n].id]
    /\ UNCHANGED <<page, file, running, view, info, gui, read, held, changed,
                   threadVars, kills, outside, installs, restarts>>

RejectRemove ==
    /\ Free /\ dialog.kind = "remove"
    /\ dialog' = NoDialog /\ current' = 0
    /\ UNCHANGED <<page, file, running, view, info, gui, read, held, changed,
                   threadVars, kills, outside, boundVars>>

(* removeServices(currentIndex): the app at that row (undefined without    *)
(* one: taken as a crash) is taken out of the file, the first entry with   *)
(* its id; nothing is written if the file does not parse ...               *)
AcceptRemove ==
    /\ Free /\ dialog.kind = "remove"
    /\ dialog' = NoDialog /\ current' = 0
    /\ IF current \in DOMAIN info
         THEN LET i == info[current] IN
              /\ gui' = At(IF file = Broken THEN "stop" ELSE "truncate", i, 0)
              /\ read' = IF file = Broken THEN <<>> ELSE RemoveFirst(file, i)
         ELSE gui' = At("crashed", None, 0) /\ UNCHANGED read
    /\ UNCHANGED <<page, file, running, view, info, held, changed, threadVars, kills,
                   outside, boundVars>>

(* ... opened (or not) and written ...                                     *)
TruncateList ==
    /\ gui.at = "truncate"
    /\ \/ /\ file' = Broken /\ changed' = TRUE
          /\ gui' = [gui EXCEPT !.at = "write"]
          /\ UNCHANGED read
       \/ /\ gui' = [gui EXCEPT !.at = "stop"] /\ read' = <<>>
          /\ UNCHANGED <<file, changed>>
    /\ UNCHANGED <<page, running, view, info, current, dialog, held, threadVars,
                   kills, outside, boundVars>>

WriteList ==
    /\ gui.at = "write"
    /\ file' \in Written(read) /\ changed' = TRUE
    /\ gui' = [gui EXCEPT !.at = "stop"] /\ read' = <<>>
    /\ UNCHANGED <<page, running, view, info, current, dialog, held, threadVars,
                   kills, outside, boundVars>>

(* ... and docker kill; docker rm stop it.  The rows stay until the next   *)
(* load.                                                                   *)
StopRemoved ==
    /\ gui.at = "stop"
    /\ running' = [running EXCEPT ![gui.app] = None]
    /\ gui' = Idle
    /\ UNCHANGED <<page, file, view, info, current, dialog, read, held, changed,
                   threadVars, kills, outside, boundVars>>
-----------------------------------------------------------------------------
(* installApp of the marketplace waits for main_simple.py, which starts    *)
(* from an empty list if the file does not parse ...                       *)
Install(i) ==
    /\ Free /\ dialog = NoDialog /\ installs < MaxInstalls
    /\ installs' = installs + 1
    /\ gui' = At("openInstall", i, 0)
    /\ read' = WithApp(IF file = Broken THEN <<>> ELSE file, i)
    /\ UNCHANGED <<page, file, running, view, info, current, dialog, held, changed,
                   threadVars, kills, outside, clicks, restarts>>

(* ... and exits with 1 if it cannot write.                                *)
OpenInstall ==
    /\ gui.at = "openInstall"
    /\ \/ /\ file' = Broken /\ changed' = TRUE
          /\ gui' = [gui EXCEPT !.at = "saveInstall"]
          /\ UNCHANGED read
       \/ gui' = Idle /\ read' = <<>> /\ UNCHANGED <<file, changed>>
    /\ UNCHANGED <<page, running, view, info, current, dialog, held, threadVars,
                   kills, outside, boundVars>>

SaveInstall ==
    /\ gui.at = "saveInstall"
    /\ file' \in Written(read) /\ changed' = TRUE
    /\ gui' = Idle /\ read' = <<>>
    /\ UNCHANGED <<page, running, view, info, current, dialog, held, threadVars,
                   kills, outside, boundVars>>

(* updateappmgrfile.py, the last step of an installation from outside (one *)
(* of them: a bound), gives up on a list it cannot parse.                  *)
OutsideLoads(i) ==
    /\ outside.at = "idle"
    /\ file # Broken
    /\ outside' = [at |-> "open", read |-> WithApp(file, i)]
    /\ UNCHANGED <<page, file, running, guiVars, changed, threadVars, kills,
                   boundVars>>

OutsideOpens ==
    /\ outside.at = "open"
    /\ outside' = [outside EXCEPT !.at = "save"]
    /\ file' = Broken /\ changed' = TRUE
    /\ UNCHANGED <<page, running, guiVars, threadVars, kills, boundVars>>

OutsideSaves ==
    /\ outside.at = "save"
    /\ outside' = [at |-> "done", read |-> <<>>]
    /\ file' \in Written(outside.read) /\ changed' = TRUE
    /\ UNCHANGED <<page, running, guiVars, threadVars, kills, boundVars>>
-----------------------------------------------------------------------------
(* CheckAppRunningThread: docker ps.  (A bound: it is asked again only     *)
(* when all earlier signals are handled.)                                  *)
ScanDocker ==
    /\ page = "services" /\ Alive /\ scan = None /\ sts = <<>>
    /\ scan' = DockerPs
    /\ UNCHANGED <<page, file, running, guiVars, changed, trigger, worker, results,
                   sts, kills, outside, boundVars>>

(* Fault: only what runs is reported.                                      *)
ScanRowsRunning ==
    /\ scan # None /\ Alive
    /\ scan' = None
    /\ sts' = IF gui.at \in {"load", "fill"} THEN <<>>
              ELSE SelectSeq(
                      [n \in DOMAIN info |-> [id |-> info[n], on |-> TRUE, row |-> n]],
                      LAMBDA r : r.id \in scan)
    /\ UNCHANGED <<page, file, running, view, info, current, dialog, gui, read, held,
                   changed, trigger, worker, results, kills, outside, boundVars>>

(* Half a second later one signal for each row.  While the GUI thread      *)
(* changes the list this is a data race: the program may crash, or the     *)
(* thread sees some of the rows.                                           *)
ScanRows ==
    /\ scan # None /\ Alive
    /\ scan' = None
    /\ \/ /\ \E seen \in IF gui.at = "fill" THEN {SubSeq(read, 1, n) : n \in 0..Len(read)}
                                            ELSE {info} :
                sts' = [n \in DOMAIN seen |->
                           [id |-> seen[n], on |-> seen[n] \in scan, row |-> n]]
          /\ UNCHANGED gui
       \/ /\ gui.at = "fill" \/ (gui.at = "load" /\ info # <<>>)
          /\ gui' = At("crashed", None, 0)
          /\ UNCHANGED sts
    /\ UNCHANGED <<page, file, running, view, info, current, dialog, read, held,
                   changed, trigger, worker, results, kills, outside,
                   boundVars>>

(* onUpdateServicesRunningSts: only a row that still shows that app.       *)
ShowStatus ==
    /\ Free /\ sts # <<>>
    /\ LET s == Head(sts) IN
       view' = IF s.row \in DOMAIN view /\ view[s.row].id = s.id
                 THEN [view EXCEPT ![s.row].checked = s.on] ELSE view
    /\ sts' = Tail(sts)
    /\ UNCHANGED <<page, file, running, info, current, dialog, gui, read, held,
                   changed, trigger, worker, results, scan, kills, outside,
                   boundVars>>

(* checkRunningAppSts, the timer of the page of apps.                      *)
CheckRunning ==
    /\ page = "vapps" /\ Free
    /\ view' = [n \in DOMAIN view |->
          [view[n] EXCEPT !.checked = n \in DOMAIN info /\ info[n] \in DockerPs]]
    /\ UNCHANGED <<page, file, running, info, current, dialog, gui, read, held,
                   changed, threadVars, kills, outside, boundVars>>

(* The worker polls the trigger, waits, asks docker ps for the app that is *)
(* then in m_appId, sends the result and clears the trigger.               *)
WorkerWakes ==
    /\ Alive /\ worker = "waiting" /\ trigger # None
    /\ worker' = "sleeping"
    /\ UNCHANGED <<page, file, running, guiVars, changed, trigger, results, scan,
                   sts, kills, outside, boundVars>>

WorkerChecks ==
    /\ Alive /\ worker = "sleeping"
    /\ results' = Append(results, [id |-> trigger, started |-> trigger \in DockerPs])
    /\ worker' = "clearing"
    /\ UNCHANGED <<page, file, running, guiVars, changed, trigger, scan, sts, kills,
                   outside, boundVars>>

WorkerClears ==
    /\ Alive /\ worker = "clearing"
    /\ trigger' = None /\ worker' = "waiting"
    /\ UNCHANGED <<page, file, running, guiVars, changed, results, scan, sts, kills,
                   outside, boundVars>>

(* handleResults: a service that did not start is shown switched off.      *)
HandleResult ==
    /\ Free /\ results # <<>>
    /\ results' = Tail(results)
    /\ current' = 0
    /\ LET r == Head(results) IN
       view' = IF page = "services" /\ ~r.started /\ r.id \in Range(info)
                 THEN Show(r.id, FALSE) ELSE view
    /\ UNCHANGED <<page, file, running, info, dialog, gui, read, held, changed,
                   trigger, worker, scan, sts, kills, outside, boundVars>>
-----------------------------------------------------------------------------
(* The background docker kill takes effect; a container ends by itself.    *)
Killed(i) ==
    /\ i \in kills
    /\ kills' = kills \ {i} /\ running' = [running EXCEPT ![i] = None]
    /\ UNCHANGED <<page, file, guiVars, changed, threadVars, outside, boundVars>>

Exits(i) ==
    /\ running[i] # None
    /\ running' = [running EXCEPT ![i] = None]
    /\ UNCHANGED <<page, file, guiVars, changed, threadVars, kills, outside,
                   boundVars>>

(* The UI is killed at any point (an installation from outside ends with   *)
(* docker kill dk_ivi, or the power fails) and starts again.               *)
Restart ==
    /\ restarts < MaxRestarts
    /\ restarts' = restarts + 1
    /\ held' = FALSE /\ view' = <<>> /\ info' = <<>> /\ current' = 0
    /\ dialog' = NoDialog /\ gui' = At("load", None, 0) /\ read' = <<>>
    /\ changed' = FALSE
    /\ trigger' = None /\ worker' = "waiting" /\ results' = <<>>
    /\ scan' = None /\ sts' = <<>>
    /\ UNCHANGED <<page, file, running, kills, outside, clicks, installs>>

User ==
    \/ \E n \in DOMAIN view : ClickToggle(n) \/ ClickRemove(n)
    \/ AcceptStart \/ RejectRemove \/ AcceptRemove
    \/ \E confirmed \in BOOLEAN : AnswerStop(confirmed)
    \/ \E i \in Ids : Install(i)

(* What the GUI thread is in the middle of.                                *)
GuiWork == Load \/ Fill \/ LookAtDocker \/ Launch \/ TruncateList \/ WriteList
              \/ StopRemoved \/ OpenInstall \/ SaveInstall
WorkerStep == WorkerWakes \/ WorkerChecks \/ WorkerClears
OutsideStep == OutsideOpens \/ OutsideSaves

Next ==
    \/ User \/ GuiWork \/ FileChanged \/ ShowStatus \/ CheckRunning \/ HandleResult
    \/ WorkerStep \/ ScanDocker \/ ScanRows
    \/ \E i \in Ids : OutsideLoads(i) \/ Killed(i) \/ Exits(i)
    \/ OutsideStep \/ Restart

Spec == Init /\ [][Next]_vars

(* The event loop comes back to each of its sources, the threads and the   *)
(* programs run on; the user, docker and the power supply owe nothing.     *)
Fairness ==
    /\ WF_vars(GuiWork) /\ WF_vars(FileChanged) /\ WF_vars(ShowStatus)
    /\ WF_vars(CheckRunning) /\ WF_vars(HandleResult)
    /\ WF_vars(WorkerStep) /\ WF_vars(ScanDocker) /\ WF_vars(ScanRows)
    /\ WF_vars(OutsideStep) /\ \A i \in Ids : WF_vars(Killed(i))
FairSpec == Spec /\ Fairness
-----------------------------------------------------------------------------
Stuck == gui.at \in {"hung", "crashed"}

TypeOK ==
    /\ page \in Pages
    /\ file \in Seq(Ids) \cup {Broken}
    /\ running \in [Ids -> Ids \cup {None}]
    /\ held \in BOOLEAN /\ changed \in BOOLEAN
    /\ view \in Seq([id : Ids, checked : BOOLEAN])
    /\ info \in Seq(Ids) /\ read \in Seq(Ids)
    /\ current \in Nat
    /\ dialog \in [kind : {"none", "start", "stop", "remove"}, app : Ids \cup {None}]
    /\ gui \in [at : {"idle", "load", "fill", "look", "launch", "truncate", "write",
                      "stop", "openInstall", "saveInstall", "hung", "crashed"},
                app : Ids \cup {None}, row : Nat]
    /\ trigger \in Ids \cup {None} /\ worker \in {"waiting", "sleeping", "clearing"}
    /\ results \in Seq([id : Ids, started : BOOLEAN])
    /\ scan \in (SUBSET Ids) \cup {None}
    /\ sts \in Seq([id : Ids, on : BOOLEAN, row : Nat])
    /\ kills \in SUBSET Ids
    /\ outside \in [at : {"idle", "open", "save", "done"}, read : Seq(Ids)]
    /\ clicks \in 0..MaxClicks /\ installs \in 0..MaxInstalls
    /\ restarts \in 0..MaxRestarts

(* Whoever rewrites the list - a removal, the marketplace, an installation *)
(* from outside, all without a lock - nothing is listed twice, in the file *)
(* or on the page.                                                         *)
EachAppOnce ==
    /\ file # Broken => IsInjective(file)
    /\ IsInjective(info) /\ IsInjective(IdsOf(view))

(* The container that has the name of an app runs the image of that app:   *)
(* the row that is clicked, which names the container, and the row of the  *)
(* list in memory, which holds the image, are the same app's.              *)
RunsItsOwnImage == \A i \in Ids : running[i] \in {None, i}

(* Only a page that shows nothing can have kept its mutex: as long as rows *)
(* are shown, the next change of the file can be loaded.                   *)
KeptOnlyWhenEmpty == held /\ gui.at # "fill" => view = <<>> /\ info = <<>>

(* Once the file stays as it is, the page comes to show it, and nothing    *)
(* for a file that does not parse.                                         *)
PageShowsFile ==
    <>[](Stuck \/ IdsOf(view) = IF file = Broken THEN <<>> ELSE file)

(* The toggles come to show what docker runs, whatever was clicked, loaded *)
(* again (which switches all of them off) or reported late in between.     *)
TogglesFollowDocker ==
    <>[](Stuck \/ \A n \in DOMAIN view : view[n].checked = (view[n].id \in DockerPs))
=============================================================================
