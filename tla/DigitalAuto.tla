---------------------------- MODULE DigitalAuto ----------------------------
(***************************************************************************)
(* The digital.auto page of the in-vehicle UI: it lists the prototypes     *)
(* that dk-manager deployed, starts, stops and removes them.  The page is  *)
(* another process than dk-manager; the two share prototypes.json (list)   *)
(* and the docker containers (container) and have no lock in common.       *)
(*                                                                         *)
(* All handlers of the page run on the GUI thread, one after the other     *)
(* (gui); a worker thread looks with docker ps whether an app that was     *)
(* started really runs, and queues its answer for the GUI thread.          *)
(* openAppEditor and checkRunningAppSts (which looks for the toggle among  *)
(* the direct children of a row, where it is not) change nothing here.     *)
(***************************************************************************)
EXTENDS Naturals, Sequences, SequencesExt

CONSTANTS Ids,            \* prototype ids
          None, Booting,  \* no container; a container that is starting
          Exited,         \* a container that is not running: its name is taken
          MaxClicks       \* how often the user clicks (a bound)

VARIABLES
    list, container,
    view,      \* daAppListModel: the rows, [id, checked]
    info,      \* m_appListInfo: [id, subscribed]
    current,   \* currentIndex of the list view, 0 if none (-1 in the code)
    dialog,    \* the modal dialog that is open and the app it names
    busy,      \* the busy indicator of the start dialog
    gui,       \* what the GUI thread is in the middle of, and for which app
    read,      \* the list removeApp has read and is about to write back
    changed,   \* a fileChanged signal is queued
    reload,    \* the deployment timer: "due", or "shown" once the list is loaded
    trigger,   \* the app the worker is asked to check, or None
    worker,    \* what the worker thread does
    results,   \* resultReady signals queued for the GUI thread
    kills,     \* docker kill commands sent to the background
    asked,     \* history: the apps whose removal the user confirmed
    clicks

guiVars == <<view, info, current, dialog, busy, gui, read, reload, asked>>
workerVars == <<trigger, worker, results>>
pageVars == <<guiVars, changed, workerVars, kills, clicks>>
vars == <<list, container, pageVars>>

IdsOf(rows) == [n \in DOMAIN rows |-> rows[n].id]
Entry(id) == {n \in DOMAIN info : info[n].id = id}
IsSubscribed(id) == \E n \in Entry(id) : info[n].subscribed
Subscribed(id, value) ==
    [n \in DOMAIN info |-> IF info[n].id = id
                             THEN [info[n] EXCEPT !.subscribed = value] ELSE info[n]]
DockerPs == {i \in Ids : container[i] \notin {None, Exited}}
NoDialog == [kind |-> "none", app |-> None]
Idle == [at |-> "idle", app |-> None]
Free == gui = Idle
Click == Free /\ dialog = NoDialog /\ clicks < MaxClicks /\ clicks' = clicks + 1

(* The page opens on an empty list; Reload below fills it.                 *)
Init ==
    /\ view = <<>> /\ info = <<>> /\ current = 0 /\ dialog = NoDialog
    /\ busy = FALSE /\ gui = Idle /\ read = <<>>
    /\ changed = FALSE /\ reload = "due"
    /\ trigger = None /\ worker = "waiting" /\ results = <<>>
    /\ kills = {} /\ asked = {} /\ clicks = 0

(* Fault: a signal is lost once the list has been loaded.                  *)
FileChangedOnce ==
    /\ Free /\ changed
    /\ changed' = FALSE
    /\ UNCHANGED <<list, container, view, info, current, dialog, busy, gui, read,
                   reload, asked, workerVars, kills, clicks>>

(* The watcher's signal restarts the timer.                                *)
FileChanged ==
    /\ Free /\ changed
    /\ changed' = FALSE /\ reload' = "due"
    /\ UNCHANGED <<list, container, view, info, current, dialog, busy, gui, read,
                   asked, workerVars, kills, clicks>>

(* Faults: the rows are added to the old ones; the current row is kept.    *)
ReloadAppends ==
    /\ Free /\ reload = "due"
    /\ reload' = "shown"
    /\ info' = [n \in DOMAIN list |->
                  [id |-> list[n], subscribed |-> IsSubscribed(list[n])]]
    /\ view' = view \o [n \in DOMAIN list |->
                  [id |-> list[n], checked |-> IsSubscribed(list[n])]]
    /\ current' = 0
    /\ UNCHANGED <<list, container, dialog, busy, gui, read, changed, asked,
                   workerVars, kills, clicks>>
ReloadKeepsRow ==
    /\ Free /\ reload = "due"
    /\ reload' = "shown"
    /\ info' = [n \in DOMAIN list |->
                  [id |-> list[n], subscribed |-> IsSubscribed(list[n])]]
    /\ view' = [n \in DOMAIN list |->
                  [id |-> list[n], checked |-> IsSubscribed(list[n])]]
    /\ UNCHANGED <<list, container, current, dialog, busy, gui, read, changed,
                   asked, workerVars, kills, clicks>>

(* The timer at 100 percent: initSubscribeAppFromDB.  Refilling the model  *)
(* of the list view leaves it without a current row or on the first.       *)
Reload ==
    /\ Free /\ reload = "due"
    /\ reload' = "shown"
    /\ info' = [n \in DOMAIN list |->
                  [id |-> list[n], subscribed |-> IsSubscribed(list[n])]]
    /\ view' = [n \in DOMAIN list |->
                  [id |-> list[n], checked |-> IsSubscribed(list[n])]]
    /\ current' \in {0} \cup (IF current # 0 /\ list # <<>> THEN {1} ELSE {})
    /\ UNCHANGED <<list, container, dialog, busy, gui, read, changed, asked,
                   workerVars, kills, clicks>>

(* A click on the toggle of a row: it flips, then asks or starts.          *)
ClickToggle(n) ==
    /\ Click
    /\ current' = n
    /\ view' = [view EXCEPT ![n].checked = ~@]
    /\ IF view[n].checked
         THEN /\ dialog' = [kind |-> "start", app |-> view[n].id]
              /\ busy' = TRUE
              /\ gui' = [at |-> "look", app |-> view[n].id]
         ELSE /\ dialog' = [kind |-> "stop", app |-> view[n].id]
              /\ UNCHANGED <<busy, gui>>
    /\ UNCHANGED <<list, container, info, read, changed, reload, asked,
                   workerVars, kills>>

(* executeApp(true): nothing more if docker ps shows the app ...           *)
LookAtDocker ==
    /\ gui.at = "look"
    /\ gui' = IF gui.app \in DockerPs THEN Idle ELSE [gui EXCEPT !.at = "launch"]
    /\ UNCHANGED <<list, container, view, info, current, dialog, busy, read,
                   changed, reload, asked, workerVars, kills, clicks>>

(* ... else docker kill, rm, run, which may fail, and the worker is asked  *)
(* to check.                                                               *)
LaunchApp ==
    /\ gui.at = "launch"
    /\ \E c \in {Booting, None} : container' = [container EXCEPT ![gui.app] = c]
    /\ trigger' = gui.app
    /\ gui' = Idle
    /\ UNCHANGED <<list, view, info, current, dialog, busy, read, changed, reload,
                   asked, worker, results, kills, clicks>>

(* The OK button of the start dialog works while the app is starting.      *)
AcceptStart ==
    /\ Free /\ dialog.kind = "start"
    /\ dialog' = NoDialog
    /\ UNCHANGED <<list, container, view, info, current, busy, gui, read, changed,
                   reload, asked, workerVars, kills, clicks>>

(* executeApp(false), or only close the dialog; an app without a current   *)
(* row breaks the handler off before it clears currentIndex.               *)
AnswerStop(confirmed) ==
    /\ Free /\ dialog.kind = "stop"
    /\ dialog' = NoDialog
    /\ current' = 0
    /\ IF confirmed
         THEN /\ kills' = kills \cup {dialog.app}
              /\ info' = Subscribed(dialog.app, FALSE)
         ELSE UNCHANGED <<kills, info>>
    /\ UNCHANGED <<list, container, view, busy, gui, read, changed, reload, asked,
                   workerVars, clicks>>

ClickRemove(n) ==
    /\ Click
    /\ current' = n
    /\ dialog' = [kind |-> "remove", app |-> view[n].id]
    /\ UNCHANGED <<list, container, view, info, busy, gui, read, changed, reload,
                   asked, workerVars, kills>>

RejectRemove ==
    /\ Free /\ dialog.kind = "remove"
    /\ dialog' = NoDialog /\ current' = 0
    /\ UNCHANGED <<list, container, view, info, busy, gui, read, changed, reload,
                   asked, workerVars, kills, clicks>>

(* removeApp(currentIndex): nothing beyond the end of m_appListInfo; with  *)
(* no current row it reads and removes element -1, which is undefined      *)
(* (taken as a crash).  Else stop the app if it was started here and read  *)
(* prototypes.json ...                                                     *)
AcceptRemove ==
    /\ Free /\ dialog.kind = "remove"
    /\ dialog' = NoDialog
    /\ asked' = asked \cup {dialog.app}
    /\ \/ /\ current \in DOMAIN info
          /\ gui' = [at |-> "remove", app |-> info[current].id]
          /\ read' = list
          /\ IF info[current].subscribed
               THEN /\ kills' = kills \cup {info[current].id}
                    /\ info' = Subscribed(info[current].id, FALSE)
               ELSE UNCHANGED <<kills, info>>
          /\ UNCHANGED current
       \/ /\ current > Len(info)
          /\ current' = 0
          /\ UNCHANGED <<gui, read, kills, info>>
       \/ /\ current = 0
          /\ gui' = [at |-> "crashed", app |-> None]
          /\ UNCHANGED <<read, kills, info, current>>
    /\ UNCHANGED <<list, container, view, busy, changed, reload, workerVars, clicks>>

(* ... then write it back without the entry at that index, and forget it.  *)
WriteRemoval ==
    /\ gui.at = "remove"
    /\ list' = IF current \in DOMAIN read THEN RemoveAt(read, current) ELSE read
    /\ info' = RemoveAt(info, current)
    /\ current' = 0
    /\ gui' = Idle /\ read' = <<>>
    /\ changed' = TRUE
    /\ UNCHANGED <<container, view, dialog, busy, reload, asked, workerVars, kills, clicks>>

(* The background docker kill takes effect.                                *)
Killed(i) ==
    /\ i \in kills
    /\ kills' = kills \ {i}
    /\ container' = IF i \in DockerPs THEN [container EXCEPT ![i] = Exited]
                                      ELSE container
    /\ UNCHANGED <<list, guiVars, changed, workerVars, clicks>>

(* The worker polls the trigger, waits, asks docker ps for the app that is *)
(* then in m_appId, sends the result and clears the trigger.               *)
WorkerWakes ==
    /\ worker = "waiting" /\ trigger # None
    /\ worker' = "sleeping"
    /\ UNCHANGED <<list, container, guiVars, changed, trigger, results, kills, clicks>>

WorkerChecks ==
    /\ worker = "sleeping"
    /\ results' = Append(results, [id |-> trigger, started |-> trigger \in DockerPs])
    /\ worker' = "clearing"
    /\ UNCHANGED <<list, container, guiVars, changed, trigger, kills, clicks>>

WorkerClears ==
    /\ worker = "clearing"
    /\ trigger' = None /\ worker' = "waiting"
    /\ UNCHANGED <<list, container, guiVars, changed, results, kills, clicks>>

(* handleResults: updateStartAppMsg fails on a missing current row before  *)
(* it stops the busy indicator; the C++ side carries on.                   *)
HandleResult ==
    /\ Free /\ results # <<>>
    /\ results' = Tail(results)
    /\ IF current # 0 THEN current' = 0 /\ busy' = FALSE
                      ELSE UNCHANGED <<current, busy>>
    /\ info' = IF Head(results).started THEN Subscribed(Head(results).id, TRUE)
                                        ELSE info
    /\ UNCHANGED <<list, container, view, dialog, gui, read, changed, reload,
                   asked, trigger, worker, kills, clicks>>

User ==
    \/ \E n \in DOMAIN view : ClickToggle(n) \/ ClickRemove(n)
    \/ AcceptStart \/ RejectRemove \/ AcceptRemove
    \/ \E confirmed \in BOOLEAN : AnswerStop(confirmed)

GuiStep == FileChanged \/ Reload \/ LookAtDocker \/ LaunchApp \/ WriteRemoval
              \/ HandleResult
WorkerStep == WorkerWakes \/ WorkerChecks \/ WorkerClears

Next == User \/ GuiStep \/ WorkerStep \/ \E i \in Ids : Killed(i)
=============================================================================
