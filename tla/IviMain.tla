-------------------------------- MODULE IviMain --------------------------------
(***************************************************************************)
(* The process of the in-vehicle UI (main.cpp): it starts dk-manager as a  *)
(* child (dkmanager_subprocess.cpp), loads the pages, of which the vehicle *)
(* controls are modelled (Controls), runs the event loop, and on its way   *)
(* out destroys the pages and then stops the child: terminate, five        *)
(* seconds, kill, two seconds.  QProcess itself is external: its state     *)
(* follows the child only when the GUI thread handles an event or waits.   *)
(***************************************************************************)
EXTENDS Controls

VARIABLES
  ui,       \* where main() is
  child,    \* the process of dk-manager
  crash,    \* it ended with a crash
  killed,   \* it was sent SIGKILL
  state,    \* QProcess::state()
  started, stopped, errors \* how often managerStarted, -Stopped, -Error came

process == <<child, crash, killed>>
reports == <<started, stopped, errors>>
vars == <<controls, ui, process, state, reports>>

Leaving == {"stop", "terminating", "killing", "destroy"}

TypeOK ==
  /\ ControlsTypeOK
  /\ ui \in {"start", "waitStarted", "load", "loop", "over", "crashed"} \cup Leaving
  /\ child \in {"none", "starting", "failed", "running", "ended"}
  /\ {crash, killed} \subseteq BOOLEAN /\ (crash => child = "ended")
  /\ state \in {"NotRunning", "Starting", "Running"}
  /\ state = "Running" => child \in {"running", "ended"}
  /\ started \in 0..1 /\ stopped \in 0..2 /\ errors \in 0..3

Init ==
  /\ ControlsInit
  /\ ui = "start" /\ state = "NotRunning"
  /\ child = "none" /\ crash = FALSE /\ killed = FALSE
  /\ started = 0 /\ stopped = 0 /\ errors = 0

-----------------------------------------------------------------------------
(* The child.                                                              *)

ChildRuns ==
  /\ child = "starting" /\ ~killed
  /\ child' \in {"running", "failed"}
  /\ UNCHANGED <<controls, ui, crash, killed, state, reports>>

\* By itself, or by a signal; nothing says that it heeds SIGTERM.
ChildEnds ==
  /\ child = "running" \/ (child = "starting" /\ killed)
  /\ child' = "ended" /\ crash' \in (IF killed THEN {TRUE} ELSE BOOLEAN)
  /\ UNCHANGED <<controls, ui, killed, state, reports>>

-----------------------------------------------------------------------------
(* main() up to the event loop.                                            *)

\* startManager() finds an executable, or reports that there is none.
StartManager ==
  /\ ui = "start"
  /\ \/ /\ child' = "starting" /\ state' = "Starting" /\ ui' = "waitStarted"
        /\ UNCHANGED errors
     \/ /\ ui' = "load" /\ errors' = errors + 1
        /\ UNCHANGED <<child, state>>
  /\ UNCHANGED <<controls, crash, killed, started, stopped>>

\* waitForStarted(5000): it starts, it fails, which onManagerError reports
\* first, or the time is up and main() goes on without it.
Started ==
  /\ ui = "waitStarted" /\ child \in {"running", "ended"}
  /\ ui' = "load" /\ state' = "Running" /\ started' = started + 1
  /\ UNCHANGED <<controls, process, stopped, errors>>

NotStarted ==
  /\ ui = "waitStarted" /\ child \in {"starting", "failed"}
  /\ ui' = "load"
  /\ state' = IF child = "failed" THEN "NotRunning" ELSE state
  /\ errors' = errors + (IF child = "failed" THEN 2 ELSE 1)
  /\ UNCHANGED <<controls, process, started, stopped>>

\* The pages load, and the controls read their targets; or no page loads.
Load ==
  /\ ui = "load"
  /\ \/ ui' = "loop" /\ ReadTargets
     \/ ui' = "stop" /\ UNCHANGED controls
  /\ UNCHANGED <<process, state, reports>>

-----------------------------------------------------------------------------
(* The event loop.                                                         *)

LateStart ==
  /\ ui = "loop" /\ state = "Starting" /\ child \in {"failed", "running", "ended"}
  /\ state' = IF child = "failed" THEN "NotRunning" ELSE "Running"
  /\ errors' = errors + (IF child = "failed" THEN 1 ELSE 0)
  /\ UNCHANGED <<controls, ui, process, started, stopped>>

\* What QProcess emits when it sees that the child has ended: a crash is an
\* error (onManagerError), and an error again and a stop (onManagerFinished).
Finished(stops) ==
  /\ child = "ended" /\ state = "Running"
  /\ state' = "NotRunning"
  /\ errors' = errors + (IF crash THEN 2 ELSE 0)
  /\ stopped' = stopped + stops

\* Mutant: only a crash is reported.
FaultManagerFinished ==
  /\ ui = "loop" /\ child = "ended" /\ state = "Running"
  /\ state' = "NotRunning"
  /\ errors' = errors + (IF crash THEN 2 ELSE 0)
  /\ UNCHANGED <<controls, ui, process, started, stopped>>

OnManagerFinished ==
  /\ ui = "loop" /\ Finished(1)
  /\ UNCHANGED <<controls, ui, process, started>>

DeliverInLoop ==
  /\ ui = "loop" /\ \E s \in Signals : Deliver(s)
  /\ UNCHANGED <<ui, process, state, reports>>

InLoop ==
  /\ ui = "loop" /\ UserStep
  /\ UNCHANGED <<ui, process, state, reports>>

Quit ==
  /\ ui = "loop" /\ ui' = "stop"
  /\ UNCHANGED <<controls, process, state, reports>>

Broker ==
  /\ ui \notin {"over", "crashed"} /\ BrokerStep
  /\ (subscribed' # subscribed => ui \in {"load", "loop"})
  /\ UNCHANGED <<ui, process, state, reports>>

-----------------------------------------------------------------------------
(* The way out: the pages are gone, and ~DkManagerSubprocess() runs.       *)

\* A thread of the client, detached, calls the page that was destroyed.
LateCallback ==
  /\ ui \in Leaving
  /\ \E s \in Signals : /\ echoes[s] # <<>>
                        /\ echoes' = [echoes EXCEPT ![s] = Tail(@)]
  /\ ui' \in {ui, "crashed"}
  /\ UNCHANGED <<connected, subscribed, shown, pressed, current, target, missed, writes,
                 process, state, reports>>

StopManager ==
  /\ ui = "stop"
  /\ ui' = IF state = "Running" THEN "terminating" ELSE "destroy"
  /\ UNCHANGED <<controls, process, state, reports>>

\* waitForFinished() handles the end, and stopManager() reports it again.
Terminated ==
  /\ ui \in {"terminating", "killing"} /\ Finished(2)
  /\ ui' = "destroy"
  /\ UNCHANGED <<controls, process, started>>

\* Mutant: the wait for the child has no end.
FaultTerminateTimesOut == FALSE /\ UNCHANGED vars

TerminateTimesOut ==
  /\ ui = "terminating" /\ child = "running"
  /\ ui' = "killing" /\ killed' = TRUE
  /\ UNCHANGED <<controls, child, crash, state, reports>>

KillTimesOut ==
  /\ ui = "killing" /\ child = "running"
  /\ ui' = "destroy" /\ stopped' = stopped + 1
  /\ UNCHANGED <<controls, process, state, started, errors>>

\* Mutant: the QProcess has no parent and is never deleted.
FaultDestroy ==
  /\ ui = "destroy" /\ ui' = "over"
  /\ UNCHANGED <<controls, process, state, reports>>

\* ~QProcess() kills a child it takes for alive and waits for its end.
Destroy ==
  /\ ui = "destroy"
  /\ IF state = "NotRunning" \/ child \in {"failed", "ended"}
     THEN ui' = "over" /\ UNCHANGED killed
     ELSE ~killed /\ killed' = TRUE /\ UNCHANGED ui
  /\ UNCHANGED <<controls, child, crash, state, reports>>

Leave == StopManager \/ Terminated \/ TerminateTimesOut \/ KillTimesOut \/ Destroy

Next ==
  \/ ChildRuns \/ ChildEnds
  \/ StartManager \/ Started \/ NotStarted \/ Load
  \/ LateStart \/ OnManagerFinished \/ DeliverInLoop \/ InLoop \/ Quit \/ Broker
  \/ LateCallback \/ Leave

\* The GUI thread handles what is posted to it and works its way out of
\* main(), the time limits included; what was sent SIGKILL ends.
Fairness ==
  /\ \A s \in Signals : WF_vars(ui = "loop" /\ Deliver(s) /\ UNCHANGED <<ui, process,
       state, reports>>)
  /\ WF_vars(Leave)
  /\ WF_vars(killed /\ ChildEnds)

Spec == Init /\ [][Next]_vars /\ Fairness

-----------------------------------------------------------------------------
(* When main() has returned the child is gone, in whatever state the start *)
(* and the stop found it: a start that took too long, an end nobody        *)
(* noticed, a SIGTERM that was ignored (dkmanager_subprocess.cpp:26, 122). *)
NoOrphan == ui = "over" => child \in {"none", "failed", "ended"}

(* A start that was reported has been followed by the report of a stop     *)
(* when main() returns, whoever ended the child and whoever noticed        *)
(* (dkmanager_subprocess.cpp:118, 140, 157).                               *)
StartsAreStopped == ui = "over" => stopped >= started

(* A UI that leaves its event loop ends, even if dk-manager ignores        *)
(* SIGTERM (or a late callback of a subscription crashes it).              *)
Quits == ui = "stop" ~> ui \in {"over", "crashed"}

(* Whatever is on its way to a slider that is held, the fan speed the page *)
(* writes back is a multiple of ten within 0..100 and never wraps in the   *)
(* eight bits of controls.cpp:195.                                         *)
WrittenInRange ==
  [][\A s \in Fans : current'[s] # current[s] => current'[s] \in {10 * n : n \in 0..10}]_vars

\* The widget shows the target, as precisely as it is written back.
Agrees(s) ==
  \/ target[s] = Unset \/ missed[s]
  \/ Setting(s, shown[s]) = Shown(s, target[s])

(* Once the user lets go, every widget comes to show the target in the     *)
(* broker, however the writes of the user, of other programs and those a   *)
(* held slider sent back were mixed, unless the last write failed          *)
(* (controls.cpp:80, controls.qml:26, 601).                                *)
Settles ==
  \A s \in Signals :
    <>[](ui = "loop" /\ s \in subscribed /\ s \notin pressed) => <>[]Agrees(s)
=============================================================================
