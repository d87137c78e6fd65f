--------------------------- MODULE PrototypeSystem ---------------------------
(***************************************************************************)
(* dk-manager and the digital.auto page of the in-vehicle UI together:     *)
(* two programs, one prototypes.json, one set of containers.  A write of   *)
(* dk-manager to prototypes.json makes the page's file watcher signal.     *)
(***************************************************************************)
EXTENDS PrototypeStore

CONSTANT MaxClicks

ASSUME ClicksAssumption == MaxClicks \in Nat

VARIABLES view, info, current, dialog, busy, gui, read, changed, reload,
          trigger, worker, results, kills, asked, clicks

Page == INSTANCE DigitalAuto

storeOnly == <<digitalAutoPrototypeMutex, pc, req, pending, files, result,
               shown, faults, missed>>
pageUnwatched == <<view, info, current, dialog, busy, gui, read, reload, trigger,
                   worker, results, kills, asked, clicks>>
sysVars == <<vars, pageUnwatched, changed>>

SysInit == Init /\ Page!Init

(* A handler that truncated or wrote prototypes.json.                      *)
Wrote ==
    \E h \in Handlers : \/ pc[h] = "openList" /\ pc'[h] = "writeList"
                        \/ pc[h] = "writeList" /\ pc'[h] \in {"stopApp", "reply"}

StoreStep ==
    /\ Next
    /\ changed' = (changed \/ Wrote)
    /\ UNCHANGED pageUnwatched
PageStep == Page!Next /\ UNCHANGED storeOnly

SysNext == StoreStep \/ PageStep
SysSpec == SysInit /\ [][SysNext]_sysVars

(* The threads of dk-manager, the event loop of the page, its worker and   *)
(* the background commands run on; the user and the server owe nothing.    *)
SysFairness ==
    /\ \A h \in Handlers :
          WF_sysVars(StoreStep /\ HandlerStep(h))
    /\ WF_sysVars(Page!GuiStep /\ UNCHANGED storeOnly)
    /\ WF_sysVars(Page!WorkerStep /\ UNCHANGED storeOnly)
    /\ \A i \in Ids : WF_sysVars(Page!Killed(i) /\ UNCHANGED storeOnly)
SysFairSpec == SysSpec /\ SysFairness
-----------------------------------------------------------------------------
SysTypeOK ==
    /\ list \in Seq(Ids) /\ read \in Seq(Ids)
    /\ container \in [Ids -> Content \cup {Booting, Exited}]
    /\ view \in Seq([id : Ids, checked : BOOLEAN])
    /\ info \in Seq([id : Ids, subscribed : BOOLEAN])
    /\ current \in 0..Len(view)
    /\ dialog \in [kind : {"none", "start", "stop", "remove"}, app : Ids \cup {None}]
    /\ gui \in [at : {"idle", "look", "launch", "remove", "crashed"},
                app : Ids \cup {None}]
    /\ reload \in {"due", "shown"}
    /\ trigger \in Ids \cup {None}
    /\ worker \in {"waiting", "sleeping", "clearing"}
    /\ results \in Seq([id : Ids, started : BOOLEAN])
    /\ kills \in SUBSET Ids /\ asked \in SUBSET Ids
    /\ busy \in BOOLEAN /\ changed \in BOOLEAN /\ clicks \in 0..MaxClicks

(* Although the page rewrites prototypes.json without dk-manager's lock    *)
(* and from an index of its own, no prototype is ever listed twice, in the *)
(* file or on the page.                                                    *)
ListedOnce ==
    /\ IsInjective(list)
    /\ IsInjective(Page!IdsOf(view)) /\ IsInjective(Page!IdsOf(info))

(* Once the list stays as it is, the page comes to show it: every change   *)
(* of the file, also one that the page read half written, makes the page   *)
(* load it again.                                                          *)
PageCatchesUp ==
    <>[](gui.at = "crashed" \/
         (Page!IdsOf(view) = list /\ Page!IdsOf(info) = list))

AtRest == \A h \in Handlers : pc[h] \in {"idle", "done"}

(* "Append prototype to prototype list at file": a prototype whose         *)
(* deployment was answered "success", and that nobody asked to remove,     *)
(* stays in the list.                                                      *)
DeployedStaysListed ==
    AtRest /\ gui.at # "remove" => Acked \ asked \subseteq Range(list)

(* "Want to delete <b>${deleteAppName}</b>?": the app that is removed is   *)
(* the one the dialog named.                                               *)
RemovesNamedApp ==
    [][dialog.kind = "remove" /\ gui'.at = "remove" => gui'.app = dialog.app]_sysVars
=============================================================================
