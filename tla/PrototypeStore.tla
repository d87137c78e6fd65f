--------------------------- MODULE PrototypeStore ---------------------------
(***************************************************************************)
(* The prototype commands of dk-manager.  Every message of the server gets *)
(* a thread of its own (a MessageToKitHandler), so the handlers below run  *)
(* concurrently.  The two deployment handlers serialise on                 *)
(* digitalAutoPrototypeMutex; set-python-code, start, stop and the list    *)
(* reader take no lock.  They share three things outside the process:      *)
(*   prototypes.json (list), the files of each prototype (files) and the   *)
(*   docker container that has the prototype's id for a name (container).  *)
(*                                                                         *)
(* A file is rewritten by FileUtils::WriteFile: it is truncated when it is *)
(* opened and holds the new text only when it is closed, 50 ms later.  The *)
(* text of a prototype file is named by the handler that wrote it.         *)
(* FileUtils looks at the result of opening a file for writing and at      *)
(* nothing else: a file that cannot be read reads as "", and a text that   *)
(* does not reach the disk is not noticed.  Such failures are steps of     *)
(* their own here, remembered in missed.                                   *)
(***************************************************************************)
EXTENDS Naturals, Sequences, Functions

CONSTANTS
    Handlers,    \* the handler threads, one per message of the server
    Ids,         \* prototype ids
    Messages,    \* the messages the server sends in this instance
    MaxFaults,   \* how many restarts of dk-manager, and reads and writes that
                 \* fail unnoticed, there may be in all (a bound)
    None,        \* no owner, no file, no container
    Empty,       \* a file that is truncated and not yet written
    Torn,        \* text of two writers mixed: it is neither valid JSON nor code
    Booting,     \* a container whose interpreter has not read its file yet
    Exited       \* a container that has stopped: it keeps its name

AllKinds == {"deploy", "ara", "list", "start", "stop", "set"}
LockedKinds == {"deploy", "ara"}
FileNames == {"app", "code"}

(* convertedCode is looked at by deploy_request only, and only that        *)
(* command may ask to run the prototype at once.                           *)
AllMessages ==
    {r \in [kind : AllKinds, id : Ids, converted : BOOLEAN, run : BOOLEAN] :
        r.kind = "deploy" \/ (r.converted /\ ~r.run)}

ASSUME MessagesAssumption == Messages \subseteq AllMessages
ASSUME FaultsAssumption == MaxFaults \in Nat
ASSUME MarkersAssumption ==
    /\ {None, Empty, Torn, Booting, Exited} \cap Handlers = {}
    /\ None \notin {Empty, Torn, Booting, Exited, "success"}
    /\ Exited \notin {Empty, Torn, Booting}
    /\ Empty # Torn /\ Empty # Booting /\ Torn # Booting

VARIABLES
    digitalAutoPrototypeMutex, \* the handler that holds it, or None
    pc,         \* how far each handler is
    req,        \* the message each handler serves
    list,       \* prototypes.json: the ids it lists, in order (<<>> if truncated)
    pending,    \* the list AppendPrototypeToList is about to write
    files,      \* files[f][i]: the content of file f of prototype i
    container,  \* container[i]: what the container named i is doing, or the
                \* code it has loaded
    result,     \* the "result" each handler has sent back
    shown,      \* the list a list_prototypes reply carries
    faults,     \* how many faults there have been
    missed      \* history: <<h, what>> for each read or write of h that
                \* failed unnoticed

vars == <<digitalAutoPrototypeMutex, pc, req, list, pending, files, container,
          result, shown, faults, missed>>

NoRequest == [kind |-> "none", id |-> None, converted |-> FALSE, run |-> FALSE]
Content == Handlers \cup {None, Empty, Torn}
Slips == {"app", "code", "read", "list"}

Stages == {"idle", "lock", "openApp", "writeApp", "openCode", "writeCode",
           "readList", "openList", "writeList", "daprStop", "stopApp",
           "runApp", "serve", "reply", "fail", "unlock", "done", "lost"}

(* The stages between lock() and unlock() of the two deployment handlers.  *)
InSection == {"openApp", "writeApp", "openCode", "writeCode", "readList",
              "openList", "writeList", "stopApp", "runApp", "reply", "fail",
              "unlock"}

Locks(h) == req[h].kind \in LockedKinds
Holds(h) == Locks(h) /\ pc[h] \in InSection

(* The prototype list a reader would see if no WriteFile were under way.   *)
Writing == {h \in Handlers : pc[h] = "writeList"}
Registry == IF Writing # {} THEN pending[CHOOSE h \in Writing : TRUE] ELSE list

-----------------------------------------------------------------------------
(* FileUtils::WriteFile.  open() truncates or fails, close() leaves the    *)
(* writer's own text, unless another writer has put text there since the   *)
(* truncation: the longer of the two then shows through.                   *)
Truncated(f, i) == files' = [files EXCEPT ![f][i] = Empty]
Closed(f, i, h) ==
    \E c \in IF files[f][i] = Empty THEN {h} ELSE {h, Torn} :
        files' = [files EXCEPT ![f][i] = c]

(* A fault of the environment, of which there are only so many.            *)
Fault == faults < MaxFaults /\ faults' = faults + 1

(* The stream's state is not looked at after <<, flush and close: nothing  *)
(* or only a part of the text may have reached the disk.                   *)
NotClosed(f, i) ==
    \E c \in {files[f][i], Torn} : files' = [files EXCEPT ![f][i] = c]
Missing(h, what) ==
    /\ Fault
    /\ missed' = missed \cup {<<h, what>>}

(* Faults: the id is not looked up; the id field is not set.               *)
WithPrototypeAgain(l, i) == Append(l, i)
WithPrototypeNoId(l, i) == Append(l, None)

(* AppendPrototypeToList: a known id only gets a new lastDeploy.           *)
WithPrototype(l, i) == IF i \in Range(l) THEN l ELSE Append(l, i)

Goto(h, stage) == pc' = [pc EXCEPT ![h] = stage]

-----------------------------------------------------------------------------
Init ==
    /\ digitalAutoPrototypeMutex = None
    /\ pc = [h \in Handlers |-> "idle"]
    /\ req = [h \in Handlers |-> NoRequest]
    /\ list = <<>>
    /\ pending = [h \in Handlers |-> <<>>]
    /\ files = [f \in FileNames |-> [i \in Ids |-> None]]
    /\ container = [i \in Ids |-> None]
    /\ result = [h \in Handlers |-> None]
    /\ shown = [h \in Handlers |-> <<>>]
    /\ faults = 0
    /\ missed = {}

(* OnMessageToKit starts a thread; run() dispatches on the command.        *)
FirstStage(kind) ==
    CASE kind \in LockedKinds -> "lock"
      [] kind = "list" -> "serve"
      [] kind \in {"start", "stop"} -> "stopApp"
      [] kind = "set" -> "daprStop"

Arrive(h, r) ==
    /\ pc[h] = "idle"
    /\ req' = [req EXCEPT ![h] = r]
    /\ Goto(h, FirstStage(r.kind))
    /\ UNCHANGED <<digitalAutoPrototypeMutex, list, pending, files, container,
                   result, shown, faults, missed>>

(* Fault: nobody waits for the mutex.                                      *)
LockUnguarded(h) ==
    /\ pc[h] = "lock"
    /\ digitalAutoPrototypeMutex' = h
    /\ Goto(h, IF req[h].kind = "ara" THEN "openApp"
               ELSE IF req[h].converted THEN "openCode" ELSE "fail")
    /\ UNCHANGED <<req, list, pending, files, container, result, shown, faults,
                   missed>>

(* digitalAutoPrototypeMutex.lock(), then the check of convertedCode.      *)
Lock(h) ==
    /\ pc[h] = "lock"
    /\ digitalAutoPrototypeMutex = None
    /\ digitalAutoPrototypeMutex' = h
    /\ Goto(h, IF req[h].kind = "ara" THEN "openApp"
               ELSE IF req[h].converted THEN "openCode" ELSE "fail")
    /\ UNCHANGED <<req, list, pending, files, container, result, shown, faults,
                   missed>>

(* Open a file of the prototype for writing.  A deployment makes the       *)
(* folder first, set-python-code needs one that is there; mkdir or open    *)
(* may fail.                                                               *)
HasFolder(i) == \E f \in FileNames : files[f][i] # None
OpenFile(h, f, here, next) ==
    /\ pc[h] = here
    /\ \/ /\ req[h].kind = "set" => HasFolder(req[h].id)
          /\ Truncated(f, req[h].id)
          /\ Goto(h, next)
       \/ UNCHANGED files /\ Goto(h, "fail")
    /\ UNCHANGED <<digitalAutoPrototypeMutex, req, list, pending, container,
                   result, shown, faults, missed>>

CloseFile(h, f, here, next) ==
    /\ pc[h] = here
    /\ \/ Closed(f, req[h].id, h) /\ UNCHANGED <<faults, missed>>
       \/ NotClosed(f, req[h].id) /\ Missing(h, f)
    /\ Goto(h, next)
    /\ UNCHANGED <<digitalAutoPrototypeMutex, req, list, pending, container,
                   result, shown>>

OpenApp(h) == OpenFile(h, "app", "openApp", "writeApp")
WriteAppOnly(h) == CloseFile(h, "app", "writeApp", "readList") \* fault: no main.py
WriteApp(h) == CloseFile(h, "app", "writeApp", "openCode")
OpenCode(h) == OpenFile(h, "code", "openCode", "writeCode")
WriteCode(h) == CloseFile(h, "code", "writeCode",
                          IF req[h].kind = "set" THEN "reply" ELSE "readList")

(* A list that cannot be opened reads as "", which is an empty list.       *)
ReadList(h) ==
    /\ pc[h] = "readList"
    /\ \E seen \in {list, <<>>} :
          /\ pending' = [pending EXCEPT ![h] = WithPrototype(seen, req[h].id)]
          /\ IF seen = list THEN UNCHANGED <<faults, missed>> ELSE Missing(h, "read")
    /\ Goto(h, "openList")
    /\ UNCHANGED <<digitalAutoPrototypeMutex, req, list, files, container,
                   result, shown>>

(* Fault: the status of the write is not looked at.                        *)
OpenListUnchecked(h) ==
    /\ pc[h] = "openList"
    /\ \/ list' = <<>> /\ Goto(h, "writeList")
       \/ UNCHANGED list /\ Goto(h, "reply")
    /\ UNCHANGED <<digitalAutoPrototypeMutex, req, pending, files, container,
                   result, shown, faults, missed>>

OpenList(h) ==
    /\ pc[h] = "openList"
    /\ \/ list' = <<>> /\ Goto(h, "writeList")
       \/ UNCHANGED list /\ Goto(h, "fail")
    /\ UNCHANGED <<digitalAutoPrototypeMutex, req, pending, files, container,
                   result, shown, faults, missed>>

(* If another program wrote to the file since it was truncated, the two    *)
(* texts may be mixed, and a reader then parses nothing; neither does it   *)
(* parse a text of which only a part reached the disk.                     *)
WriteList(h) ==
    /\ pc[h] = "writeList"
    /\ \/ /\ list' \in {pending[h]} \cup (IF list = <<>> THEN {} ELSE {<<>>})
          /\ UNCHANGED <<faults, missed>>
       \/ list' \in {list, <<>>} /\ Missing(h, "list")
    /\ Goto(h, IF req[h].run THEN "stopApp" ELSE "reply")
    /\ UNCHANGED <<digitalAutoPrototypeMutex, req, pending, files, container,
                   result, shown>>

(* set-python-code: `dapr stop` is sent to an app that docker runs.        *)
DaprStop(h) ==
    /\ pc[h] = "daprStop"
    /\ Goto(h, "openCode")
    /\ UNCHANGED <<digitalAutoPrototypeMutex, req, list, pending, files,
                   container, result, shown, faults, missed>>

(* Fault: the old container is left where it is.                           *)
StopAppNothing(h) ==
    /\ pc[h] = "stopApp"
    /\ Goto(h, IF req[h].kind = "stop" THEN "reply" ELSE "runApp")
    /\ UNCHANGED <<digitalAutoPrototypeMutex, req, list, pending, files,
                   container, result, shown, faults, missed>>

(* stopApp: docker stop; docker rm.                                        *)
StopApp(h) ==
    /\ pc[h] = "stopApp"
    /\ container' = [container EXCEPT ![req[h].id] = None]
    /\ Goto(h, IF req[h].kind = "stop" THEN "reply" ELSE "runApp")
    /\ UNCHANGED <<digitalAutoPrototypeMutex, req, list, pending, files,
                   result, shown, faults, missed>>

(* startApp: docker run, refused while the name is taken; its status is    *)
(* ignored.                                                                *)
RunApp(h) ==
    /\ pc[h] = "runApp"
    /\ \/ /\ container[req[h].id] = None
          /\ container' = [container EXCEPT ![req[h].id] = Booting]
       \/ UNCHANGED container
    /\ Goto(h, "reply")
    /\ UNCHANGED <<digitalAutoPrototypeMutex, req, list, pending, files,
                   result, shown, faults, missed>>

(* list_prototypes sends what it can read of the list.                     *)
Serve(h) ==
    /\ pc[h] = "serve"
    /\ \E seen \in {list, <<>>} : shown' = [shown EXCEPT ![h] = seen]
    /\ result' = [result EXCEPT ![h] = "sent"]
    /\ Goto(h, "done")
    /\ UNCHANGED <<digitalAutoPrototypeMutex, req, list, pending, files,
                   container, faults, missed>>

Reply(h) ==
    /\ pc[h] = "reply"
    /\ result' = [result EXCEPT ![h] = IF req[h].kind \in {"start", "stop"}
                                         THEN "sent" ELSE "success"]
    /\ Goto(h, IF Locks(h) THEN "unlock" ELSE "done")
    /\ UNCHANGED <<digitalAutoPrototypeMutex, req, list, pending, files,
                   container, shown, faults, missed>>

(* Fault: an early return that keeps the mutex.                            *)
FailLocked(h) ==
    /\ pc[h] = "fail"
    /\ result' = [result EXCEPT ![h] = "fail"]
    /\ Goto(h, "done")
    /\ UNCHANGED <<digitalAutoPrototypeMutex, req, list, pending, files,
                   container, shown, faults, missed>>

Fail(h) ==
    /\ pc[h] = "fail"
    /\ result' = [result EXCEPT ![h] = "fail"]
    /\ Goto(h, IF Locks(h) THEN "unlock" ELSE "done")
    /\ UNCHANGED <<digitalAutoPrototypeMutex, req, list, pending, files,
                   container, shown, faults, missed>>

(* chmod, then digitalAutoPrototypeMutex.unlock().                         *)
Unlock(h) ==
    /\ pc[h] = "unlock"
    /\ digitalAutoPrototypeMutex' = None
    /\ Goto(h, "done")
    /\ UNCHANGED <<req, list, pending, files, container, result, shown, faults,
                   missed>>

(* The interpreter of a fresh container reads main.py from the bind mount. *)
Boot(i) ==
    /\ container[i] = Booting
    /\ container' = [container EXCEPT ![i] = files["code"][i]]
    /\ UNCHANGED <<digitalAutoPrototypeMutex, pc, req, list, pending, files,
                   result, shown, faults, missed>>

(* The app of a container ends by itself.                                  *)
Exit(i) ==
    /\ container[i] \notin {None, Booting, Exited}
    /\ container' = [container EXCEPT ![i] = Exited]
    /\ UNCHANGED <<digitalAutoPrototypeMutex, pc, req, list, pending, files,
                   result, shown, faults, missed>>

(* dk-manager dies (a malformed message dereferences a null field, power   *)
(* is cut) and docker restarts it: the threads and the mutex are gone, the *)
(* files and the containers stay as they are.                              *)
Restart ==
    /\ Fault
    /\ digitalAutoPrototypeMutex' = None
    /\ pc' = [h \in Handlers |-> IF pc[h] \in {"idle", "done"} THEN pc[h] ELSE "lost"]
    /\ UNCHANGED <<req, list, pending, files, container, result, shown, missed>>

HandlerStep(h) ==
    \/ Lock(h) \/ OpenApp(h) \/ WriteApp(h) \/ OpenCode(h) \/ WriteCode(h)
    \/ ReadList(h) \/ OpenList(h) \/ WriteList(h)
    \/ DaprStop(h) \/ StopApp(h) \/ RunApp(h)
    \/ Serve(h) \/ Reply(h) \/ Fail(h) \/ Unlock(h)

Next ==
    \/ \E h \in Handlers : \E r \in Messages : Arrive(h, r)
    \/ \E h \in Handlers : HandlerStep(h)
    \/ \E i \in Ids : Boot(i) \/ Exit(i)
    \/ Restart

Spec == Init /\ [][Next]_vars

(* QThread runs every started handler; nothing obliges the server to send, *)
(* docker to boot a container or dk-manager to die.                        *)
Fairness == \A h \in Handlers : WF_vars(HandlerStep(h))
FairSpec == Spec /\ Fairness
-----------------------------------------------------------------------------
TypeOK ==
    /\ digitalAutoPrototypeMutex \in Handlers \cup {None}
    /\ pc \in [Handlers -> Stages]
    /\ req \in [Handlers -> Messages \cup {NoRequest}]
    /\ list \in Seq(Ids)
    /\ pending \in [Handlers -> Seq(Ids)]
    /\ files \in [FileNames -> [Ids -> Content]]
    /\ container \in [Ids -> Content \cup {Booting, Exited}]
    /\ result \in [Handlers -> {None, "success", "fail", "sent"}]
    /\ shown \in [Handlers -> Seq(Ids)]
    /\ faults \in 0..MaxFaults
    /\ missed \subseteq Handlers \X Slips

(* Deploying the same prototype from several messages at once, in any      *)
(* interleaving and with any failures and restarts in between, never lists *)
(* it twice: the read-modify-write of prototypes.json is serialised.       *)
OneEntryPerId == IsInjective(Registry)

(* The step that answers h with "success".                                 *)
Acks(h) == result[h] # "success" /\ result'[h] = "success"

(* A listed prototype stays listed whatever other deployments do.  It can  *)
(* be lost in three ways only: by a restart between the truncation of      *)
(* prototypes.json and the write, by a deployment that could not read the  *)
(* list and rewrites it, and by a write that did not reach the disk.       *)
NoEntryLost ==
    [][\/ Range(Registry) \subseteq Range(Registry')
       \/ \E h \in Handlers :
             \/ pc[h] = "writeList" /\ pc'[h] = "lost"
             \/ pc[h] = "openList" /\ pc'[h] = "writeList" /\ <<h, "read">> \in missed
             \/ /\ pc[h] = "writeList" /\ pc'[h] # "writeList"
                /\ <<h, "list">> \in missed']_vars

(* The inductive invariant behind these two.  Discipline: whoever is       *)
(* between lock() and unlock() owns the mutex, and only commands that lock *)
(* reach the stages that touch prototypes.json.  ListState: the truncated  *)
(* list is empty, nobody is listed twice, and the list about to be written *)
(* is the current one (nothing, if it could not be read) with at most its  *)
(* own prototype added.  Answers: a deployment that is past the list finds *)
(* its prototype registered unless its write was lost, and nobody is       *)
(* answered before that.                                                   *)
Discipline ==
    \A h \in Handlers :
        /\ Holds(h) => digitalAutoPrototypeMutex = h
        /\ pc[h] \in {"lock", "openApp", "writeApp", "readList", "openList",
                      "writeList", "unlock"} => Locks(h)
        /\ pc[h] = "daprStop" => req[h].kind = "set"
        /\ pc[h] \in {"openCode", "writeCode"} => Locks(h) \/ req[h].kind = "set"
        /\ pc[h] # "idle" => req[h] \in Messages
        /\ pc[h] = "idle" => \A what \in Slips : <<h, what>> \notin missed
ListState ==
    /\ IsInjective(list)
    /\ Writing # {} => list = <<>>
    /\ \A h \in Handlers :
          /\ pc[h] = "openList" =>
                \/ pending[h] = WithPrototype(list, req[h].id)
                \/ /\ <<h, "read">> \in missed
                   /\ pending[h] = WithPrototype(<<>>, req[h].id)
          /\ pc[h] = "writeList" =>
                IsInjective(pending[h]) /\ req[h].id \in Range(pending[h])
Answers ==
    \A h \in Handlers :
        /\ pc[h] \in {"stopApp", "runApp", "reply"} /\ Locks(h) =>
              req[h].id \in Range(list) \/ <<h, "list">> \in missed
        /\ pc[h] \notin {"unlock", "done", "lost"} => result[h] = None
IInv == TypeOK /\ Discipline /\ ListState /\ Answers

(* What main.py may hold once h has truncated it: h's own text; that of a  *)
(* set-python-code message for the same prototype, which takes no lock; or *)
(* no whole text, if such a message is writing or h's text was lost on its *)
(* way to the disk.                                                        *)
Editors(i) ==
    {g \in Handlers : /\ req[g].kind = "set" /\ req[g].id = i
                      /\ pc[g] \notin {"daprStop", "openCode"}}
CodeOf(h) ==
    {h} \cup Editors(req[h].id)
        \cup (IF Editors(req[h].id) = {} /\ <<h, "code">> \notin missed
               THEN {} ELSE {Empty, Torn})

(* When a deployment is answered "success" the files on disk are those of  *)
(* that deployment and never an older one's, in any interleaving: the text *)
(* is whole unless its write was lost, and main.py may be edited meanwhile *)
(* by set-python-code alone.                                               *)
AckedFilesIntact ==
    [][\A h \in Handlers : Acks(h) /\ Locks(h) =>
          LET i == req[h].id IN
          /\ files["code"][i] \in CodeOf(h)
          /\ req[h].kind = "ara" =>
                \/ files["app"][i] = h
                \/ <<h, "app">> \in missed /\ files["app"][i] \in {Empty, Torn}]_vars

(* When a deployment with run_after_deploy is answered "success", no       *)
(* container of that prototype is left running older code, although start  *)
(* and stop messages for it take no lock: whatever runs loaded the code    *)
(* that was just deployed (or edited meanwhile), or is about to load it.   *)
AckedRunIsNew ==
    [][\A h \in Handlers : Acks(h) /\ req[h].run =>
          container[req[h].id] \in {None, Exited, Booting} \cup CodeOf(h)]_vars

(* A list_prototypes reply, read without the lock, shows either the whole  *)
(* registry or nothing at all (the file was truncated at that moment):     *)
(* never a part of it, never an id that is not registered.                 *)
ListIsAllOrNothing ==
    [][\A h \in Handlers : pc[h] = "serve" /\ pc'[h] = "done" =>
          shown'[h] \in {<<>>, Registry}]_vars

(* Every message the kit accepted is answered and gives the lock back,     *)
(* unless a restart takes its thread away.                                 *)
EveryMessageAnswered ==
    \A h \in Handlers : pc[h] # "idle" ~> pc[h] \in {"done", "lost"}

(* The handlers, their mutex and their truncate-then-write files implement *)
(* the atomic registry: a prototype is registered at the instant           *)
(* prototypes.json is truncated to receive it, and answered afterwards.    *)
(* Its faults are the reads and writes of the list that failed unnoticed.  *)
Acked == {req[h].id : h \in {g \in Handlers : Locks(g) /\ result[g] = "success"}}
Faulty == {req[h].id : h \in {g \in Handlers : \/ <<g, "read">> \in missed
                                                \/ <<g, "list">> \in missed}}
Abstract == INSTANCE PrototypeRegistry
    WITH registry <- Registry, acked <- Acked, faulty <- Faulty,
         MayCrash <- MaxFaults > 0
ImplementsRegistry == Abstract!Spec
=============================================================================
