----------------------------- MODULE VssMapping -----------------------------
(***************************************************************************)
(* The VSS commands of dk-manager: vss_mapping, vss_mapping_factory_reset  *)
(* and set_support_apis, each served by a thread of its own.               *)
(*                                                                         *)
(* A mapping request adds, changes and deletes vehicle APIs.  They live in *)
(* the overlay; from it vss.json and the vehicle model are generated, then *)
(* the databroker and the CAN feeders are restarted and the list of        *)
(* supported APIs is brought up to date and announced to the server.  A    *)
(* factory reset empties all of that.  Mapping and reset each have a       *)
(* mutex, but not the same one, so a mapping and a reset may overlap;      *)
(* set_support_apis has none.                                              *)
(*                                                                         *)
(* A kind of message is a path through the stages below (After); a stage   *)
(* is a step of the thread, and steps of different threads interleave.  A  *)
(* stage may fail: some failures end the request (MayFail), others nobody  *)
(* looks at, and the request goes on to succeed (Slip).                    *)
(***************************************************************************)
EXTENDS Naturals, Sequences

CONSTANTS
    Handlers,     \* the handler threads, one per message
    Vss,          \* the vehicle APIs that can be mapped
    Signals,      \* CAN signals
    Feeds,        \* pairs of a dbc file and a CAN channel
    FrameOf,      \* FrameOf[s]: all signals of the CAN frame of s in the dbc
    Within,       \* <<m, n>>: the name m occurs in the name n (APIs, signals)
    Mappings,     \* the item lists a mapping request may carry
    ApiLists,     \* the lists a set_support_apis request may carry
    Kinds,        \* the commands sent in this instance
    MayFail,      \* the stages at which a failure may end the request
    MaxFaults,    \* bound on the failures nobody notices
    Orchestrator, \* built with USING_DK_ORCHESTRATOR (a zone controller)
    NoSignal, Absent, Torn, None, Stopped

AllKinds == {"map", "reset", "set"}

ASSUME KindsAssumption == Kinds \subseteq AllKinds
ASSUME FaultsAssumption == MaxFaults \in Nat
ASSUME FrameAssumption == FrameOf \in [Signals -> SUBSET Signals]
ASSUME WithinAssumption ==
    /\ Within \subseteq (Vss \X Vss) \cup (Signals \X Signals)
    /\ \A n \in Vss \cup Signals : <<n, n>> \in Within
ASSUME OrchestratorAssumption == Orchestrator \in BOOLEAN
ASSUME MarkersAssumption ==
    /\ NoSignal \notin Signals /\ Absent \notin Signals \cup {NoSignal}
    /\ Torn \notin [Vss -> Signals \cup {NoSignal, Absent}]
    /\ None \notin Handlers

Item == [vss : Vss, signal : Signals \cup {NoSignal}, feed : Feeds, deleted : BOOLEAN]
ASSUME MappingsAssumption == Mappings \subseteq Seq(Item) /\ ApiLists \subseteq SUBSET Vss

VARIABLES
    vssMappingMutex, vssMappingFactoryResetMutex,
    pc, req,
    mem,     \* the local variables of each handler
    disk,    \* the files of dk-manager that these commands share
    link,    \* what was sent to the zone controller and has not arrived
    zone,    \* the copies the zone controller has
    broker,  \* the vss.json the databroker was started with, or Stopped
    feeders, \* feeders[f]: the CAN feeder processes that run for f
    result,  \* what each handler answered
    server,  \* the APIs the server was last told
    (* History, which no action depends on but for the bound:              *)
    faults,   \* how many failures went unnoticed
    flawed,   \* the requests that had one, or shared the files with another
    last,     \* the mapping or reset that took its mutex last
    lastStop, \* whether the last stop of the feeders "missed" them, or was
              \* "shared" by a request that had stopped, not yet started them
    tainted   \* whether, since the last flawless factory reset, a request
              \* failed, shared the overlay, or failed unnoticed to write it
              \* or the list; created an API that it had deleted itself; or
              \* set_support_apis replaced the list

mutexes == <<vssMappingMutex, vssMappingFactoryResetMutex>>
zoneSide == <<link, zone>>
answers == <<result, server>>
history == <<faults, flawed, last, lastStop, tainted>>
vars == <<mutexes, pc, req, mem, disk, zoneSide, broker, feeders, answers, history>>

-----------------------------------------------------------------------------
(* The overlay: the CAN signal of every mapped API.                        *)
EmptyOverlay == [v \in Vss |-> Absent]
Apis(overlay) == {v \in Vss : overlay[v] # Absent}
Overlays == [Vss -> Signals \cup {NoSignal, Absent}]

(* overlayContent.contains(item.vss), line by line: every entry whose name *)
(* contains the name of the item is taken for the item.                    *)
Hits(overlay, v) == {w \in Apis(overlay) : <<v, w>> \in Within}

(* Fault: deleting an item leaves its line, without a signal, behind.      *)
ChangedKeepsLine(overlay, item) ==
    LET hit == Hits(overlay, item.vss)
    IN  IF hit = {} /\ item.deleted THEN overlay
        ELSE [w \in Vss |-> IF w \notin hit \cup {item.vss} THEN overlay[w]
                            ELSE IF item.deleted THEN None ELSE item.signal]

(* The overlay after one item: update or delete what is hit, else create.  *)
Changed(overlay, item) ==
    LET hit == Hits(overlay, item.vss)
    IN  CASE hit # {} ->
               [w \in Vss |-> IF w \notin hit THEN overlay[w]
                              ELSE IF item.deleted THEN Absent ELSE item.signal]
          [] hit = {} /\ ~item.deleted -> [overlay EXCEPT ![item.vss] = item.signal]
          [] hit = {} /\ item.deleted -> overlay

(* if (!data.contains(name)) append: a name that occurs in a listed name   *)
(* counts as listed.                                                       *)
Mentioned(m, listed) == \E n \in listed : <<m, n>> \in Within
WithNames(listed, new) == listed \cup {m \in new : ~Mentioned(m, listed)}

Blank == [overlay |-> EmptyOverlay, supported |-> {}, dbcCan |-> {},
          defaults |-> {}, vssJson |-> EmptyOverlay, model |-> EmptyOverlay,
          startScript |-> {}, stopScript |-> FALSE]
Copies(files) == [vssJson |-> files.vssJson, defaults |-> files.defaults,
                  startScript |-> files.startScript, stopScript |-> files.stopScript]

(* addedVssMappingList and deleteVssMappingList: how often each API is in  *)
(* (a deletion counts once, even if its name is found in several entries). *)
Nobody == [v \in Vss |-> 0]
Counted(list, v, appended) == [list EXCEPT ![v] = IF appended THEN @ + 1 ELSE @]
NoMem == [item |-> 1, base |-> EmptyOverlay, dbcCanList |-> {}, added |-> Nobody,
          deleted |-> Nobody, apis |-> {}, ok |-> TRUE]

Request ==
    [kind : Kinds \cap {"map"}, items : Mappings, apis : {{}}]
    \cup [kind : Kinds \cap {"set"}, items : {<<>>}, apis : ApiLists]
    \cup [kind : Kinds \cap {"reset"}, items : {<<>>}, apis : {{}}]
NoRequest == [kind |-> "none", items |-> <<>>, apis |-> {}]

(* The stage that follows each stage, for each command.                    *)
After == [
    map |-> [
        lock |-> "save", save |-> "item", item |-> "flush", flush |-> "item",
        json |-> "model", model |-> "scripts", scripts |-> "stopBroker",
        stopBroker |-> "stopFeeder", stopFeeder |-> "send", send |-> "broker",
        broker |-> "feeder", feeder |-> "supported", supported |-> "unlock",
        unlock |-> "answer", answer |-> "readApis", readApis |-> "tell", tell |-> "done"],
    reset |-> [
        lock |-> "stopBroker", stopBroker |-> "stopFeeder",
        stopFeeder |-> "clear", send |-> "json", json |-> "model",
        model |-> "broker", broker |-> "feeder", feeder |-> "unlock",
        unlock |-> "answer", answer |-> "readApis", readApis |-> "tell", tell |-> "done"],
    set |-> [
        open |-> "close", close |-> "answer",
        answer |-> "readApis", readApis |-> "tell", tell |-> "done"]]
Stages == {"idle", "done", "clear"} \cup UNION {DOMAIN After[k] : k \in AllKinds}

(* What a factory reset empties, in this order, one shell command each.    *)
Cleared == <<"dbcCan", "supported", "overlay", "defaults", "startScript">>

At(h, stage) == pc[h] = stage
Goto(h, stage) == pc' = [pc EXCEPT ![h] = stage]
Continue(h) == Goto(h, After[req[h].kind][pc[h]])

(* Between its lock and its unlock.                                        *)
Unlocked == {"idle", "lock", "open", "close", "answer", "readApis", "tell", "done"}
Holding(h) == pc[h] \notin Unlocked
AtRest == \A h \in Handlers : ~Holding(h)

(* Between its stop and its start of the feeders.                          *)
Restarting(h) ==
    \/ pc[h] \in {"clear", "send", "broker", "feeder"}
    \/ req[h].kind = "reset" /\ pc[h] \in {"json", "model"}

(* An early "return false": the mutex is released, the rest is skipped.    *)
Abort(h) == Goto(h, "unlock") /\ mem' = [mem EXCEPT ![h].ok = FALSE]
GiveUp(h) == pc[h] \in MayFail /\ Abort(h)

(* A failure that nobody looks at (an exit status, a file that is not      *)
(* open, a stream that could not write), and none.                         *)
Slip(h) == /\ faults < MaxFaults /\ faults' = faults + 1
           /\ flawed' = flawed \cup {h}
NoSlip == UNCHANGED <<faults, flawed>>
-----------------------------------------------------------------------------
Init ==
    /\ vssMappingMutex = None /\ vssMappingFactoryResetMutex = None
    /\ pc = [h \in Handlers |-> "idle"]
    /\ req = [h \in Handlers |-> NoRequest]
    /\ mem = [h \in Handlers |-> NoMem]
    /\ disk = Blank
    /\ link = <<>> /\ zone = Copies(Blank)
    /\ broker = Stopped
    /\ feeders = [f \in Feeds |-> 0]
    /\ result = [h \in Handlers |-> None]
    /\ server = {}
    /\ faults = 0 /\ flawed = {} /\ last = None /\ lastStop = "alone" /\ tainted = FALSE

(* OnMessageToKit starts a thread for the message.                         *)
Arrive(h, r) ==
    /\ pc[h] = "idle"
    /\ req' = [req EXCEPT ![h] = r]
    /\ Goto(h, IF r.kind = "set" THEN "open" ELSE "lock")
    /\ UNCHANGED <<mutexes, mem, disk, zoneSide, broker, feeders, answers, history>>

(* The two commands do not wait for each other: one may start beside the   *)
(* other.                                                                  *)
Beside(h) == {g \in Handlers : Holding(g) /\ req[g].kind # req[h].kind}
Begin(h) ==
    /\ last' = h
    /\ flawed' = IF Beside(h) = {} THEN flawed ELSE flawed \cup {h} \cup Beside(h)
    /\ tainted' = (tainted \/ Beside(h) # {})
    /\ Continue(h)
    /\ UNCHANGED <<req, mem, disk, zoneSide, broker, feeders, answers, faults, lastStop>>

(* Fault: nobody waits for the mutex.                                      *)
LockUnguarded(h) == At(h, "lock") /\ Begin(h) /\ UNCHANGED mutexes

Lock(h) ==
    /\ At(h, "lock")
    /\ \/ /\ req[h].kind = "map" /\ vssMappingMutex = None
          /\ vssMappingMutex' = h
          /\ UNCHANGED vssMappingFactoryResetMutex
       \/ /\ req[h].kind = "reset" /\ vssMappingFactoryResetMutex = None
          /\ vssMappingFactoryResetMutex' = h
          /\ UNCHANGED vssMappingMutex
    /\ Begin(h)

(* Read the dbc/channel list; save the configuration and the dbc file; open *)
(* the overlay.  The list may not open, nor the configuration when it is   *)
(* read back.                                                              *)
Save(h) ==
    LET read == [mem[h] EXCEPT !.dbcCanList = disk.dbcCan]
    IN  /\ At(h, "save")
        /\ \/ Continue(h) /\ mem' = [mem EXCEPT ![h] = read] /\ NoSlip
           \/ GiveUp(h) /\ NoSlip
           \/ /\ Continue(h) /\ Slip(h)
              /\ \/ UNCHANGED mem
                 \/ mem' = [mem EXCEPT ![h] =
                               [read EXCEPT !.item = Len(req[h].items) + 1]]
        /\ UNCHANGED <<mutexes, req, disk, zoneSide, broker, feeders, answers,
                       last, lastStop, tainted>>

(* One turn of the loop over the items reads the overlay ...               *)
ReadOverlay(h) ==
    /\ At(h, "item")
    /\ IF mem[h].item > Len(req[h].items)
         THEN Goto(h, "json") /\ UNCHANGED mem
         ELSE Continue(h) /\ mem' = [mem EXCEPT ![h].base = disk.overlay]
    /\ UNCHANGED <<mutexes, req, disk, zoneSide, broker, feeders, answers, history>>

(* ... and writes it back changed.  An item with a CAN signal also brings  *)
(* its feed and default values for the signals of its frame, unless the    *)
(* dbc file cannot be opened.  If the file changed under the open stream   *)
(* the two texts are mixed.  Neither file need be written: the overlay     *)
(* stays, is emptied or cut off, the default values stay or are emptied.   *)
FlushOverlay(h) ==
    LET m == mem[h]
        item == req[h].items[m.item]
        hit == m.base # Torn /\ Hits(m.base, item.vss) # {}
        valid == m.base # Torn /\ (hit \/ ~item.deleted)
        onBus == valid /\ item.signal # NoSignal
        mixed == m.base = Torn \/ m.base # disk.overlay
        overlay == IF ~valid THEN disk.overlay
                   ELSE IF mixed THEN Torn ELSE Changed(m.base, item)
        defaults == IF onBus THEN WithNames(disk.defaults, FrameOf[item.signal])
                    ELSE disk.defaults
        next == [m EXCEPT
            !.item = @ + 1,
            !.added = Counted(@, item.vss, valid /\ ~hit),
            !.deleted = Counted(@, item.vss, hit /\ item.deleted),
            !.dbcCanList = IF onBus THEN @ \cup {item.feed} ELSE @]
    IN  /\ At(h, "flush")
        /\ \/ /\ Continue(h) /\ mem' = [mem EXCEPT ![h] = next] /\ NoSlip
              /\ disk' = [disk EXCEPT !.overlay = overlay, !.defaults = defaults]
              /\ tainted' = (tainted \/ (valid /\ ~hit /\ m.deleted[item.vss] > 0))
           \/ /\ onBus /\ GiveUp(h) /\ NoSlip
              /\ disk' = [disk EXCEPT !.overlay = overlay]
              /\ tainted' = TRUE
           \/ /\ Continue(h) /\ mem' = [mem EXCEPT ![h] = next]
              /\ valid /\ Slip(h) /\ tainted' = TRUE
              /\ \/ \E cut \in {disk.overlay, EmptyOverlay, Torn} :
                       disk' = [disk EXCEPT !.overlay = cut, !.defaults = defaults]
                 \/ \E cut \in {disk.defaults, {}} :
                       disk' = [disk EXCEPT !.overlay = overlay, !.defaults = cut]
        /\ UNCHANGED <<mutexes, req, zoneSide, broker, feeders, answers, last, lastStop>>

(* GenerateVssJson: vspec2json rejects an overlay that is not well formed. *)
GenerateVssJson(h) ==
    /\ At(h, "json")
    /\ \/ /\ disk.overlay # Torn
          /\ disk' = [disk EXCEPT !.vssJson = disk.overlay]
          /\ Continue(h) /\ UNCHANGED mem
       \/ GiveUp(h) /\ UNCHANGED disk
       \/ disk.overlay = Torn /\ Abort(h) /\ UNCHANGED disk
    /\ UNCHANGED <<mutexes, req, zoneSide, broker, feeders, answers, history>>

GenerateVehicleModel(h) ==
    /\ At(h, "model")
    /\ \/ /\ disk' = [disk EXCEPT !.model = disk.vssJson]
          /\ Continue(h) /\ UNCHANGED mem
       \/ GiveUp(h) /\ UNCHANGED disk
    /\ UNCHANGED <<mutexes, req, zoneSide, broker, feeders, answers, history>>

(* Fault: the dbc/channel list is not saved.                               *)
WriteScriptsOnly(h) ==
    /\ At(h, "scripts")
    /\ disk' = [disk EXCEPT !.stopScript = TRUE, !.startScript = mem[h].dbcCanList]
    /\ Continue(h)
    /\ UNCHANGED <<mutexes, req, mem, zoneSide, broker, feeders, answers, history>>

(* The stop script, the dbc/channel list and the start script built on it. *)
(* Each may stay as it was or end up empty.                                *)
WriteScripts(h) ==
    LET written == [disk EXCEPT !.stopScript = TRUE,
                                !.dbcCan = mem[h].dbcCanList,
                                !.startScript = mem[h].dbcCanList]
    IN  /\ At(h, "scripts")
        /\ \/ disk' = written /\ NoSlip
           \/ /\ Slip(h)
              /\ \E file \in {"stopScript", "dbcCan", "startScript"} :
                    disk' \in {[written EXCEPT ![file] = disk[file]],
                               [written EXCEPT ![file] = Blank[file]]}
        /\ Continue(h)
        /\ UNCHANGED <<mutexes, req, mem, zoneSide, broker, feeders, answers,
                       last, lastStop, tainted>>

(* StopVehicleDatabroker (the dapr stop of every prototype before it finds *)
(* no dapr app: prototypes run in docker).                                 *)
StopVehicleDatabroker(h) ==
    /\ At(h, "stopBroker")
    /\ \/ broker' = Stopped /\ NoSlip
       \/ UNCHANGED broker /\ Slip(h)
    /\ Continue(h)
    /\ UNCHANGED <<mutexes, req, mem, disk, zoneSide, feeders, answers,
                   last, lastStop, tainted>>

(* m_orchestrator->SendCmd and SendFile: emitted, and never looked after.  *)
Message(h, what, files) == [from |-> h, what |-> what, files |-> files]
Emit(messages) == link' = link \o messages /\ UNCHANGED zone

(* Running the stop script, where there is one, ends every feeder.         *)
NoFeeder == \A f \in Feeds : feeders[f] = 0
StopFeeders(script, others) ==
    /\ feeders' = IF script THEN [f \in Feeds |-> 0] ELSE feeders
    /\ lastStop' = IF ~script /\ ~NoFeeder THEN "missed"
                   ELSE IF \E g \in others : Restarting(g) THEN "shared" ELSE "alone"
StartFeeders(script) ==
    feeders' = [f \in Feeds |-> IF f \in script THEN feeders[f] + 1 ELSE feeders[f]]

(* Fault: the stop script is not run.                                      *)
StopFeederNothing(h) ==
    /\ At(h, "stopFeeder")
    /\ Continue(h)
    /\ UNCHANGED <<mutexes, req, mem, disk, zoneSide, broker, feeders, answers, history>>

(* StopKuksaFeeder runs the stop script, or tells the zone controller to.  *)
(* Before the first mapping there is none to run.                          *)
StopKuksaFeeder(h) ==
    /\ At(h, "stopFeeder")
    /\ \/ /\ Orchestrator
          /\ Emit(<<Message(h, "stop", Copies(Blank))>>)
          /\ NoSlip /\ UNCHANGED <<feeders, lastStop>>
       \/ /\ ~Orchestrator
          /\ StopFeeders(disk.stopScript, Handlers \ {h})
          /\ flawed' = IF lastStop' = "missed" THEN flawed \cup {h} ELSE flawed
          /\ UNCHANGED <<zoneSide, faults>>
       \/ /\ ~Orchestrator /\ Slip(h)
          /\ lastStop' = "missed" /\ UNCHANGED <<zoneSide, feeders>>
    /\ Continue(h)
    /\ UNCHANGED <<mutexes, req, mem, disk, broker, answers, last, tainted>>

ClearNext(h) ==
    LET n == mem[h].item
        file == Cleared[n]
    IN  /\ At(h, "clear")
        /\ \/ disk' = [disk EXCEPT ![file] = Blank[file]] /\ NoSlip
           \/ UNCHANGED disk /\ Slip(h)
        /\ mem' = [mem EXCEPT ![h].item = n + 1]
        /\ Goto(h, IF n = Len(Cleared) THEN "send" ELSE "clear")
        /\ UNCHANGED <<mutexes, req, zoneSide, broker, feeders, answers,
                       last, lastStop, tainted>>

(* One message for each file, in the order of the code (but for the dbc    *)
(* file, which is not told apart here).                                    *)
SentFiles == <<"vssJson", "defaults", "stopScript", "startScript">>
FileMessage(h, file, content) ==
    Message(h, file, [Copies(Blank) EXCEPT ![file] = content[file]])
FileMessages(h, content) ==
    [n \in 1..Len(SentFiles) |-> FileMessage(h, SentFiles[n], content)]

(* Fault: the scripts are not sent along.                                  *)
SendFilesNoScripts(h) ==
    /\ At(h, "send")
    /\ IF Orchestrator THEN Emit(SubSeq(FileMessages(h, disk), 1, 2))
       ELSE UNCHANGED zoneSide
    /\ Continue(h)
    /\ UNCHANGED <<mutexes, req, mem, disk, broker, feeders, answers, history>>

(* m_orchestrator->SendFile, where there is an orchestrator: a file that   *)
(* cannot be read goes out empty.                                          *)
SendFiles(h) ==
    /\ At(h, "send")
    /\ \/ Orchestrator /\ Emit(FileMessages(h, disk)) /\ NoSlip
       \/ /\ Orchestrator /\ Slip(h)
          /\ \E file \in DOMAIN Copies(Blank) :
                Emit(FileMessages(h, [disk EXCEPT ![file] = Blank[file]]))
       \/ ~Orchestrator /\ UNCHANGED zoneSide /\ NoSlip
    /\ Continue(h)
    /\ UNCHANGED <<mutexes, req, mem, disk, broker, feeders, answers,
                   last, lastStop, tainted>>

(* docker run --name vehicledatabroker in the background: nobody looks     *)
(* whether it came up, and it does not if one of that name is there.       *)
StartVehicleDatabroker(h) ==
    /\ At(h, "broker")
    /\ \/ broker' = (IF broker = Stopped THEN disk.vssJson ELSE broker) /\ NoSlip
       \/ UNCHANGED broker /\ Slip(h)
    /\ Continue(h)
    /\ UNCHANGED <<mutexes, req, mem, disk, zoneSide, feeders, answers,
                   last, lastStop, tainted>>

(* Only the build with an orchestrator looks for a running databroker.     *)
StartKuksaFeeder(h) ==
    /\ At(h, "feeder")
    /\ \/ /\ Orchestrator /\ broker # Stopped
          /\ Emit(<<Message(h, "start", Copies(Blank))>>)
          /\ UNCHANGED feeders /\ NoSlip
       \/ /\ ~Orchestrator
          /\ StartFeeders(disk.startScript)
          /\ UNCHANGED zoneSide /\ NoSlip
       \/ /\ Orchestrator /\ broker = Stopped
          /\ UNCHANGED <<zoneSide, feeders>> /\ NoSlip
       \/ UNCHANGED <<zoneSide, feeders>> /\ Slip(h)
    /\ Continue(h)
    /\ UNCHANGED <<mutexes, req, mem, disk, broker, answers, last, lastStop, tainted>>

(* The zone controller takes the next message: a file replaces its copy, a *)
(* command runs the script that is there.                                  *)
Deliver ==
    LET m == Head(link)
    IN  /\ link # <<>>
        /\ link' = Tail(link)
        /\ \/ m.what = "stop" /\ StopFeeders(zone.stopScript, {}) /\ UNCHANGED zone
           \/ m.what = "start" /\ StartFeeders(zone.startScript)
              /\ UNCHANGED <<zone, lastStop>>
           \/ /\ m.what \in DOMAIN zone
              /\ zone' = [zone EXCEPT ![m.what] = m.files[m.what]]
              /\ UNCHANGED <<feeders, lastStop>>
        /\ UNCHANGED <<mutexes, pc, req, mem, disk, broker, answers, faults, flawed, last,
                       tainted>>

(* The connection loses a message.                                         *)
Lose ==
    /\ link # <<>>
    /\ link' = Tail(link)
    /\ Slip(Head(link).from)
    /\ UNCHANGED <<mutexes, pc, req, mem, disk, zone, broker, feeders, answers, last,
                   lastStop, tainted>>

(* supportedvssapi.json: every creation appends its API unless the text    *)
(* that was read mentions it; then every deletion takes one entry out.  So *)
(* an API that was listed stays until it is deleted, even if the request   *)
(* creates it again, and another is listed if it was created more often    *)
(* than deleted (once: with names apart it cannot be by more than one).    *)
Supported(listed, added, deleted) ==
    {v \in listed : deleted[v] = 0}
        \cup {v \in Vss : ~Mentioned(v, listed) /\ added[v] > deleted[v]}

(* Fault: deleted APIs stay in the list.                                   *)
UpdateSupportedAdds(h) ==
    /\ At(h, "supported")
    /\ disk' = [disk EXCEPT !.supported = Supported(@, mem[h].added, Nobody)]
    /\ Continue(h)
    /\ UNCHANGED <<mutexes, req, mem, zoneSide, broker, feeders, answers, history>>

(* The file may not open, or not take the new list.                        *)
UpdateSupported(h) ==
    /\ At(h, "supported")
    /\ \/ /\ disk' = [disk EXCEPT
                 !.supported = Supported(@, mem[h].added, mem[h].deleted)]
          /\ NoSlip /\ UNCHANGED tainted
       \/ /\ \E cut \in {disk.supported, {}} : disk' = [disk EXCEPT !.supported = cut]
          /\ Slip(h) /\ tainted' = TRUE
    /\ Continue(h)
    /\ UNCHANGED <<mutexes, req, mem, zoneSide, broker, feeders, answers, last, lastStop>>

(* Fault: a failed request keeps its mutex.                                *)
UnlockOnSuccess(h) ==
    /\ At(h, "unlock")
    /\ IF ~mem[h].ok THEN UNCHANGED mutexes
       ELSE IF req[h].kind = "map"
         THEN vssMappingMutex' = None /\ UNCHANGED vssMappingFactoryResetMutex
         ELSE vssMappingFactoryResetMutex' = None /\ UNCHANGED vssMappingMutex
    /\ tainted' = (tainted \/ ~mem[h].ok)
    /\ Continue(h)
    /\ UNCHANGED <<req, mem, disk, zoneSide, broker, feeders, answers, faults, flawed,
                   last, lastStop>>

Unlock(h) ==
    /\ At(h, "unlock")
    /\ IF req[h].kind = "map"
         THEN vssMappingMutex' = None /\ UNCHANGED vssMappingFactoryResetMutex
         ELSE vssMappingFactoryResetMutex' = None /\ UNCHANGED vssMappingMutex
    /\ tainted' = IF ~mem[h].ok THEN TRUE
                  ELSE IF req[h].kind = "reset" THEN h \in flawed ELSE tainted
    /\ Continue(h)
    /\ UNCHANGED <<req, mem, disk, zoneSide, broker, feeders, answers, faults, flawed,
                   last, lastStop>>

(* set_support_apis writes into the files of a reset that is under way.    *)
Disturbed == flawed \cup {g \in Handlers : Holding(g) /\ req[g].kind = "reset"}

(* WriteFile truncates supportedvssapi.json or fails ...                   *)
OpenSupported(h) ==
    /\ At(h, "open")
    /\ \/ Continue(h) /\ disk' = [disk EXCEPT !.supported = {}]
          /\ tainted' = TRUE /\ flawed' = Disturbed /\ UNCHANGED mem
       \/ /\ "open" \in MayFail /\ Goto(h, "answer")
          /\ mem' = [mem EXCEPT ![h].ok = FALSE]
          /\ UNCHANGED <<disk, flawed, tainted>>
    /\ UNCHANGED <<mutexes, req, zoneSide, broker, feeders, answers, faults, last,
                   lastStop>>

(* ... and closes it with the new list (a mixture, which no reader can     *)
(* parse, if another command wrote to it meanwhile; nothing, if the write  *)
(* fails unnoticed).                                                       *)
CloseSupported(h) ==
    /\ At(h, "close")
    /\ \/ disk' = [disk EXCEPT !.supported = req[h].apis] /\ UNCHANGED faults
       \/ /\ disk.supported # {} /\ disk' = [disk EXCEPT !.supported = {}]
          /\ UNCHANGED faults
       \/ /\ faults < MaxFaults /\ faults' = faults + 1
          /\ disk' = [disk EXCEPT !.supported = {}]
    /\ tainted' = TRUE /\ flawed' = Disturbed
    /\ Continue(h)
    /\ UNCHANGED <<mutexes, req, mem, zoneSide, broker, feeders, answers, last, lastStop>>

(* The answer to the client, then updateSupportedApiList2Server: the list  *)
(* is read from disk (nothing, if it does not open), then sent.            *)
Answer(h) ==
    /\ At(h, "answer")
    /\ result' = [result EXCEPT ![h] = IF mem[h].ok THEN "true" ELSE "false"]
    /\ Continue(h)
    /\ UNCHANGED <<mutexes, req, mem, disk, zoneSide, broker, feeders, server, history>>

ReadApis(h) ==
    /\ At(h, "readApis")
    /\ \/ mem' = [mem EXCEPT ![h].apis = disk.supported] /\ UNCHANGED faults
       \/ faults < MaxFaults /\ faults' = faults + 1 /\ UNCHANGED mem
    /\ Continue(h)
    /\ UNCHANGED <<mutexes, req, disk, zoneSide, broker, feeders, answers, flawed, last,
                   lastStop, tainted>>

TellServer(h) ==
    /\ At(h, "tell")
    /\ server' = mem[h].apis
    /\ Continue(h)
    /\ UNCHANGED <<mutexes, req, mem, disk, zoneSide, broker, feeders, result, history>>

HandlerStep(h) ==
    \/ Lock(h) \/ Save(h) \/ ReadOverlay(h) \/ FlushOverlay(h)
    \/ GenerateVssJson(h) \/ GenerateVehicleModel(h) \/ WriteScripts(h)
    \/ StopVehicleDatabroker(h) \/ StopKuksaFeeder(h) \/ ClearNext(h)
    \/ SendFiles(h) \/ StartVehicleDatabroker(h) \/ StartKuksaFeeder(h)
    \/ UpdateSupported(h) \/ Unlock(h) \/ OpenSupported(h) \/ CloseSupported(h)
    \/ Answer(h) \/ ReadApis(h) \/ TellServer(h)

Next ==
    \/ \E h \in Handlers : \E r \in Request : Arrive(h, r)
    \/ \E h \in Handlers : HandlerStep(h)
    \/ Deliver
    \/ Lose

Spec == Init /\ [][Next]_vars

(* QThread runs every started handler; the server owes no message, and     *)
(* nobody waits for the zone controller.                                   *)
Fairness == \A h \in Handlers : WF_vars(HandlerStep(h))
FairSpec == Spec /\ Fairness
-----------------------------------------------------------------------------
Memory == [item : Nat, base : Overlays \cup {Torn}, dbcCanList : SUBSET Feeds,
           added : [Vss -> Nat], deleted : [Vss -> Nat], apis : SUBSET Vss, ok : BOOLEAN]
Files == [overlay : Overlays \cup {Torn}, supported : SUBSET Vss, dbcCan : SUBSET Feeds,
          defaults : SUBSET Signals, vssJson : Overlays, model : Overlays,
          startScript : SUBSET Feeds, stopScript : BOOLEAN]
ZoneFiles == [vssJson : Overlays, defaults : SUBSET Signals,
              startScript : SUBSET Feeds, stopScript : BOOLEAN]
Messages == [from : Handlers, files : ZoneFiles,
             what : {"stop", "start", "vssJson", "defaults", "startScript", "stopScript"}]

TypeOK ==
    /\ vssMappingMutex \in Handlers \cup {None}
    /\ vssMappingFactoryResetMutex \in Handlers \cup {None}
    /\ pc \in [Handlers -> Stages]
    /\ req \in [Handlers -> Request \cup {NoRequest}]
    /\ mem \in [Handlers -> Memory]
    /\ disk \in Files
    /\ link \in Seq(Messages) /\ (~Orchestrator => link = <<>>)
    /\ zone \in ZoneFiles
    /\ broker \in Overlays \cup {Stopped}
    /\ feeders \in [Feeds -> Nat]
    /\ result \in [Handlers -> {None, "true", "false"}]
    /\ server \in SUBSET Vss
    /\ faults \in Nat /\ flawed \in SUBSET Handlers
    /\ last \in Handlers \cup {None} /\ lastStop \in {"alone", "shared", "missed"}
    /\ tainted \in BOOLEAN

(* Where dk-manager runs the feeders itself, none is started twice on the  *)
(* same channel, however mapping requests and resets follow one another:   *)
(* whoever starts the feeders has stopped all of them before.  Where a     *)
(* mapping and a reset overlap there may be two, but never more.  Both as  *)
(* long as the last stop was carried out, whatever failed before it.       *)
OneFeederPerFeed ==
    ~Orchestrator =>
        \A f \in Feeds : /\ lastStop = "alone" => feeders[f] <= 1
                         /\ lastStop = "shared" => feeders[f] <= 2

Succeeds(h) == pc[h] = "unlock" /\ pc'[h] # "unlock" /\ mem[h].ok

(* A request that succeeds leaves the generated artifacts in step with the *)
(* overlay, whatever earlier requests left behind that failed half way,    *)
(* failed in part without noticing or overlapped: vss.json, the vehicle    *)
(* model and the databroker come from this overlay, and the start script   *)
(* covers the recorded channels.  A reset leaves, besides, nothing of any  *)
(* earlier mapping.  What a request cannot promise is what it failed       *)
(* itself to do without noticing, or did along with an overlapping one.    *)
SuccessHeals ==
    [][\A h \in Handlers : Succeeds(h) /\ h \notin flawed =>
          /\ disk.vssJson = disk.overlay
          /\ disk.model = disk.overlay
          /\ broker = disk.overlay
          /\ disk.startScript = disk.dbcCan
          /\ req[h].kind = "reset" =>
                disk = [Blank EXCEPT !.stopScript = disk.stopScript]]_vars

(* As long as no request fails, noticed or not, where the overlay and the  *)
(* list are concerned, no two overlap, and none creates an API that it has *)
(* itself deleted before (which leaves the API mapped and not listed), the *)
(* list of supported APIs is the list of the mapped ones whenever no       *)
(* mapping or reset is under way, whatever mixture of creations, updates   *)
(* and deletions was requested, and every signal that shares a CAN frame   *)
(* with a mapped one has a default value.                                  *)
SupportedMatches ==
    AtRest /\ ~tainted =>
        /\ disk.supported = Apis(disk.overlay)
        /\ \A v \in Apis(disk.overlay) :
              disk.overlay[v] # NoSignal => FrameOf[disk.overlay[v]] \subseteq disk.defaults

(* Where dk-manager runs the feeders itself, a request that succeeds, with *)
(* no step of its own failed unnoticed and without another at its side,    *)
(* leaves exactly the feeders of the new mapping running, one for each     *)
(* recorded channel and none of an earlier mapping, however many of them   *)
(* earlier requests had left.                                              *)
FeedersFollowMapping ==
    [][\A h \in Handlers : Succeeds(h) /\ h \notin flawed /\ ~Orchestrator =>
          feeders = [f \in Feeds |-> IF f \in disk.dbcCan THEN 1 ELSE 0]]_vars

(* Where they run on the zone controller, this holds once everything sent  *)
(* has arrived, if nothing of the last request was lost and the last stop  *)
(* found its script there (a script lost with an earlier request leaves    *)
(* the feeders running): its files are the files of dk-manager (but for    *)
(* vss.json after a reset, which is sent before it is generated anew), and *)
(* the feeders of the recorded channels run, each once.                    *)
ZoneFollows ==
    /\ Orchestrator /\ link = <<>> /\ AtRest
    /\ last # None /\ mem[last].ok /\ last \notin flawed /\ lastStop # "missed"
    => /\ \A file \in {"defaults", "startScript", "stopScript"} : zone[file] = disk[file]
       /\ req[last].kind = "map" => zone.vssJson = disk.vssJson
       /\ feeders = [f \in Feeds |-> IF f \in disk.dbcCan THEN 1 ELSE 0]

(* Every request is answered and the server told, in spite of failures at  *)
(* any stage and of others at its side: no early return keeps a mutex, and *)
(* a mapping and a reset never wait for each other.                        *)
EveryRequestAnswered ==
    \A h \in Handlers : pc[h] # "idle" ~> pc[h] = "done"

(* "delete this mapping": an item touches no other API of the overlay (as  *)
(* long as it is written at all).                                          *)
OnlyNamedApiChanges ==
    [][\A h \in Handlers :
          pc[h] = "flush" /\ faults' = faults /\ disk'.overlay # Torn =>
             \A v \in Vss \ {req[h].items[mem[h].item].vss} :
                pc'[h] # "flush" => disk'.overlay[v] = disk.overlay[v]]_vars
=============================================================================
