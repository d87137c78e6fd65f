-------------------------- MODULE VssMappingProofs --------------------------
(***************************************************************************)
(* Proofs about VssMapping, for any handlers, APIs, signals, channels,     *)
(* requests and failures, with or without an orchestrator; what is said    *)
(* of the feeders is said of those that dk-manager runs itself.            *)
(***************************************************************************)
EXTENDS VssMapping, SequenceTheorems, TLAPS

-----------------------------------------------------------------------------
(* The inductive invariant.                                                *)

MapHeld   == {"save", "item", "flush", "json", "model", "scripts", "stopBroker",
              "stopFeeder", "send", "broker", "feeder", "supported", "unlock"}
ResetHeld == {"stopBroker", "stopFeeder", "clear", "send", "json", "model", "broker",
              "feeder", "unlock"}
Answered  == {"answer", "readApis", "tell", "done"}

Maps(h)   == req[h].kind = "map" /\ pc[h] \in MapHeld
Resets(h) == req[h].kind = "reset" /\ pc[h] \in ResetHeld

\* Every handler is on the path of its command.
OnPath(h) ==
  \/ pc[h] = "idle"
  \/ req[h].kind = "map" /\ pc[h] \in {"lock"} \cup MapHeld \cup Answered
  \/ req[h].kind = "reset" /\ pc[h] \in {"lock"} \cup ResetHeld \cup Answered
  \/ req[h].kind = "set" /\ pc[h] \in {"open", "close"} \cup Answered

Discipline ==
  \A h \in Handlers :
    /\ OnPath(h)
    /\ Maps(h) => vssMappingMutex = h
    /\ Resets(h) => vssMappingFactoryResetMutex = h

\* Two handlers are between lock and unlock only where it is on record.
Separate ==
  \A g, h \in Handlers :
    g # h /\ (Maps(g) \/ Resets(g)) /\ (Maps(h) \/ Resets(h)) =>
      g \in flawed /\ h \in flawed /\ tainted

\* The index into the items, and into what a reset clears.
Index(h) ==
  /\ mem[h].item >= 1
  /\ pc[h] = "flush" => mem[h].item <= Len(req[h].items)
  /\ \/ pc[h] \in {"idle", "lock"}
     \/ req[h].kind = "reset" /\ pc[h] \in {"stopBroker", "stopFeeder"}
     => mem[h].item = 1
  /\ pc[h] = "clear" => mem[h].item <= 5

\* Who has stopped the feeders and not started them yet, and how many there are: none
\* between the stop and the starts that follow it, one more after each of these.
MapRestarts == \E h \in Handlers : Maps(h) /\ Restarting(h)
ResetRestarts == \E h \in Handlers : Resets(h) /\ Restarting(h)
Feeding == ~Orchestrator =>
  /\ lastStop = "alone" =>
       /\ ~(MapRestarts /\ ResetRestarts)
       /\ \A f \in Feeds : feeders[f] <= IF MapRestarts \/ ResetRestarts THEN 0 ELSE 1
  /\ lastStop = "shared" =>
       \A f \in Feeds : feeders[f] <= IF MapRestarts /\ ResetRestarts THEN 0
                                      ELSE IF MapRestarts \/ ResetRestarts THEN 1 ELSE 2

\* Handler h is at one of the stages, or has left the last of them in good order.
Past(h, stages) == pc[h] \in stages \/ (pc[h] = "unlock" /\ mem[h].ok)

Followed == feeders = [f \in Feeds |-> IF f \in disk.dbcCan THEN 1 ELSE 0]

\* What the stages a flawless mapping has behind it have done.
MapDone(h) == Maps(h) /\ h \notin flawed =>
  /\ Past(h, {"model", "scripts", "stopBroker", "stopFeeder", "send", "broker", "feeder",
              "supported"}) => disk.vssJson = disk.overlay
  /\ Past(h, {"scripts", "stopBroker", "stopFeeder", "send", "broker", "feeder",
       "supported"})
       => disk.model = disk.overlay
  /\ Past(h, {"stopBroker", "stopFeeder", "send", "broker", "feeder", "supported"})
       => disk.startScript = disk.dbcCan
  /\ pc[h] \in {"stopFeeder", "send", "broker"} => broker = Stopped
  /\ Past(h, {"feeder", "supported"}) => broker = disk.overlay
  /\ pc[h] \in {"send", "broker", "feeder"} /\ ~Orchestrator => NoFeeder
  /\ Past(h, {"supported"}) /\ ~Orchestrator => Followed

\* The same of a reset.
ResetDone(h) == Resets(h) /\ h \notin flawed =>
  /\ pc[h] \in {"stopFeeder", "clear", "send", "json", "model",
       "broker"} => broker = Stopped
  /\ Past(h, {"clear", "send", "json", "model", "broker", "feeder"}) /\ ~Orchestrator
       => NoFeeder
  /\ Past(h, {"clear", "send", "json", "model", "broker", "feeder"}) =>
       LET cleared(n) == pc[h] # "clear" \/ mem[h].item > n
       IN /\ cleared(1) => disk.dbcCan = {}
          /\ cleared(2) => disk.supported = {}
          /\ cleared(3) => disk.overlay = EmptyOverlay
          /\ cleared(4) => disk.defaults = {}
          /\ cleared(5) => disk.startScript = {}
  /\ Past(h, {"model", "broker", "feeder"}) => disk.vssJson = disk.overlay
  /\ Past(h, {"broker", "feeder"}) => disk.model = disk.overlay
  /\ Past(h, {"feeder"}) => broker = disk.overlay

Done(h) == MapDone(h) /\ ResetDone(h)

IInv ==
  /\ TypeOK /\ Discipline /\ Separate /\ Feeding
  /\ \A h \in Handlers : Index(h) /\ Done(h)

-----------------------------------------------------------------------------
(* The paths and the requests.                                             *)

\* The stage that follows each stage.
LEMMA AfterMap ==
  /\ After["map"]["lock"] = "save"
  /\ After["map"]["save"] = "item" /\ After["map"]["item"] = "flush"
  /\ After["map"]["flush"] = "item"
  /\ After["map"]["json"] = "model" /\ After["map"]["model"] = "scripts"
  /\ After["map"]["scripts"] = "stopBroker" /\ After["map"]["stopBroker"] = "stopFeeder"
  /\ After["map"]["stopFeeder"] = "send" /\ After["map"]["send"] = "broker"
  /\ After["map"]["broker"] = "feeder" /\ After["map"]["feeder"] = "supported"
  /\ After["map"]["supported"] = "unlock" /\ After["map"]["unlock"] = "answer"
  BY DEF After

\* The same of a reset.
LEMMA AfterReset ==
  /\ After["reset"]["lock"] = "stopBroker" /\ After["reset"]["stopBroker"] = "stopFeeder"
  /\ After["reset"]["stopFeeder"] = "clear" /\ After["reset"]["send"] = "json"
  /\ After["reset"]["json"] = "model" /\ After["reset"]["model"] = "broker"
  /\ After["reset"]["broker"] = "feeder" /\ After["reset"]["feeder"] = "unlock"
  /\ After["reset"]["unlock"] = "answer"
  BY DEF After

\* The same of set_support_apis, and of the answer of every command.
LEMMA AfterAnswer ==
  /\ After["set"]["open"] = "close" /\ After["set"]["close"] = "answer"
  /\ \A k \in {"map", "reset", "set"} : /\ After[k]["answer"] = "readApis"
                                        /\ After[k]["readApis"] = "tell"
                                        /\ After[k]["tell"] = "done"
  BY DEF After

\* The stages, enumerated.
LEMMA StagesAre ==
  Stages = {"idle", "done", "clear", "lock", "save", "item", "flush", "json", "model",
            "scripts", "stopBroker", "stopFeeder", "send", "broker", "feeder", "supported",
            "unlock", "answer", "readApis", "tell", "open", "close"}
  BY DEF Stages, AllKinds, After

\* What a request carries.
LEMMA RequestFacts ==
  ASSUME NEW r \in Request
  PROVE  r.kind \in {"map", "reset", "set"} /\ r.items \in Seq(Item) /\ r.apis \subseteq Vss
<1>1. <<>> \in Seq(Item)
  OBVIOUS
<1> QED BY <1>1, KindsAssumption, MappingsAssumption DEF Request, AllKinds

-----------------------------------------------------------------------------
(* What a step leaves to the others.                                       *)

\* Handler h leaves the others as they are.
Only(h) ==
  /\ req' = req
  /\ \A g \in Handlers \ {h} : pc'[g] = pc[g] /\ mem'[g] = mem[g]

\* The records of flaws grow.
Recorded == flawed \subseteq flawed' /\ (tainted => tainted')

\* A step of a handler that holds a mutex disturbs no other that is not on record.
LEMMA OthersIdle ==
  ASSUME IInv, NEW h \in Handlers, Maps(h) \/ Resets(h), Only(h), Recorded,
         NEW g \in Handlers \ {h}
  PROVE  Index(g)' /\ Done(g)'
<1>1. pc'[g] = pc[g] /\ mem'[g] = mem[g] /\ req'[g] = req[g]
  BY DEF Only
<1>2. Maps(g) \/ Resets(g) => g \in flawed'
  BY DEF IInv, Separate, Recorded
<1>3. Done(g)'
  BY <1>1, <1>2 DEF Done, MapDone, ResetDone, Maps, Resets
<1>4. Index(g)'
  BY <1>1 DEF IInv, Index
<1> QED BY <1>3, <1>4

\* A step that changes no file and starts or stops nothing disturbs no other.
LEMMA OthersSeeNothing ==
  ASSUME IInv, NEW h \in Handlers, UNCHANGED <<disk, broker, feeders>>,
         flawed \subseteq flawed',
         \A g \in Handlers \ {h} : pc'[g] = pc[g] /\ mem'[g] = mem[g] /\ req'[g] = req[g],
         NEW g \in Handlers \ {h}
  PROVE  Index(g)' /\ Done(g)'
<1>1. Index(g) /\ Done(g) /\ (g \notin flawed' => g \notin flawed)
  BY DEF IInv
<1> QED BY <1>1 DEF Index, Done, MapDone, ResetDone, Maps, Resets, Past, NoFeeder, Followed

\* Discipline and Separate are kept by a step on the handler's path.
LEMMA KeepsPath ==
  ASSUME IInv, NEW h \in Handlers, Only(h), UNCHANGED mutexes, OnPath(h)', Recorded,
         Maps(h)' => Maps(h), Resets(h)' => Resets(h)
  PROVE  Discipline' /\ Separate'
<1>1. Discipline'
  <2> SUFFICES ASSUME NEW g \in Handlers
               PROVE  /\ OnPath(g)'
                      /\ Maps(g)' => vssMappingMutex' = g
                      /\ Resets(g)' => vssMappingFactoryResetMutex' = g
    BY DEF Discipline
  <2>1. CASE g = h
    BY <2>1 DEF IInv, Discipline, mutexes
  <2>2. CASE g # h
    BY DEF IInv, Discipline, mutexes, Only, OnPath, Maps, Resets
  <2> QED BY <2>1, <2>2
<1>2. \A g \in Handlers : (Maps(g)' => Maps(g)) /\ (Resets(g)' => Resets(g))
  BY DEF Only, Maps, Resets
<1>3. Separate'
  BY <1>2 DEF IInv, Separate, Recorded
<1> QED BY <1>1, <1>3

\* The count of the feeders is kept by a step that neither starts nor stops them.
LEMMA SameFeeders ==
  ASSUME IInv, UNCHANGED <<feeders, lastStop>>,
         \A g \in Handlers : /\ Maps(g)' /\ Restarting(g)' => Maps(g) /\ Restarting(g)
                             /\ Resets(g)' /\ Restarting(g)' => Resets(g) /\ Restarting(g)
  PROVE  Feeding'
<1>1. (MapRestarts' => MapRestarts) /\ (ResetRestarts' => ResetRestarts)
  BY DEF MapRestarts, ResetRestarts
<1>2. \A f \in Feeds : feeders[f] \in Nat
  BY DEF IInv, TypeOK
<1> QED BY <1>1, <1>2 DEF IInv, Feeding

\* The same of a step of one handler.
LEMMA KeepsFeeding ==
  ASSUME IInv, NEW h \in Handlers, Only(h), UNCHANGED <<feeders, lastStop>>,
         Maps(h)' /\ Restarting(h)' => Maps(h) /\ Restarting(h),
         Resets(h)' /\ Restarting(h)' => Resets(h) /\ Restarting(h)
  PROVE  Feeding'
<1>1. \A g \in Handlers : /\ Maps(g)' /\ Restarting(g)' => Maps(g) /\ Restarting(g)
                          /\ Resets(g)' /\ Restarting(g)' => Resets(g) /\ Restarting(g)
  BY DEF Only, Maps, Resets, Restarting
<1> QED BY <1>1, SameFeeders

\* What is left to show of a step between lock and unlock.
LEMMA HeldStep ==
  ASSUME IInv, NEW h \in Handlers, Maps(h) \/ Resets(h), Only(h), Recorded,
         UNCHANGED mutexes, TypeOK', OnPath(h)', Maps(h)' => Maps(h), Resets(h)' => Resets(h),
         Feeding', Index(h)', Done(h)'
  PROVE  IInv'
<1>1. Discipline' /\ Separate'
  BY KeepsPath
<1>2. \A g \in Handlers \ {h} : Index(g)' /\ Done(g)'
  BY OthersIdle
<1> QED BY <1>1, <1>2 DEF IInv

\* A failure that nobody notices is on record.
LEMMA SlipRecorded ==
  ASSUME IInv, NEW h \in Handlers, Slip(h) \/ NoSlip
  PROVE  /\ faults' \in Nat /\ flawed' \in SUBSET Handlers /\ flawed \subseteq flawed'
         /\ h \notin flawed' => NoSlip
  BY DEF IInv, TypeOK, Slip, NoSlip

-----------------------------------------------------------------------------
(* The steps between lock and unlock.                                      *)

\* An early return keeps everything but the handler's stage and its result.
LEMMA AbortEffect ==
  ASSUME IInv, NEW h \in Handlers, Abort(h)
  PROVE  /\ pc'[h] = "unlock" /\ ~mem'[h].ok /\ mem'[h].item = mem[h].item
         /\ mem' \in [Handlers -> Memory]
<1>1. mem[h] \in Memory
  BY DEF IInv, TypeOK
<1>2. /\ [mem[h] EXCEPT !.ok = FALSE] \in Memory
      /\ [mem[h] EXCEPT !.ok = FALSE].ok = FALSE
      /\ [mem[h] EXCEPT !.ok = FALSE].item = mem[h].item
  BY <1>1 DEF Memory
<1>3. mem' = [mem EXCEPT ![h] = [mem[h] EXCEPT !.ok = FALSE]]
  BY DEF Abort
<1> QED BY <1>2, <1>3 DEF Abort, Goto, IInv, TypeOK

\* Lists of names grow by names.
LEMMA WithNamesTyped ==
  ASSUME NEW S, NEW listed \in SUBSET S, NEW new \in SUBSET S
  PROVE  WithNames(listed, new) \in SUBSET S
  BY DEF WithNames

Counts == [Vss -> Nat]

\* Whichever field of it changes, the memory of a handler stays one.
LEMMA FieldTyped ==
  ASSUME NEW m \in Memory
  PROVE  /\ m.item \in Nat /\ m.added \in Counts /\ m.deleted \in Counts
         /\ \A n \in Nat : [m EXCEPT !.item = n] \in Memory
         /\ \A c \in Counts : [m EXCEPT !.added = c] \in Memory
         /\ \A c \in Counts : [m EXCEPT !.deleted = c] \in Memory
         /\ \A s \in SUBSET Feeds : [m EXCEPT !.dbcCanList = s] \in Memory
<1> DEFINE Bases == Overlays \cup {Torn}
<1>1. Memory = [item : Nat, base : Bases, dbcCanList : SUBSET Feeds,
                added : Counts, deleted : Counts, apis : SUBSET Vss, ok : BOOLEAN]
  BY DEF Memory, Counts
<1> HIDE DEF Bases
<1>2. m.item \in Nat /\ m.added \in Counts /\ m.deleted \in Counts
  BY <1>1
<1>3. \A n \in Nat : [m EXCEPT !.item = n] \in Memory
  BY <1>1
<1>4. \A c \in Counts : [m EXCEPT !.added = c] \in Memory /\ [m EXCEPT !.deleted = c] \in Memory
  BY <1>1
<1>5. \A s \in SUBSET Feeds : [m EXCEPT !.dbcCanList = s] \in Memory
  BY <1>1
<1> QED BY <1>2, <1>3, <1>4, <1>5

\* The memory after an item.
AfterItem(m, added, deleted, feeds) ==
    [m EXCEPT !.item = m.item + 1, !.added = added, !.deleted = deleted,
              !.dbcCanList = feeds]

LEMMA NextTyped ==
  ASSUME NEW m \in Memory, NEW added \in Counts, NEW deleted \in Counts,
         NEW feeds \in SUBSET Feeds
  PROVE  /\ AfterItem(m, added, deleted, feeds) \in Memory
         /\ AfterItem(m, added, deleted, feeds).item = m.item + 1
<1> DEFINE first  == [m EXCEPT !.item = m.item + 1]
           second == [first EXCEPT !.added = added]
           third  == [second EXCEPT !.deleted = deleted]
           fourth == [third EXCEPT !.dbcCanList = feeds]
<1>1. first \in Memory
  BY FieldTyped
<1>2. second \in Memory
  <2> HIDE DEF first
  <2> QED BY <1>1, FieldTyped
<1>3. third \in Memory
  <2> HIDE DEF second
  <2> QED BY <1>2, FieldTyped
<1>4. fourth \in Memory
  <2> HIDE DEF third
  <2> QED BY <1>3, FieldTyped
<1>5. fourth.item = m.item + 1
  BY DEF Memory
<1> QED BY <1>4, <1>5 DEF AfterItem

\* The files after an item.
LEMMA OverlayTyped ==
  ASSUME NEW files \in Files, NEW overlay \in Overlays \cup {Torn},
    NEW names \in SUBSET Signals
  PROVE  LET after == [files EXCEPT !.overlay = overlay, !.defaults = names]
         IN  /\ after \in Files
             /\ after.startScript = files.startScript /\ after.stopScript = files.stopScript
<1> DEFINE after == [[files EXCEPT !.overlay = overlay] EXCEPT !.defaults = names]
<1>1. [files EXCEPT !.overlay = overlay] \in Files
  BY DEF Files
<1>2. after \in Files
  BY <1>1 DEF Files
<1>3. after.startScript = files.startScript /\ after.stopScript = files.stopScript
  BY DEF Files
<1> QED BY <1>2, <1>3

\* An item makes an overlay of an overlay.
LEMMA ChangedTyped ==
  ASSUME NEW overlay \in Overlays, NEW item \in Item
  PROVE  Changed(overlay, item) \in Overlays
<1>1. item.vss \in Vss /\ item.signal \in Signals \cup {NoSignal} /\ item.deleted \in BOOLEAN
  BY DEF Item
<1>2. CASE Hits(overlay, item.vss) # {}
  BY <1>1, <1>2 DEF Changed, Overlays
<1>3. CASE Hits(overlay, item.vss) = {} /\ ~item.deleted
  BY <1>1, <1>3 DEF Changed, Overlays
<1>4. CASE Hits(overlay, item.vss) = {} /\ item.deleted
  BY <1>4 DEF Changed
<1> QED BY <1>1, <1>2, <1>3, <1>4

\* A file of the zone controller that goes out empty.
LEMMA EmptiedTyped ==
  ASSUME NEW files \in Files, NEW file \in DOMAIN Copies(Blank)
  PROVE  [files EXCEPT ![file] = Blank[file]] \in Files
<1>1. file \in {"vssJson", "defaults", "startScript", "stopScript"}
  BY DEF Copies
<1>2. /\ Blank.vssJson = EmptyOverlay /\ Blank.defaults = {} /\ Blank.startScript = {}
      /\ Blank.stopScript = FALSE /\ EmptyOverlay \in Overlays
  BY DEF Blank, EmptyOverlay, Overlays
<1>3. CASE file = "vssJson"
  BY <1>2, <1>3 DEF Files
<1>4. CASE file = "defaults"
  BY <1>2, <1>4 DEF Files
<1>5. CASE file = "startScript"
  BY <1>2, <1>5 DEF Files
<1>6. CASE file = "stopScript"
  BY <1>2, <1>6 DEF Files
<1> QED BY <1>1, <1>3, <1>4, <1>5, <1>6

\* What is sent to the zone controller are messages.
LEMMA MessagesTyped ==
  ASSUME NEW h \in Handlers, NEW files \in Files
  PROVE  FileMessages(h, files) \in Seq(Messages)
<1>1. /\ files.vssJson \in Overlays /\ files.defaults \in SUBSET Signals
      /\ files.startScript \in SUBSET Feeds /\ files.stopScript \in BOOLEAN
  BY DEF Files
<1>2. Copies(Blank) \in ZoneFiles
  BY DEF Copies, Blank, ZoneFiles, EmptyOverlay, Overlays
<1>3. \A file \in {"vssJson", "defaults", "startScript", "stopScript"} :
         FileMessage(h, file, files) \in Messages
  <2> TAKE file \in {"vssJson", "defaults", "startScript", "stopScript"}
  <2>1. [Copies(Blank) EXCEPT ![file] = files[file]] \in ZoneFiles
    <3> DEFINE blank == Copies(Blank)
    <3> HIDE DEF blank
    <3>1. blank \in ZoneFiles
      BY <1>2 DEF blank
    <3>2. CASE file = "vssJson"
      BY <1>1, <3>1, <3>2 DEF ZoneFiles, blank
    <3>3. CASE file = "defaults"
      BY <1>1, <3>1, <3>3 DEF ZoneFiles, blank
    <3>4. CASE file = "startScript"
      BY <1>1, <3>1, <3>4 DEF ZoneFiles, blank
    <3>5. CASE file = "stopScript"
      BY <1>1, <3>1, <3>5 DEF ZoneFiles, blank
    <3> QED BY <3>2, <3>3, <3>4, <3>5
  <2> QED BY <2>1 DEF FileMessage, Message, Messages
<1>4. Len(SentFiles) = 4 /\ \A n \in 1..4 : SentFiles[n] \in
         {"vssJson", "defaults", "startScript", "stopScript"}
  BY DEF SentFiles
<1>5. FileMessages(h, files) \in [1..4 -> Messages]
  BY <1>3, <1>4 DEF FileMessages
<1> QED BY <1>5, SeqDef

\* The configuration is saved, and the recorded channels are read, if they can be.
LEMMA SaveStep ==
  ASSUME IInv, NEW h \in Handlers, Save(h)
  PROVE  IInv'
<1> DEFINE read == [mem[h] EXCEPT !.dbcCanList = disk.dbcCan]
           last1 == Len(req[h].items) + 1
<1>1. req[h].kind = "map" /\ Maps(h) /\ pc[h] = "save"
  BY DEF Save, At, IInv, Discipline, OnPath, Maps, MapHeld, ResetHeld, Answered
<1>2. /\ read \in Memory /\ [read EXCEPT !.item = last1] \in Memory
      /\ read.item = mem[h].item /\ [read EXCEPT !.item = last1].item >= 1
  <2>1. mem[h] \in Memory /\ disk.dbcCan \in SUBSET Feeds
    BY DEF IInv, TypeOK, Files
  <2>2. last1 \in Nat /\ last1 >= 1
    <3>1. req[h].items \in Seq(Item)
      BY <1>1, RequestFacts DEF IInv, TypeOK, NoRequest
    <3> QED BY <3>1
  <2> HIDE DEF last1
  <2>3. read \in Memory /\ read.item = mem[h].item
    BY <2>1 DEF Memory
  <2> HIDE DEF read
  <2> QED BY <2>2, <2>3 DEF Memory
<1>3. \/ /\ pc'[h] = "item" /\ mem' \in [Handlers -> Memory] /\ mem'[h].item >= 1
      \/ Abort(h)
  <2>1. \/ Continue(h) /\ mem' = [mem EXCEPT ![h] = read]
        \/ Continue(h) /\ mem' = mem
        \/ Continue(h) /\ mem' = [mem EXCEPT ![h] = [read EXCEPT !.item = last1]]
        \/ Abort(h)
    BY DEF Save, GiveUp
  <2>2. Continue(h) => pc'[h] = "item"
    BY <1>1, AfterMap DEF Continue, Goto, IInv, TypeOK
  <2>3. mem \in [Handlers -> Memory] /\ mem[h].item >= 1
    BY DEF IInv, TypeOK, Index
  <2> HIDE DEF read, last1
  <2> QED BY <1>2, <2>1, <2>2, <2>3
<1>4. Only(h) /\ UNCHANGED <<mutexes, disk, zoneSide, broker, feeders, last, lastStop,
        tainted>>
  BY DEF Save, Continue, Goto, GiveUp, Abort, Slip, NoSlip, IInv, TypeOK, Only
<1>5. faults' \in Nat /\ flawed' \in SUBSET Handlers /\ Recorded
  BY <1>4, SlipRecorded DEF Save, Recorded
<1>6. pc'[h] \in {"item", "unlock"}
  BY <1>3, AbortEffect
<1>7. TypeOK'
  <2>1. mem' \in [Handlers -> Memory]
    BY <1>3, AbortEffect
  <2>2. pc' \in [Handlers -> Stages]
    BY <1>6, StagesAre DEF Save, Continue, Goto, GiveUp, Abort, IInv, TypeOK
  <2> QED BY <1>4, <1>5, <2>1, <2>2 DEF Save, mutexes, zoneSide, answers, IInv, TypeOK
<1>8. OnPath(h)' /\ (Maps(h)' => Maps(h)) /\ (Resets(h)' => Resets(h))
  BY <1>1, <1>4, <1>6 DEF Only, OnPath, Maps, Resets, MapHeld
<1>9. Feeding'
  <2>1. ~Restarting(h)'
    BY <1>1, <1>4, <1>6 DEF Only, Restarting
  <2> QED BY <1>4, <2>1, KeepsFeeding
<1>10. Index(h)'
  <2>1. mem'[h].item >= 1
    BY <1>3, AbortEffect DEF IInv, Index
  <2> QED BY <1>1, <1>4, <1>6, <2>1 DEF Only, Index
<1>11. Done(h)'
  BY <1>1, <1>3, <1>4, AbortEffect DEF Only, Done, MapDone, ResetDone, Resets, Past
<1> QED BY <1>1, <1>4, <1>5, <1>7, <1>8, <1>9, <1>10, <1>11, HeldStep

\* The overlay is read, or there is no item left.
LEMMA ReadOverlayStep ==
  ASSUME IInv, NEW h \in Handlers, ReadOverlay(h)
  PROVE  IInv'
<1>1. req[h].kind = "map" /\ Maps(h) /\ pc[h] = "item"
  BY DEF ReadOverlay, At, IInv, Discipline, OnPath, Maps, MapHeld, ResetHeld, Answered
<1>2. /\ \/ pc'[h] = "json" /\ mem' = mem
         \/ /\ pc'[h] = "flush" /\ mem' = [mem EXCEPT ![h].base = disk.overlay]
            /\ mem[h].item <= Len(req[h].items)
  <2>1. CASE mem[h].item > Len(req[h].items)
    BY <1>1, <2>1 DEF ReadOverlay, Goto, IInv, TypeOK
  <2>2. CASE ~(mem[h].item > Len(req[h].items))
    <3>1. req[h].items \in Seq(Item) /\ mem[h].item \in Nat
      BY <1>1, RequestFacts DEF IInv, TypeOK, NoRequest, Memory
    <3> QED BY <1>1, <2>2, <3>1, AfterMap DEF ReadOverlay, Continue, Goto, IInv, TypeOK
  <2> QED BY <2>1, <2>2
<1>3. Only(h) /\ UNCHANGED <<mutexes, disk, zoneSide, broker, feeders, history>>
  BY DEF ReadOverlay, Continue, Goto, IInv, TypeOK, Only
<1>4. Recorded
  BY <1>3 DEF Recorded, history
<1>5. mem' \in [Handlers -> Memory] /\ mem'[h].item = mem[h].item
  <2>1. mem[h] \in Memory /\ disk.overlay \in Overlays \cup {Torn}
    BY DEF IInv, TypeOK, Files
  <2>2. /\ [mem[h] EXCEPT !.base = disk.overlay] \in Memory
        /\ [mem[h] EXCEPT !.base = disk.overlay].item = mem[h].item
    BY <2>1 DEF Memory
  <2> QED BY <1>2, <2>2 DEF IInv, TypeOK
<1>6. TypeOK'
  <2>1. pc' \in [Handlers -> Stages]
    BY <1>2, StagesAre DEF ReadOverlay, Continue, Goto, IInv, TypeOK
  <2> QED BY <1>3, <1>5, <2>1 DEF ReadOverlay, mutexes, zoneSide, answers, history, IInv,
             TypeOK
<1>7. OnPath(h)' /\ (Maps(h)' => Maps(h)) /\ (Resets(h)' => Resets(h))
  BY <1>1, <1>2, <1>3 DEF Only, OnPath, Maps, Resets, MapHeld
<1>8. Feeding'
  <2>1. ~Restarting(h)'
    BY <1>1, <1>2, <1>3 DEF Only, Restarting
  <2> QED BY <1>3, <2>1, KeepsFeeding DEF history
<1>9. Index(h)'
  BY <1>1, <1>2, <1>3, <1>5 DEF Only, IInv, Index
<1>10. Done(h)'
  BY <1>1, <1>2, <1>3 DEF Only, Done, MapDone, ResetDone, Resets, Past
<1> QED BY <1>1, <1>3, <1>4, <1>6, <1>7, <1>8, <1>9, <1>10, HeldStep

\* The item that a mapping is about to apply.
LEMMA FlushItem ==
  ASSUME IInv, NEW h \in Handlers, FlushOverlay(h)
  PROVE  /\ req[h].kind = "map" /\ Maps(h) /\ pc[h] = "flush"
         /\ mem[h] \in Memory /\ mem[h].item \in Nat
         /\ req[h].items[mem[h].item] \in Item
         /\ mem[h].base \in Overlays \cup {Torn} /\ disk.overlay \in Overlays \cup {Torn}
<1>1. req[h].kind = "map" /\ Maps(h) /\ pc[h] = "flush"
  BY DEF FlushOverlay, At, IInv, Discipline, OnPath, Maps, MapHeld, ResetHeld, Answered
<1>2. req[h].items \in Seq(Item)
  BY <1>1, RequestFacts DEF IInv, TypeOK, NoRequest
<1>3. mem[h] \in Memory /\ mem[h].item \in Nat /\ mem[h].base \in Overlays \cup {Torn}
  BY DEF IInv, TypeOK, Memory
<1>4. mem[h].item >= 1 /\ mem[h].item <= Len(req[h].items)
  BY <1>1 DEF IInv, Index
<1>5. disk.overlay \in Overlays \cup {Torn}
  BY DEF IInv, TypeOK, Files
<1> QED BY <1>1, <1>2, <1>3, <1>4, <1>5

\* What an item does to the memory and the files: nothing is claimed of the overlay and
\* the default values while the items are applied.
LEMMA FlushEffect ==
  ASSUME IInv, NEW h \in Handlers, FlushOverlay(h)
  PROVE  /\ disk' \in Files
         /\ \/ /\ pc'[h] = "item"
               /\ mem' \in [Handlers -> Memory] /\ mem'[h].item = mem[h].item + 1
            \/ Abort(h)
<1> DEFINE m        == mem[h]
           item     == req[h].items[m.item]
           hit      == m.base # Torn /\ Hits(m.base, item.vss) # {}
           valid    == m.base # Torn /\ (hit \/ ~item.deleted)
           onBus    == valid /\ item.signal # NoSignal
           mixed    == m.base = Torn \/ m.base # disk.overlay
           overlay  == IF ~valid THEN disk.overlay
                       ELSE IF mixed THEN Torn ELSE Changed(m.base, item)
           names    == WithNames(disk.defaults, FrameOf[item.signal])
           defaults == IF onBus THEN names ELSE disk.defaults
           added    == Counted(m.added, item.vss, valid /\ ~hit)
           deleted  == Counted(m.deleted, item.vss, hit /\ item.deleted)
           feeds    == IF onBus THEN m.dbcCanList \cup {item.feed} ELSE m.dbcCanList
           next     == [m EXCEPT !.item = m.item + 1, !.added = added, !.deleted = deleted,
                                 !.dbcCanList = feeds]
<1> HIDE DEF m, item, hit, valid, onBus, mixed, overlay, names, defaults, added, deleted,
             feeds, next
<1>1. /\ pc[h] = "flush" /\ req[h].kind = "map"
      /\ m \in Memory /\ item \in Item /\ m.item \in Nat
      /\ m.base \in Overlays \cup {Torn} /\ disk.overlay \in Overlays \cup {Torn}
      /\ disk \in Files /\ disk.defaults \in SUBSET Signals
  BY FlushItem DEF m, item, IInv, TypeOK, Files
<1>2. item.vss \in Vss /\ item.feed \in Feeds /\ item.signal \in Signals \cup {NoSignal}
  BY <1>1 DEF Item
<1>3. overlay \in Overlays \cup {Torn} /\ EmptyOverlay \in Overlays
  BY <1>1, ChangedTyped DEF overlay, mixed, valid, EmptyOverlay, Overlays
<1>4. defaults \in SUBSET Signals
  <2>1. item.signal # NoSignal => FrameOf[item.signal] \in SUBSET Signals
    BY <1>2, FrameAssumption
  <2>2. item.signal # NoSignal => names \in SUBSET Signals
    BY <1>1, <2>1, WithNamesTyped DEF names
  <2> QED BY <1>1, <2>2 DEF defaults, onBus
<1>5. disk' \in Files
  <2>1. \E o \in Overlays \cup {Torn} : \E d \in SUBSET Signals :
           disk' = [disk EXCEPT !.overlay = o, !.defaults = d]
    <3>1. \/ disk' = [disk EXCEPT !.overlay = overlay, !.defaults = defaults]
          \/ disk' = [disk EXCEPT !.overlay = overlay]
          \/ \E cut \in {disk.overlay, EmptyOverlay, Torn} :
                disk' = [disk EXCEPT !.overlay = cut, !.defaults = defaults]
          \/ \E cut \in {disk.defaults, {}} :
                disk' = [disk EXCEPT !.overlay = overlay, !.defaults = cut]
      BY DEF FlushOverlay, overlay, defaults, names, mixed, onBus, valid, hit, item, m
    <3>2. [disk EXCEPT !.overlay = overlay] =
            [disk EXCEPT !.overlay = overlay, !.defaults = disk.defaults]
      BY <1>1 DEF Files
    <3> QED BY <1>1, <1>3, <1>4, <3>1, <3>2
  <2> QED BY <1>1, <2>1, OverlayTyped
<1>6. next \in Memory /\ next.item = m.item + 1
  <2>1. m.added \in Counts /\ m.deleted \in Counts /\ m.dbcCanList \in SUBSET Feeds
    BY <1>1, FieldTyped DEF Memory
  <2>2. added \in Counts /\ deleted \in Counts
    BY <1>2, <2>1 DEF added, deleted, Counted, Counts
  <2>3. feeds \in SUBSET Feeds
    BY <1>2, <2>1 DEF feeds
  <2>4. m \in Memory
    BY <1>1
  <2>5. next = AfterItem(m, added, deleted, feeds)
    BY DEF next, AfterItem
  <2> QED BY <2>2, <2>3, <2>4, <2>5, NextTyped
<1>7. \/ Continue(h) /\ mem' = [mem EXCEPT ![h] = next]
      \/ Abort(h)
  <2>1. FlushOverlay(h) => \/ Continue(h) /\ mem' = [mem EXCEPT ![h] = next]
                           \/ GiveUp(h)
    BY DEF FlushOverlay, next, feeds, added, deleted, onBus, valid, hit, item, m
  <2> QED BY <2>1 DEF GiveUp
<1>8. Continue(h) => pc'[h] = "item"
  BY <1>1, AfterMap DEF Continue, Goto, IInv, TypeOK
<1>9. mem \in [Handlers -> Memory]
  BY DEF IInv, TypeOK
<1> QED BY <1>5, <1>6, <1>7, <1>8, <1>9 DEF m

\* An item is applied, or the request ends.
LEMMA FlushOverlayStep ==
  ASSUME IInv, NEW h \in Handlers, FlushOverlay(h)
  PROVE  IInv'
<1>1. /\ req[h].kind = "map" /\ Maps(h) /\ pc[h] = "flush"
      /\ mem[h].item \in Nat
  BY FlushItem
<1>2. /\ disk' \in Files
      /\ \/ /\ pc'[h] = "item"
            /\ mem' \in [Handlers -> Memory] /\ mem'[h].item = mem[h].item + 1
         \/ Abort(h)
  BY FlushEffect
<1>3. pc'[h] \in {"item", "unlock"}
  BY <1>2, AbortEffect
<1>4. Only(h) /\ UNCHANGED <<mutexes, zoneSide, broker, feeders, answers, last, lastStop>>
  BY DEF FlushOverlay, Continue, Goto, GiveUp, Abort, IInv, TypeOK, Only
<1>5. /\ faults' \in Nat /\ flawed' \in SUBSET Handlers /\ Recorded
      /\ tainted' \in BOOLEAN
  <2>1. Slip(h) \/ NoSlip
    BY DEF FlushOverlay
  <2>2. tainted' \in BOOLEAN /\ (tainted => tainted')
    BY DEF FlushOverlay, IInv, TypeOK
  <2> QED BY <2>1, <2>2, SlipRecorded DEF Recorded
<1>6. TypeOK'
  <2>1. mem' \in [Handlers -> Memory]
    BY <1>2, AbortEffect
  <2>2. pc' \in [Handlers -> Stages]
    BY <1>3, StagesAre DEF FlushOverlay, Continue, Goto, GiveUp, Abort, IInv, TypeOK
  <2>3. UNCHANGED <<mutexes, req>>
    BY DEF FlushOverlay
  <2> QED BY <1>2, <1>4, <1>5, <2>1, <2>2, <2>3 DEF mutexes, zoneSide, answers, IInv, TypeOK
<1>7. OnPath(h)' /\ (Maps(h)' => Maps(h)) /\ (Resets(h)' => Resets(h))
  BY <1>1, <1>3, <1>4 DEF Only, OnPath, Maps, Resets, MapHeld
<1>8. Feeding'
  <2>1. ~Restarting(h)'
    BY <1>1, <1>3, <1>4 DEF Only, Restarting
  <2>2. Only(h) /\ UNCHANGED <<feeders, lastStop>>
    BY <1>4
  <2> QED BY <2>1, <2>2, KeepsFeeding
<1>9. Index(h)'
  <2>1. mem'[h].item >= 1
    BY <1>1, <1>2, AbortEffect DEF IInv, Index
  <2> QED BY <1>1, <1>3, <1>4, <2>1 DEF Only, Index
<1>10. Done(h)'
  BY <1>1, <1>2, <1>4, AbortEffect DEF Only, Done, MapDone, ResetDone, Resets, Past
<1>11. Only(h) /\ UNCHANGED mutexes /\ Recorded
  BY <1>4, <1>5
<1> QED BY <1>1, <1>6, <1>7, <1>8, <1>9, <1>10, <1>11, HeldStep

\* vss.json comes from the overlay.
LEMMA GenerateVssJsonStep ==
  ASSUME IInv, NEW h \in Handlers, GenerateVssJson(h)
  PROVE  IInv'
<1>1. \/ /\ disk.overlay \in Overlays /\ disk' = [disk EXCEPT !.vssJson = disk.overlay]
         /\ mem' = mem /\ pc'[h] # "unlock"
      \/ disk' = disk /\ Abort(h)
  <2>1. pc[h] = "json" /\ req[h].kind \in {"map", "reset"} /\ pc \in [Handlers -> Stages]
    BY DEF GenerateVssJson, At, IInv, TypeOK, Discipline, OnPath, Answered
  <2>2. Continue(h) => pc'[h] # "unlock"
    BY <2>1, AfterMap, AfterReset DEF Continue, Goto
  <2>3. disk.overlay \in Overlays \cup {Torn}
    BY DEF IInv, TypeOK, Files
  <2> QED BY <2>2, <2>3 DEF GenerateVssJson, GiveUp
<1>2. /\ pc[h] = "json"
      /\ \/ req[h].kind = "map" /\ Maps(h) /\ pc'[h] \in {"model", "unlock"}
         \/ req[h].kind = "reset" /\ Resets(h) /\ pc'[h] \in {"model", "unlock"}
  BY AfterMap, AfterReset DEF GenerateVssJson, At, Continue, Goto, GiveUp, Abort, IInv,
     TypeOK, Discipline, OnPath, Maps, Resets, Answered
<1>3. Only(h) /\ UNCHANGED <<mutexes, broker, feeders, history>>
  BY DEF GenerateVssJson, Continue, Goto, GiveUp, Abort, IInv, TypeOK, Only
<1>4. Recorded
  BY <1>3 DEF Recorded, history
<1>5. disk \in Files /\ disk' \in Files
  <2>1. disk \in Files
    BY DEF IInv, TypeOK
  <2> QED BY <1>1, <2>1 DEF Files
<1>6. TypeOK'
  <2>1. pc' \in [Handlers -> Stages]
    BY <1>2, StagesAre DEF GenerateVssJson, Continue, Goto, GiveUp, Abort, IInv, TypeOK
  <2>2. mem' \in [Handlers -> Memory]
    BY <1>1, AbortEffect DEF IInv, TypeOK
  <2> QED BY <1>3, <1>5, <2>1, <2>2 DEF GenerateVssJson, mutexes, zoneSide, answers,
             history, IInv, TypeOK
<1>7. OnPath(h)' /\ (Maps(h)' => Maps(h)) /\ (Resets(h)' => Resets(h))
  BY <1>2, <1>3 DEF Only, OnPath, Maps, Resets, MapHeld, ResetHeld
<1>8. Feeding'
  <2>1. /\ Maps(h)' /\ Restarting(h)' => Maps(h) /\ Restarting(h)
        /\ Resets(h)' /\ Restarting(h)' => Resets(h) /\ Restarting(h)
    BY <1>2, <1>3 DEF Only, Maps, Resets, Restarting
  <2> QED BY <1>3, <2>1, KeepsFeeding DEF history
<1>9. Index(h)'
  <2>1. mem'[h].item = mem[h].item
    BY <1>1, AbortEffect
  <2> QED BY <1>2, <1>3, <2>1 DEF Only, IInv, Index
<1>10. Done(h)'
  <2>1. CASE /\ disk.overlay \in Overlays /\ disk' = [disk EXCEPT !.vssJson = disk.overlay]
             /\ mem' = mem /\ pc'[h] # "unlock"
    <3>1. /\ disk'.vssJson = disk.overlay /\ disk'.overlay = disk.overlay
          /\ disk'.dbcCan = disk.dbcCan /\ disk'.supported = disk.supported
          /\ disk'.defaults = disk.defaults /\ disk'.startScript = disk.startScript
      BY <1>5, <2>1 DEF Files
    <3>2. MapDone(h)'
      BY <1>2, <2>1, <3>1 DEF MapDone, Past
    <3>3. ResetDone(h)'
      BY <1>2, <1>3, <2>1, <3>1 DEF Only, history, IInv, Done, ResetDone, Resets, Past,
         NoFeeder
    <3> QED BY <3>2, <3>3 DEF Done
  <2>2. CASE disk' = disk /\ Abort(h)
    <3>1. pc'[h] = "unlock" /\ ~mem'[h].ok
      BY <2>2, AbortEffect
    <3> QED BY <3>1 DEF Done, MapDone, ResetDone, Past
  <2> QED BY <1>1, <2>1, <2>2
<1> QED BY <1>2, <1>3, <1>4, <1>6, <1>7, <1>8, <1>9, <1>10, HeldStep

\* The vehicle model comes from vss.json, which comes from the overlay.
LEMMA GenerateVehicleModelStep ==
  ASSUME IInv, NEW h \in Handlers, GenerateVehicleModel(h)
  PROVE  IInv'
<1>1. \/ /\ disk' = [disk EXCEPT !.model = disk.vssJson]
         /\ mem' = mem /\ pc'[h] # "unlock"
      \/ disk' = disk /\ Abort(h)
  <2>1. pc[h] = "model" /\ req[h].kind \in {"map", "reset"} /\ pc \in [Handlers -> Stages]
    BY DEF GenerateVehicleModel, At, IInv, TypeOK, Discipline, OnPath, Answered
  <2>2. Continue(h) => pc'[h] # "unlock"
    BY <2>1, AfterMap, AfterReset DEF Continue, Goto
  <2> QED BY <2>2 DEF GenerateVehicleModel, GiveUp
<1>2. /\ pc[h] = "model"
      /\ \/ req[h].kind = "map" /\ Maps(h) /\ pc'[h] \in {"scripts", "unlock"}
         \/ req[h].kind = "reset" /\ Resets(h) /\ pc'[h] \in {"broker", "unlock"}
  BY AfterMap, AfterReset DEF GenerateVehicleModel, At, Continue, Goto, GiveUp, Abort,
     IInv, TypeOK, Discipline, OnPath, Maps, Resets, Answered
<1>3. Only(h) /\ UNCHANGED <<mutexes, broker, feeders, history>>
  BY DEF GenerateVehicleModel, Continue, Goto, GiveUp, Abort, IInv, TypeOK, Only
<1>4. Recorded
  BY <1>3 DEF Recorded, history
<1>5. disk \in Files /\ disk' \in Files
  <2>1. disk \in Files
    BY DEF IInv, TypeOK
  <2> QED BY <1>1, <2>1 DEF Files
<1>6. TypeOK'
  <2>1. pc' \in [Handlers -> Stages]
    BY <1>2, StagesAre DEF GenerateVehicleModel, Continue, Goto, GiveUp, Abort, IInv, TypeOK
  <2>2. mem' \in [Handlers -> Memory]
    BY <1>1, AbortEffect DEF IInv, TypeOK
  <2> QED BY <1>3, <1>5, <2>1, <2>2 DEF GenerateVehicleModel, mutexes, zoneSide, answers,
             history, IInv, TypeOK
<1>7. OnPath(h)' /\ (Maps(h)' => Maps(h)) /\ (Resets(h)' => Resets(h))
  BY <1>2, <1>3 DEF Only, OnPath, Maps, Resets, MapHeld, ResetHeld
<1>8. Feeding'
  <2>1. /\ Maps(h)' /\ Restarting(h)' => Maps(h) /\ Restarting(h)
        /\ Resets(h)' /\ Restarting(h)' => Resets(h) /\ Restarting(h)
    BY <1>2, <1>3 DEF Only, Maps, Resets, Restarting
  <2> QED BY <1>3, <2>1, KeepsFeeding DEF history
<1>9. Index(h)'
  <2>1. mem'[h].item = mem[h].item
    BY <1>1, AbortEffect
  <2> QED BY <1>2, <1>3, <2>1 DEF Only, IInv, Index
<1>10. Done(h)'
  <2>1. CASE /\ disk' = [disk EXCEPT !.model = disk.vssJson]
             /\ mem' = mem /\ pc'[h] # "unlock"
    <3>1. /\ disk'.model = disk.vssJson /\ disk'.vssJson = disk.vssJson
          /\ disk'.overlay = disk.overlay /\ disk'.dbcCan = disk.dbcCan
          /\ disk'.supported = disk.supported /\ disk'.defaults = disk.defaults
          /\ disk'.startScript = disk.startScript
      BY <1>5, <2>1 DEF Files
    <3>2. MapDone(h)'
      BY <1>2, <1>3, <2>1, <3>1 DEF Only, history, IInv, Done, MapDone, Maps, Past
    <3>3. ResetDone(h)'
      BY <1>2, <1>3, <2>1, <3>1 DEF Only, history, IInv, Done, ResetDone, Resets, Past,
         NoFeeder
    <3> QED BY <3>2, <3>3 DEF Done
  <2>2. CASE disk' = disk /\ Abort(h)
    <3>1. pc'[h] = "unlock" /\ ~mem'[h].ok
      BY <2>2, AbortEffect
    <3> QED BY <3>1 DEF Done, MapDone, ResetDone, Past
  <2> QED BY <1>1, <2>1, <2>2
<1> QED BY <1>2, <1>3, <1>4, <1>6, <1>7, <1>8, <1>9, <1>10, HeldStep

\* The scripts and the recorded channels agree, if they were written.
LEMMA WriteScriptsStep ==
  ASSUME IInv, NEW h \in Handlers, WriteScripts(h)
  PROVE  IInv'
<1> DEFINE scripts == mem[h].dbcCanList
           first   == [disk EXCEPT !.stopScript = TRUE]
           second  == [first EXCEPT !.dbcCan = scripts]
           written == [second EXCEPT !.startScript = scripts]
<1>1. pc[h] = "scripts" /\ req[h].kind = "map" /\ Maps(h) /\ pc'[h] = "stopBroker"
  BY AfterMap DEF WriteScripts, At, Continue, Goto, IInv, TypeOK, Discipline, OnPath, Maps,
     MapHeld, ResetHeld, Answered
<1>2. /\ Only(h) /\ mem' = mem
      /\ UNCHANGED <<mutexes, zoneSide, broker, feeders, answers, last, lastStop, tainted>>
  BY DEF WriteScripts, Continue, Goto, Only
<1>3. /\ Slip(h) \/ (NoSlip /\ disk' = written)
      /\ \/ disk' = written
         \/ \E file \in {"stopScript", "dbcCan", "startScript"} :
               disk' \in {[written EXCEPT ![file] = disk[file]],
                          [written EXCEPT ![file] = Blank[file]]}
  BY DEF WriteScripts
<1>4. faults' \in Nat /\ flawed' \in SUBSET Handlers /\ Recorded /\ (h \notin flawed' => NoSlip)
  <2>1. Slip(h) \/ NoSlip
    BY <1>3
  <2> QED BY <1>2, <2>1, SlipRecorded DEF Recorded
<1>5. disk \in Files /\ scripts \in SUBSET Feeds
  BY DEF IInv, TypeOK, Memory
<1>6. /\ written \in Files /\ written.startScript = written.dbcCan
      /\ written.overlay = disk.overlay /\ written.vssJson = disk.vssJson
      /\ written.model = disk.model
  <2>1. first \in Files
    BY <1>5 DEF Files
  <2>2. second \in Files
    <3> HIDE DEF first
    <3> QED BY <1>5, <2>1 DEF Files
  <2>3. written \in Files /\ written.startScript = scripts /\ written.dbcCan = scripts
    <3>1. second.dbcCan = scripts
      BY <2>1 DEF Files
    <3> HIDE DEF second
    <3> QED BY <1>5, <2>2, <3>1 DEF Files
  <2>4. /\ written.overlay = disk.overlay /\ written.vssJson = disk.vssJson
        /\ written.model = disk.model
    BY <1>5 DEF Files
  <2> QED BY <2>3, <2>4
<1>7. disk' \in Files
  <2>1. /\ disk.stopScript \in BOOLEAN /\ disk.dbcCan \in SUBSET Feeds
        /\ disk.startScript \in SUBSET Feeds
    BY <1>5 DEF Files
  <2>2. Blank.stopScript = FALSE /\ Blank.dbcCan = {} /\ Blank.startScript = {}
    BY DEF Blank
  <2>3. /\ \A b \in BOOLEAN : [written EXCEPT !.stopScript = b] \in Files
        /\ \A s \in SUBSET Feeds : /\ [written EXCEPT !.dbcCan = s] \in Files
                                   /\ [written EXCEPT !.startScript = s] \in Files
    <3> HIDE DEF written
    <3> QED BY <1>6 DEF Files
  <2>4. PICK file \in {"stopScript", "dbcCan", "startScript"} :
           disk' \in {written, [written EXCEPT ![file] = disk[file]],
                      [written EXCEPT ![file] = Blank[file]]}
    BY <1>3
  <2> HIDE DEF written
  <2>5. CASE file = "stopScript"
    BY <1>6, <2>1, <2>2, <2>3, <2>4, <2>5
  <2>6. CASE file = "dbcCan"
    BY <1>6, <2>1, <2>2, <2>3, <2>4, <2>6
  <2>7. CASE file = "startScript"
    BY <1>6, <2>1, <2>2, <2>3, <2>4, <2>7
  <2> QED BY <2>5, <2>6, <2>7
<1> HIDE DEF written
<1>8. TypeOK'
  <2>1. pc' \in [Handlers -> Stages]
    BY <1>1, StagesAre DEF WriteScripts, Continue, Goto, IInv, TypeOK
  <2>2. UNCHANGED <<mutexes, req, mem>>
    BY DEF WriteScripts
  <2> QED BY <1>2, <1>4, <1>7, <2>1, <2>2 DEF mutexes, zoneSide, answers, IInv, TypeOK
<1>9. OnPath(h)' /\ (Maps(h)' => Maps(h)) /\ (Resets(h)' => Resets(h))
  BY <1>1, <1>2 DEF Only, OnPath, Maps, Resets, MapHeld
<1>10. Feeding'
  <2>1. ~Restarting(h)'
    BY <1>1, <1>2 DEF Only, Restarting
  <2> QED BY <1>2, <2>1, KeepsFeeding
<1>11. Index(h)'
  BY <1>1, <1>2 DEF Only, IInv, Index
<1>12. Done(h)'
  <2>1. ResetDone(h)'
    BY <1>1, <1>2 DEF Only, ResetDone, Resets
  <2>2. MapDone(h)'
    <3> SUFFICES ASSUME h \notin flawed'
                 PROVE  MapDone(h)'
      BY DEF MapDone
    <3>1. disk' = written
      BY <1>3, <1>4 DEF Slip
    <3>2. h \notin flawed
      BY <1>4 DEF Recorded
    <3> QED BY <1>1, <1>2, <1>6, <3>1, <3>2 DEF IInv, Done, MapDone, Past
  <2> QED BY <2>1, <2>2 DEF Done
<1> QED BY <1>1, <1>2, <1>4, <1>8, <1>9, <1>10, <1>11, <1>12, HeldStep

\* No databroker runs, if it was stopped.
LEMMA StopVehicleDatabrokerStep ==
  ASSUME IInv, NEW h \in Handlers, StopVehicleDatabroker(h)
  PROVE  IInv'
<1>1. /\ pc[h] = "stopBroker" /\ pc'[h] = "stopFeeder"
      /\ \/ req[h].kind = "map" /\ Maps(h)
         \/ req[h].kind = "reset" /\ Resets(h)
  BY AfterMap, AfterReset DEF StopVehicleDatabroker, At, Continue, Goto, IInv, TypeOK,
     Discipline, OnPath, Maps, Resets, MapHeld, ResetHeld, Answered
<1>2. /\ Only(h) /\ mem' = mem
      /\ UNCHANGED <<mutexes, disk, zoneSide, feeders, answers, last, lastStop, tainted>>
  BY DEF StopVehicleDatabroker, Continue, Goto, Only
<1>3. \/ broker' = Stopped /\ NoSlip
      \/ broker' = broker /\ Slip(h)
  BY DEF StopVehicleDatabroker
<1>4. faults' \in Nat /\ flawed' \in SUBSET Handlers /\ Recorded /\ (h \notin flawed' => NoSlip)
  <2>1. Slip(h) \/ NoSlip
    BY <1>3
  <2> QED BY <1>2, <2>1, SlipRecorded DEF Recorded
<1>5. TypeOK'
  <2>1. pc' \in [Handlers -> Stages]
    BY <1>1, StagesAre DEF StopVehicleDatabroker, Continue, Goto, IInv, TypeOK
  <2>2. req' = req
    BY DEF StopVehicleDatabroker
  <2> QED BY <1>2, <1>3, <1>4, <2>1, <2>2 DEF mutexes, zoneSide, answers, IInv, TypeOK
<1>6. OnPath(h)' /\ (Maps(h)' => Maps(h)) /\ (Resets(h)' => Resets(h))
  BY <1>1, <1>2 DEF Only, OnPath, Maps, Resets, MapHeld, ResetHeld
<1>7. Feeding'
  <2>1. ~Restarting(h)'
    BY <1>1, <1>2 DEF Only, Restarting
  <2> QED BY <1>2, <2>1, KeepsFeeding
<1>8. Index(h)'
  BY <1>1, <1>2 DEF Only, IInv, Index
<1>9. Done(h)'
  <2> SUFFICES ASSUME h \notin flawed'
               PROVE  Done(h)'
    BY DEF Done, MapDone, ResetDone
  <2>1. broker' = Stopped /\ h \notin flawed
    BY <1>3, <1>4 DEF Slip, Recorded
  <2>2. MapDone(h)'
    BY <1>1, <1>2, <2>1 DEF Only, IInv, Done, MapDone, Maps, Past
  <2>3. ResetDone(h)'
    BY <1>1, <2>1 DEF ResetDone, Past
  <2> QED BY <2>2, <2>3 DEF Done
<1> QED BY <1>1, <1>2, <1>4, <1>5, <1>6, <1>7, <1>8, <1>9, HeldStep

\* No feeder runs that dk-manager had started, if the stop was carried out.
LEMMA StopKuksaFeederStep ==
  ASSUME IInv, NEW h \in Handlers, StopKuksaFeeder(h)
  PROVE  IInv'
<1>1. /\ pc[h] = "stopFeeder"
      /\ \/ req[h].kind = "map" /\ Maps(h) /\ pc'[h] = "send"
         \/ req[h].kind = "reset" /\ Resets(h) /\ pc'[h] = "clear"
  BY AfterMap, AfterReset DEF StopKuksaFeeder, At, Continue, Goto, IInv, TypeOK,
     Discipline, OnPath, Maps, Resets, MapHeld, ResetHeld, Answered
<1>2. /\ Only(h) /\ mem' = mem
      /\ UNCHANGED <<mutexes, disk, broker, answers, last, tainted>>
  BY DEF StopKuksaFeeder, Continue, Goto, Only
<1>3. faults' \in Nat /\ flawed' \in SUBSET Handlers /\ Recorded
  <2>1. flawed' = flawed \cup {h} => flawed' \in SUBSET Handlers /\ flawed \subseteq flawed'
    BY DEF IInv, TypeOK
  <2>2. faults' \in Nat /\ flawed' \in SUBSET Handlers /\ flawed \subseteq flawed'
    BY <2>1, SlipRecorded DEF StopKuksaFeeder, IInv, TypeOK
  <2> QED BY <1>2, <2>2 DEF Recorded
<1>4. ~Orchestrator =>
        \/ lastStop' = "missed" /\ h \in flawed' /\ UNCHANGED feeders
        \/ /\ lastStop' = IF \E g \in Handlers \ {h} : Restarting(g) THEN "shared" ELSE "alone"
           /\ feeders' = [f \in Feeds |-> 0]
  <2>1. feeders \in [Feeds -> Nat]
    BY DEF IInv, TypeOK
  <2>2. NoFeeder => feeders = [f \in Feeds |-> 0]
    BY <2>1 DEF NoFeeder
  <2> QED BY <2>2 DEF StopKuksaFeeder, StopFeeders, Slip
<1>5. TypeOK'
  <2>1. pc' \in [Handlers -> Stages]
    BY <1>1, StagesAre DEF StopKuksaFeeder, Continue, Goto, IInv, TypeOK
  <2>2. feeders' \in [Feeds -> Nat] /\ lastStop' \in {"alone", "shared", "missed"}
    BY DEF StopKuksaFeeder, StopFeeders, IInv, TypeOK
  <2>3. zone' = zone /\ link' \in Seq(Messages) /\ (~Orchestrator => link' = <<>>)
    <3>1. Copies(Blank) \in ZoneFiles
      BY DEF Copies, Blank, ZoneFiles, EmptyOverlay, Overlays
    <3>2. Message(h, "stop", Copies(Blank)) \in Messages
      BY <3>1 DEF Message, Messages
    <3>3. <<Message(h, "stop", Copies(Blank))>> \in Seq(Messages)
      BY <3>2
    <3>4. link \in Seq(Messages) /\ (~Orchestrator => link = <<>>)
      BY DEF IInv, TypeOK
    <3>5. \/ Orchestrator /\ link' = link \o <<Message(h, "stop", Copies(Blank))>>
          \/ ~Orchestrator /\ link' = link
      BY DEF StopKuksaFeeder, Emit, zoneSide
    <3>6. zone' = zone
      BY DEF StopKuksaFeeder, Emit, zoneSide
    <3> QED BY <3>3, <3>4, <3>5, <3>6
  <2>4. req' = req
    BY DEF StopKuksaFeeder
  <2> QED BY <1>2, <1>3, <2>1, <2>2, <2>3, <2>4 DEF mutexes, answers, IInv, TypeOK
<1>6. OnPath(h)' /\ (Maps(h)' => Maps(h)) /\ (Resets(h)' => Resets(h))
  BY <1>1, <1>2 DEF Only, OnPath, Maps, Resets, MapHeld, ResetHeld
<1>7. Feeding'
  <2> SUFFICES ASSUME ~Orchestrator, lastStop' # "missed"
               PROVE  Feeding'
    BY DEF Feeding
  <2>1. /\ lastStop' = IF \E g \in Handlers \ {h} : Restarting(g) THEN "shared" ELSE "alone"
        /\ \A f \in Feeds : feeders'[f] = 0
    BY <1>4
  <2>2. lastStop' = "alone" => ~(MapRestarts' /\ ResetRestarts')
    <3>1. lastStop' = "alone" => \A g \in Handlers \ {h} : ~Restarting(g)
      BY <2>1
    <3>2. \A g \in Handlers \ {h} : Restarting(g)' => Restarting(g)
      BY <1>2 DEF Only, Restarting
    <3>3. ~(Maps(h)' /\ Resets(h)')
      BY DEF Maps, Resets
    <3> QED BY <3>1, <3>2, <3>3 DEF MapRestarts, ResetRestarts
  <2> QED BY <2>1, <2>2 DEF Feeding
<1>8. Index(h)'
  BY <1>1, <1>2 DEF Only, IInv, Index
<1>9. Done(h)'
  <2> SUFFICES ASSUME h \notin flawed'
               PROVE  Done(h)'
    BY DEF Done, MapDone, ResetDone
  <2>1. /\ h \notin flawed
        /\ ~Orchestrator => NoFeeder'
    BY <1>3, <1>4 DEF Recorded, NoFeeder
  <2>2. MapDone(h)'
    BY <1>1, <1>2, <2>1 DEF Only, IInv, Done, MapDone, Maps, Past
  <2>3. ResetDone(h)'
    <3>1. pc[h] = "stopFeeder" /\ req[h].kind = "reset" => mem[h].item = 1
      BY DEF IInv, Index
    <3> QED BY <1>1, <1>2, <2>1, <3>1 DEF Only, IInv, Done, ResetDone, Resets, Past
  <2> QED BY <2>2, <2>3 DEF Done
<1> QED BY <1>1, <1>2, <1>3, <1>5, <1>6, <1>7, <1>8, <1>9, HeldStep

\* One file after the other is emptied, if the command succeeds.
LEMMA ClearNextStep ==
  ASSUME IInv, NEW h \in Handlers, ClearNext(h)
  PROVE  IInv'
<1> DEFINE n == mem[h].item
<1> HIDE DEF n
<1>1. /\ req[h].kind = "reset" /\ Resets(h) /\ pc[h] = "clear"
      /\ n \in 1..5
      /\ mem' = [mem EXCEPT ![h].item = n + 1]
      /\ pc'[h] = IF n = 5 THEN "send" ELSE "clear"
  <2>1. req[h].kind = "reset" /\ Resets(h) /\ pc[h] = "clear"
    BY DEF ClearNext, At, IInv, Discipline, OnPath, Resets, MapHeld, ResetHeld, Answered
  <2>2. n \in 1..5
    BY <2>1 DEF n, IInv, TypeOK, Memory, Index
  <2>3. Len(Cleared) = 5
    BY DEF Cleared
  <2>4. mem' = [mem EXCEPT ![h].item = n + 1]
    BY DEF ClearNext, n
  <2>5. Goto(h, IF n = 5 THEN "send" ELSE "clear")
    BY <2>3 DEF ClearNext, n
  <2> QED BY <2>1, <2>2, <2>4, <2>5 DEF Goto, IInv, TypeOK
<1>2. \/ /\ NoSlip
         /\ n = 1 => disk' = [disk EXCEPT !.dbcCan = {}]
         /\ n = 2 => disk' = [disk EXCEPT !.supported = {}]
         /\ n = 3 => disk' = [disk EXCEPT !.overlay = EmptyOverlay]
         /\ n = 4 => disk' = [disk EXCEPT !.defaults = {}]
         /\ n = 5 => disk' = [disk EXCEPT !.startScript = {}]
      \/ Slip(h) /\ disk' = disk
  <2>1. \/ disk' = [disk EXCEPT ![Cleared[n]] = Blank[Cleared[n]]] /\ NoSlip
        \/ Slip(h) /\ disk' = disk
    BY DEF ClearNext, n
  <2>2. /\ Cleared[1] = "dbcCan" /\ Cleared[2] = "supported" /\ Cleared[3] = "overlay"
        /\ Cleared[4] = "defaults" /\ Cleared[5] = "startScript"
    BY DEF Cleared
  <2>3. /\ Blank["dbcCan"] = {} /\ Blank["supported"] = {} /\ Blank["overlay"] = EmptyOverlay
        /\ Blank["defaults"] = {} /\ Blank["startScript"] = {}
    BY DEF Blank
  <2> QED BY <2>1, <2>2, <2>3
<1>3. /\ mem' \in [Handlers -> Memory] /\ mem'[h].item = n + 1
      /\ mem'[h].ok = mem[h].ok
  <2>1. mem[h] \in Memory /\ mem \in [Handlers -> Memory]
    BY DEF IInv, TypeOK
  <2>2. /\ [mem[h] EXCEPT !.item = n + 1] \in Memory
        /\ [mem[h] EXCEPT !.item = n + 1].item = n + 1
        /\ [mem[h] EXCEPT !.item = n + 1].ok = mem[h].ok
    <3>1. n + 1 \in Nat
      BY <1>1
    <3>2. [mem[h] EXCEPT !.item = n + 1] \in Memory
      BY <2>1, <3>1, FieldTyped
    <3> QED BY <2>1, <3>2 DEF Memory
  <2> QED BY <1>1, <2>1, <2>2
<1>4. /\ Only(h)
      /\ UNCHANGED <<mutexes, zoneSide, broker, feeders, answers, last, lastStop, tainted>>
  BY DEF ClearNext, Goto, Only
<1>5. faults' \in Nat /\ flawed' \in SUBSET Handlers /\ Recorded /\ (h \notin flawed' => NoSlip)
  <2>1. Slip(h) \/ NoSlip
    BY <1>2
  <2> QED BY <1>4, <2>1, SlipRecorded DEF Recorded
<1>6. disk \in Files /\ disk' \in Files
  <2>1. disk \in Files /\ EmptyOverlay \in Overlays
    BY DEF IInv, TypeOK, EmptyOverlay, Overlays
  <2> QED BY <1>1, <1>2, <2>1 DEF Files
<1>7. TypeOK'
  <2>1. pc' \in [Handlers -> Stages]
    BY StagesAre DEF ClearNext, Goto, IInv, TypeOK
  <2>2. req' = req
    BY DEF ClearNext
  <2> QED BY <1>3, <1>4, <1>5, <1>6, <2>1, <2>2 DEF mutexes, zoneSide, answers, IInv, TypeOK
<1>8. OnPath(h)' /\ (Maps(h)' => Maps(h)) /\ (Resets(h)' => Resets(h))
  BY <1>1, <1>4 DEF Only, OnPath, Maps, Resets, ResetHeld
<1>9. Feeding'
  <2>1. /\ Maps(h)' /\ Restarting(h)' => Maps(h) /\ Restarting(h)
        /\ Resets(h)' /\ Restarting(h)' => Resets(h) /\ Restarting(h)
    BY <1>1, <1>4 DEF Only, Maps, Resets, Restarting
  <2> QED BY <1>4, <2>1, KeepsFeeding
<1>10. Index(h)'
  BY <1>1, <1>3, <1>4 DEF Only, Index
<1>11. Done(h)'
  <2> SUFFICES ASSUME h \notin flawed'
               PROVE  Done(h)'
    BY DEF Done, MapDone, ResetDone
  <2>1. h \notin flawed
    BY <1>5 DEF Recorded
  <2>2. /\ n = 1 => disk' = [disk EXCEPT !.dbcCan = {}]
        /\ n = 2 => disk' = [disk EXCEPT !.supported = {}]
        /\ n = 3 => disk' = [disk EXCEPT !.overlay = EmptyOverlay]
        /\ n = 4 => disk' = [disk EXCEPT !.defaults = {}]
        /\ n = 5 => disk' = [disk EXCEPT !.startScript = {}]
    BY <1>2, <1>5 DEF Slip
  <2>3. /\ n > 1 => disk.dbcCan = {}
        /\ n > 2 => disk.supported = {}
        /\ n > 3 => disk.overlay = EmptyOverlay
        /\ n > 4 => disk.defaults = {}
        /\ broker = Stopped /\ (~Orchestrator => NoFeeder)
    BY <1>1, <2>1 DEF n, IInv, Done, ResetDone, Past
  <2>4. /\ disk'.dbcCan = {} \/ (n < 1 /\ disk'.dbcCan = disk.dbcCan)
        /\ disk'.supported = {} \/ (n < 2 /\ disk'.supported = disk.supported)
        /\ disk'.overlay = EmptyOverlay \/ (n < 3 /\ disk'.overlay = disk.overlay)
        /\ disk'.defaults = {} \/ (n < 4 /\ disk'.defaults = disk.defaults)
        /\ disk'.startScript = {} \/ (n < 5 /\ disk'.startScript = disk.startScript)
    <3>1. CASE n = 1
      BY <1>6, <2>2, <3>1 DEF Files
    <3>2. CASE n = 2
      BY <1>6, <2>2, <2>3, <3>2 DEF Files
    <3>3. CASE n = 3
      BY <1>6, <2>2, <2>3, <3>3 DEF Files
    <3>4. CASE n = 4
      BY <1>6, <2>2, <2>3, <3>4 DEF Files
    <3>5. CASE n = 5
      BY <1>6, <2>2, <2>3, <3>5 DEF Files
    <3> QED BY <1>1, <3>1, <3>2, <3>3, <3>4, <3>5
  <2>5. ResetDone(h)'
    BY <1>1, <1>3, <1>4, <2>3, <2>4 DEF ResetDone, Past, NoFeeder
  <2>6. MapDone(h)'
    BY <1>1, <1>4 DEF Only, MapDone, Maps
  <2> QED BY <2>5, <2>6 DEF Done
<1> QED BY <1>1, <1>4, <1>5, <1>7, <1>8, <1>9, <1>10, <1>11, HeldStep

\* The files are as they were; what goes out, goes out on the link.
LEMMA SendFilesStep ==
  ASSUME IInv, NEW h \in Handlers, SendFiles(h)
  PROVE  IInv'
<1>1. /\ pc[h] = "send"
      /\ \/ req[h].kind = "map" /\ Maps(h) /\ pc'[h] = "broker"
         \/ req[h].kind = "reset" /\ Resets(h) /\ pc'[h] = "json"
  BY AfterMap, AfterReset DEF SendFiles, At, Continue, Goto, IInv, TypeOK,
     Discipline, OnPath, Maps, Resets, MapHeld, ResetHeld, Answered
<1>2. /\ Only(h) /\ mem' = mem
      /\ UNCHANGED <<mutexes, disk, broker, feeders, answers, last, lastStop, tainted>>
  BY DEF SendFiles, Continue, Goto, Only
<1>3. faults' \in Nat /\ flawed' \in SUBSET Handlers /\ Recorded
  <2>1. Slip(h) \/ NoSlip
    BY DEF SendFiles
  <2> QED BY <1>2, <2>1, SlipRecorded DEF Recorded
<1>4. TypeOK'
  <2>1. pc' \in [Handlers -> Stages]
    BY <1>1, StagesAre DEF SendFiles, Continue, Goto, IInv, TypeOK
  <2>2. zone' = zone /\ link' \in Seq(Messages) /\ (~Orchestrator => link' = <<>>)
    <3>1. disk \in Files /\ link \in Seq(Messages) /\ (~Orchestrator => link = <<>>)
      BY DEF IInv, TypeOK
    <3>2. FileMessages(h, disk) \in Seq(Messages)
      BY <3>1, MessagesTyped
    <3>3. \A file \in DOMAIN Copies(Blank) :
             FileMessages(h, [disk EXCEPT ![file] = Blank[file]]) \in Seq(Messages)
      BY <3>1, EmptiedTyped, MessagesTyped
    <3>4. \/ Orchestrator /\ zone' = zone /\ link' = link \o FileMessages(h, disk)
          \/ /\ Orchestrator /\ zone' = zone
             /\ \E file \in DOMAIN Copies(Blank) :
                   link' = link \o FileMessages(h, [disk EXCEPT ![file] = Blank[file]])
          \/ ~Orchestrator /\ zone' = zone /\ link' = link
      BY DEF SendFiles, Emit, zoneSide
    <3>5. \A sent \in Seq(Messages) : link \o sent \in Seq(Messages)
      BY <3>1
    <3>6. CASE Orchestrator /\ zone' = zone /\ link' = link \o FileMessages(h, disk)
      BY <3>2, <3>5, <3>6
    <3>7. CASE /\ Orchestrator /\ zone' = zone
               /\ \E file \in DOMAIN Copies(Blank) :
                     link' = link \o FileMessages(h, [disk EXCEPT ![file] = Blank[file]])
      BY <3>3, <3>5, <3>7
    <3>8. CASE ~Orchestrator /\ zone' = zone /\ link' = link
      BY <3>1, <3>8
    <3> QED BY <3>4, <3>6, <3>7, <3>8
  <2>3. req' = req
    BY DEF SendFiles
  <2> QED BY <1>2, <1>3, <2>1, <2>2, <2>3 DEF mutexes, answers, IInv, TypeOK
<1>5. OnPath(h)' /\ (Maps(h)' => Maps(h)) /\ (Resets(h)' => Resets(h))
  BY <1>1, <1>2 DEF Only, OnPath, Maps, Resets, MapHeld, ResetHeld
<1>6. Feeding'
  <2>1. /\ Maps(h)' /\ Restarting(h)' => Maps(h) /\ Restarting(h)
        /\ Resets(h)' /\ Restarting(h)' => Resets(h) /\ Restarting(h)
    BY <1>1, <1>2 DEF Only, Maps, Resets, Restarting
  <2> QED BY <1>2, <2>1, KeepsFeeding
<1>7. Index(h)'
  BY <1>1, <1>2 DEF Only, IInv, Index
<1>8. Done(h)'
  <2> SUFFICES ASSUME h \notin flawed'
               PROVE  Done(h)'
    BY DEF Done, MapDone, ResetDone
  <2>1. h \notin flawed
    BY <1>3 DEF Recorded
  <2>2. MapDone(h)'
    BY <1>1, <1>2, <2>1 DEF Only, IInv, Done, MapDone, Maps, Past, NoFeeder
  <2>3. ResetDone(h)'
    BY <1>1, <1>2, <2>1 DEF Only, IInv, Done, ResetDone, Resets, Past, NoFeeder
  <2> QED BY <2>2, <2>3 DEF Done
<1> QED BY <1>1, <1>2, <1>3, <1>4, <1>5, <1>6, <1>7, <1>8, HeldStep

\* The databroker comes up with vss.json, which comes from the overlay, if it comes up.
LEMMA StartVehicleDatabrokerStep ==
  ASSUME IInv, NEW h \in Handlers, StartVehicleDatabroker(h)
  PROVE  IInv'
<1>1. /\ pc[h] = "broker" /\ pc'[h] = "feeder"
      /\ \/ req[h].kind = "map" /\ Maps(h)
         \/ req[h].kind = "reset" /\ Resets(h)
  BY AfterMap, AfterReset DEF StartVehicleDatabroker, At, Continue, Goto, IInv, TypeOK,
     Discipline, OnPath, Maps, Resets, MapHeld, ResetHeld, Answered
<1>2. /\ Only(h) /\ mem' = mem
      /\ UNCHANGED <<mutexes, disk, zoneSide, feeders, answers, last, lastStop, tainted>>
  BY DEF StartVehicleDatabroker, Continue, Goto, Only
<1>3. \/ broker' = (IF broker = Stopped THEN disk.vssJson ELSE broker) /\ NoSlip
      \/ broker' = broker /\ Slip(h)
  BY DEF StartVehicleDatabroker
<1>4. faults' \in Nat /\ flawed' \in SUBSET Handlers /\ Recorded /\ (h \notin flawed' => NoSlip)
  <2>1. Slip(h) \/ NoSlip
    BY <1>3
  <2> QED BY <1>2, <2>1, SlipRecorded DEF Recorded
<1>5. TypeOK'
  <2>1. pc' \in [Handlers -> Stages]
    BY <1>1, StagesAre DEF StartVehicleDatabroker, Continue, Goto, IInv, TypeOK
  <2>2. broker' \in Overlays \cup {Stopped} /\ req' = req
    BY <1>3 DEF StartVehicleDatabroker, IInv, TypeOK, Files
  <2> QED BY <1>2, <1>4, <2>1, <2>2 DEF mutexes, zoneSide, answers, IInv, TypeOK
<1>6. OnPath(h)' /\ (Maps(h)' => Maps(h)) /\ (Resets(h)' => Resets(h))
  BY <1>1, <1>2 DEF Only, OnPath, Maps, Resets, MapHeld, ResetHeld
<1>7. Feeding'
  <2>1. /\ Maps(h)' /\ Restarting(h)' => Maps(h) /\ Restarting(h)
        /\ Resets(h)' /\ Restarting(h)' => Resets(h) /\ Restarting(h)
    BY <1>1, <1>2 DEF Only, Maps, Resets, Restarting
  <2> QED BY <1>2, <2>1, KeepsFeeding
<1>8. Index(h)'
  BY <1>1, <1>2 DEF Only, IInv, Index
<1>9. Done(h)'
  <2> SUFFICES ASSUME h \notin flawed'
               PROVE  Done(h)'
    BY DEF Done, MapDone, ResetDone
  <2>1. h \notin flawed /\ broker' = IF broker = Stopped THEN disk.vssJson ELSE broker
    BY <1>3, <1>4 DEF Slip, Recorded
  <2>2. MapDone(h)'
    BY <1>1, <1>2, <2>1 DEF Only, IInv, Done, MapDone, Maps, Past, NoFeeder
  <2>3. ResetDone(h)'
    BY <1>1, <1>2, <2>1 DEF Only, IInv, Done, ResetDone, Resets, Past, NoFeeder
  <2> QED BY <2>2, <2>3 DEF Done
<1> QED BY <1>1, <1>2, <1>4, <1>5, <1>6, <1>7, <1>8, <1>9, HeldStep

\* The feeders of the start script start, where and if dk-manager starts them.
LEMMA StartKuksaFeederStep ==
  ASSUME IInv, NEW h \in Handlers, StartKuksaFeeder(h)
  PROVE  IInv'
<1>1. /\ pc[h] = "feeder"
      /\ \/ req[h].kind = "map" /\ Maps(h) /\ pc'[h] = "supported"
         \/ req[h].kind = "reset" /\ Resets(h) /\ pc'[h] = "unlock"
  BY AfterMap, AfterReset DEF StartKuksaFeeder, At, Continue, Goto, IInv, TypeOK,
     Discipline, OnPath, Maps, Resets, MapHeld, ResetHeld, Answered
<1>2. /\ Only(h) /\ mem' = mem
      /\ UNCHANGED <<mutexes, disk, broker, answers, last, lastStop, tainted>>
  BY DEF StartKuksaFeeder, Continue, Goto, Only
<1>3. Slip(h) \/ NoSlip
  BY DEF StartKuksaFeeder
<1>4. faults' \in Nat /\ flawed' \in SUBSET Handlers /\ Recorded /\ (h \notin flawed' => NoSlip)
  BY <1>2, <1>3, SlipRecorded DEF Recorded
<1>5. ~Orchestrator =>
        \/ feeders' = feeders /\ Slip(h)
        \/ feeders' = [f \in Feeds |-> IF f \in disk.startScript THEN feeders[f] + 1
                                       ELSE feeders[f]]
  BY DEF StartKuksaFeeder, StartFeeders
<1>6. feeders \in [Feeds -> Nat]
  BY DEF IInv, TypeOK
<1>7. TypeOK'
  <2>1. pc' \in [Handlers -> Stages]
    BY <1>1, StagesAre DEF StartKuksaFeeder, Continue, Goto, IInv, TypeOK
  <2>2. feeders' \in [Feeds -> Nat]
    BY <1>5, <1>6 DEF StartKuksaFeeder
  <2>3. zone' = zone /\ link' \in Seq(Messages) /\ (~Orchestrator => link' = <<>>)
    <3>1. Copies(Blank) \in ZoneFiles
      BY DEF Copies, Blank, ZoneFiles, EmptyOverlay, Overlays
    <3>2. Message(h, "start", Copies(Blank)) \in Messages
      BY <3>1 DEF Message, Messages
    <3>3. <<Message(h, "start", Copies(Blank))>> \in Seq(Messages)
      BY <3>2
    <3>4. link \in Seq(Messages) /\ (~Orchestrator => link = <<>>)
      BY DEF IInv, TypeOK
    <3>5. \/ Orchestrator /\ link' = link \o <<Message(h, "start", Copies(Blank))>>
          \/ link' = link
      BY DEF StartKuksaFeeder, Emit, zoneSide
    <3>6. zone' = zone
      BY DEF StartKuksaFeeder, Emit, zoneSide
    <3> QED BY <3>3, <3>4, <3>5, <3>6
  <2>4. req' = req
    BY DEF StartKuksaFeeder
  <2> QED BY <1>2, <1>4, <2>1, <2>2, <2>3, <2>4 DEF mutexes, answers, IInv, TypeOK
<1>8. OnPath(h)' /\ (Maps(h)' => Maps(h)) /\ (Resets(h)' => Resets(h))
  BY <1>1, <1>2 DEF Only, OnPath, Maps, Resets, MapHeld, ResetHeld
<1>9. Feeding'
  <2> SUFFICES ASSUME ~Orchestrator
               PROVE  Feeding'
    BY DEF Feeding
  <2>1. \A f \in Feeds : feeders'[f] <= feeders[f] + 1 /\ feeders[f] \in Nat /\ feeders'[f] \in Nat
    BY <1>5, <1>6
  <2>2. \A g \in Handlers \ {h} : /\ (Maps(g) /\ Restarting(g))' <=> Maps(g) /\ Restarting(g)
                                  /\ (Resets(g) /\ Restarting(g))' <=> Resets(g) /\ Restarting(g)
    BY <1>2 DEF Only, Maps, Resets, Restarting
  <2>3. \A g \in Handlers \ {h} : /\ Maps(h) => ~Maps(g)
                                  /\ Resets(h) => ~Resets(g)
    BY DEF IInv, Discipline
  <2>4. ~Restarting(h)' /\ Restarting(h)
    BY <1>1, <1>2 DEF Only, Restarting
  <2>5. \/ MapRestarts /\ ~MapRestarts' /\ (ResetRestarts' <=> ResetRestarts)
        \/ ResetRestarts /\ ~ResetRestarts' /\ (MapRestarts' <=> MapRestarts)
    <3>1. CASE req[h].kind = "map" /\ Maps(h)
      <4>1. ~Resets(h)
        BY <3>1 DEF Resets
      <4> QED BY <3>1, <4>1, <2>2, <2>3, <2>4 DEF MapRestarts, ResetRestarts
    <3>2. CASE req[h].kind = "reset" /\ Resets(h)
      <4>1. ~Maps(h)
        BY <3>2 DEF Maps
      <4> QED BY <3>2, <4>1, <2>2, <2>3, <2>4 DEF MapRestarts, ResetRestarts
    <3> QED BY <1>1, <3>1, <3>2
  <2>6. Feeding /\ lastStop' = lastStop
    BY <1>2 DEF IInv
  <2> QED BY <2>1, <2>5, <2>6 DEF Feeding
<1>10. Index(h)'
  BY <1>1, <1>2 DEF Only, IInv, Index
<1>11. Done(h)'
  <2> SUFFICES ASSUME h \notin flawed'
               PROVE  Done(h)'
    BY DEF Done, MapDone, ResetDone
  <2>1. /\ h \notin flawed
        /\ ~Orchestrator => feeders' = [f \in Feeds |-> IF f \in disk.startScript
                                                          THEN feeders[f] + 1 ELSE feeders[f]]
    BY <1>4, <1>5 DEF Slip, Recorded
  <2>2. MapDone(h)'
    <3>1. req[h].kind = "map" /\ ~Orchestrator => Followed'
      BY <1>1, <1>2, <1>6, <2>1 DEF IInv, Done, MapDone, Past, NoFeeder, Followed
    <3> QED BY <1>1, <1>2, <2>1, <3>1 DEF Only, IInv, Done, MapDone, Maps, Past
  <2>3. ResetDone(h)'
    <3>1. req[h].kind = "reset" /\ ~Orchestrator => NoFeeder'
      BY <1>1, <1>2, <1>6, <2>1 DEF IInv, Done, ResetDone, Past, NoFeeder
    <3> QED BY <1>1, <1>2, <2>1, <3>1 DEF Only, IInv, Done, ResetDone, Resets, Past
  <2> QED BY <2>2, <2>3 DEF Done
<1> QED BY <1>1, <1>2, <1>4, <1>7, <1>8, <1>9, <1>10, <1>11, HeldStep

\* The list of supported APIs is no part of what Done says of a mapping.
LEMMA UpdateSupportedStep ==
  ASSUME IInv, NEW h \in Handlers, UpdateSupported(h)
  PROVE  IInv'
<1>1. pc[h] = "supported" /\ req[h].kind = "map" /\ Maps(h) /\ pc'[h] = "unlock"
  BY AfterMap DEF UpdateSupported, At, Continue, Goto, IInv, TypeOK, Discipline, OnPath,
     Maps,
     MapHeld, ResetHeld, Answered
<1>2. /\ Only(h) /\ mem' = mem
      /\ UNCHANGED <<mutexes, zoneSide, broker, feeders, answers, last, lastStop>>
  BY DEF UpdateSupported, Continue, Goto, Only
<1>3. /\ faults' \in Nat /\ flawed' \in SUBSET Handlers /\ Recorded
      /\ tainted' \in BOOLEAN
  <2>1. Slip(h) \/ NoSlip
    BY DEF UpdateSupported
  <2>2. tainted' \in BOOLEAN /\ (tainted => tainted')
    <3>1. tainted' = tainted \/ tainted' = TRUE
      BY DEF UpdateSupported
    <3>2. tainted \in BOOLEAN
      BY DEF IInv, TypeOK
    <3>3. CASE tainted' = tainted
      BY <3>2, <3>3
    <3>4. CASE tainted' = TRUE
      BY <3>4
    <3> QED BY <3>1, <3>3, <3>4
  <2> QED BY <2>1, <2>2, SlipRecorded DEF Recorded
<1>4. PICK list \in SUBSET Vss : disk' = [disk EXCEPT !.supported = list]
  <2>1. disk.supported \in SUBSET Vss
    BY DEF IInv, TypeOK, Files
  <2>2. Supported(disk.supported, mem[h].added, mem[h].deleted) \in SUBSET Vss
    BY <2>1 DEF Supported
  <2> QED BY <2>1, <2>2 DEF UpdateSupported
<1>5. disk \in Files /\ disk' \in Files
  <2>1. disk \in Files
    BY DEF IInv, TypeOK
  <2> QED BY <1>4, <2>1 DEF Files
<1>6. TypeOK'
  <2>1. pc' \in [Handlers -> Stages]
    BY <1>1, StagesAre DEF UpdateSupported, Continue, Goto, IInv, TypeOK
  <2>2. req' = req
    BY DEF UpdateSupported
  <2> QED BY <1>2, <1>3, <1>5, <2>1, <2>2 DEF mutexes, zoneSide, answers, IInv, TypeOK
<1>7. OnPath(h)' /\ (Maps(h)' => Maps(h)) /\ (Resets(h)' => Resets(h))
  BY <1>1, <1>2 DEF Only, OnPath, Maps, Resets, MapHeld, ResetHeld
<1>8. Feeding'
  <2>1. ~Restarting(h)'
    BY <1>1, <1>2 DEF Only, Restarting
  <2> QED BY <1>2, <2>1, KeepsFeeding
<1>9. Index(h)'
  BY <1>1, <1>2 DEF Only, IInv, Index
<1>10. Done(h)'
  <2>1. ResetDone(h)'
    BY <1>1, <1>2 DEF Only, ResetDone, Resets
  <2>2. /\ disk'.overlay = disk.overlay /\ disk'.vssJson = disk.vssJson
        /\ disk'.model = disk.model /\ disk'.startScript = disk.startScript
        /\ disk'.dbcCan = disk.dbcCan
    BY <1>4, <1>5 DEF Files
  <2>3. MapDone(h)'
    BY <1>1, <1>2, <1>3, <2>2 DEF Only, Recorded, IInv, Done, MapDone, Past, Followed
  <2> QED BY <2>1, <2>3 DEF Done
<1> QED BY <1>1, <1>2, <1>3, <1>6, <1>7, <1>8, <1>9, <1>10, HeldStep

-----------------------------------------------------------------------------
(* The other steps.                                                        *)

\* A command begins.
LEMMA ArriveStep ==
  ASSUME IInv, NEW h \in Handlers, NEW r \in Request, Arrive(h, r)
  PROVE  IInv'
<1>1. /\ pc[h] = "idle" /\ pc' = [pc EXCEPT ![h] = IF r.kind = "set" THEN "open" ELSE "lock"]
      /\ req' = [req EXCEPT ![h] = r]
      /\ UNCHANGED <<mutexes, mem, disk, zoneSide, broker, feeders, answers, history>>
  BY DEF Arrive, Goto
<1>2. r.kind \in {"map", "reset", "set"}
  BY RequestFacts
<1>3. pc' \in [Handlers -> Stages] /\ req' \in [Handlers -> Request \cup {NoRequest}]
  BY <1>1, StagesAre DEF IInv, TypeOK
<1>4. TypeOK'
  BY <1>1, <1>3 DEF mutexes, zoneSide, answers, history, IInv, TypeOK
<1>5. pc'[h] = (IF r.kind = "set" THEN "open" ELSE "lock") /\ req'[h] = r
  BY <1>1 DEF IInv, TypeOK
<1>6. \A g \in Handlers \ {h} : pc'[g] = pc[g] /\ mem'[g] = mem[g] /\ req'[g] = req[g]
  BY <1>1 DEF IInv, TypeOK
<1>7. Discipline'
  <2> SUFFICES ASSUME NEW g \in Handlers
               PROVE  /\ OnPath(g)'
                      /\ Maps(g)' => vssMappingMutex' = g
                      /\ Resets(g)' => vssMappingFactoryResetMutex' = g
    BY DEF Discipline
  <2>1. CASE g = h
    BY <1>2, <1>5, <2>1 DEF OnPath, Maps, Resets, MapHeld, ResetHeld
  <2>2. CASE g # h
    BY <1>1, <1>6, <2>2 DEF IInv, Discipline, mutexes, OnPath, Maps, Resets
  <2> QED BY <2>1, <2>2
<1>8. \A g \in Handlers : (Maps(g)' => g # h /\ Maps(g)) /\ (Resets(g)' => g # h /\ Resets(g))
  BY <1>5, <1>6 DEF Maps, Resets, MapHeld, ResetHeld
<1>9. Separate'
  BY <1>1, <1>8 DEF IInv, Separate, history
<1>10. Feeding'
  <2>1. \A g \in Handlers \ {h} : Restarting(g)' => Restarting(g)
    BY <1>6 DEF Restarting
  <2> QED BY <1>1, <1>8, <2>1, SameFeeders DEF history
<1>11. Index(h)'
  BY <1>1, <1>5 DEF IInv, Index
<1>12. Done(h)'
  BY <1>8 DEF Done, MapDone, ResetDone
<1>13. \A g \in Handlers \ {h} : Index(g)' /\ Done(g)'
  BY <1>1, <1>6, OthersSeeNothing DEF history
<1> QED BY <1>4, <1>7, <1>9, <1>10, <1>11, <1>12, <1>13 DEF IInv

\* The mutex of the command was free: whoever is at its side runs the other command.
LEMMA LockStep ==
  ASSUME IInv, NEW h \in Handlers, Lock(h)
  PROVE  IInv'
<1>1. /\ pc[h] = "lock" /\ UNCHANGED <<req, mem, disk, zoneSide, broker, feeders, answers>>
      /\ UNCHANGED <<faults, lastStop>> /\ last' = h
      /\ flawed' = (IF Beside(h) = {} THEN flawed ELSE flawed \cup {h} \cup Beside(h))
      /\ tainted' = (tainted \/ Beside(h) # {})
      /\ \/ /\ req[h].kind = "map" /\ vssMappingMutex = None /\ vssMappingMutex' = h
            /\ pc' = [pc EXCEPT ![h] = "save"]
            /\ UNCHANGED vssMappingFactoryResetMutex
         \/ /\ req[h].kind = "reset" /\ vssMappingFactoryResetMutex = None
            /\ vssMappingFactoryResetMutex' = h /\ pc' = [pc EXCEPT ![h] = "stopBroker"]
            /\ UNCHANGED vssMappingMutex
  BY AfterMap, AfterReset DEF Lock, Begin, At, Continue, Goto
<1>2. Only(h) /\ pc'[h] \in {"save", "stopBroker"}
  BY <1>1 DEF Only, IInv, TypeOK
<1>3. Recorded
  BY <1>1 DEF Recorded
<1>4. TypeOK'
  <2>1. pc' \in [Handlers -> Stages]
    BY <1>1, StagesAre DEF IInv, TypeOK
  <2>2. flawed' \in SUBSET Handlers
    BY <1>1 DEF Beside, IInv, TypeOK
  <2>3. tainted' \in BOOLEAN
    BY <1>1
  <2> QED BY <1>1, <2>1, <2>2, <2>3 DEF zoneSide, answers, IInv, TypeOK
<1>5. Discipline'
  <2> SUFFICES ASSUME NEW g \in Handlers
               PROVE  /\ OnPath(g)'
                      /\ Maps(g)' => vssMappingMutex' = g
                      /\ Resets(g)' => vssMappingFactoryResetMutex' = g
    BY DEF Discipline
  <2>1. CASE g = h
    BY <1>1, <2>1 DEF IInv, TypeOK, OnPath, Maps, Resets, MapHeld, ResetHeld
  <2>2. CASE g # h
    BY <1>1, <1>2, <2>2, MarkersAssumption DEF IInv, Discipline, Only, OnPath, Maps, Resets
  <2> QED BY <2>1, <2>2
<1>6. Separate'
  <2>1. \A g \in Handlers \ {h} : (Maps(g)' => Maps(g)) /\ (Resets(g)' => Resets(g))
    BY <1>2 DEF Only, Maps, Resets
  <2>2. ASSUME NEW g \in Handlers \ {h}, Maps(g) \/ Resets(g)
        PROVE  g \in flawed' /\ h \in flawed' /\ tainted'
    <3>1. req[g].kind # req[h].kind
      BY <1>1, <2>2, MarkersAssumption DEF IInv, Discipline, Maps, Resets
    <3>2. Holding(g)
      BY <2>2 DEF Maps, Resets, MapHeld, ResetHeld, Holding, Unlocked
    <3>3. g \in Beside(h)
      BY <3>1, <3>2 DEF Beside
    <3> QED BY <1>1, <3>3
  <2>3. \A g, k \in Handlers \ {h} :
           g # k /\ (Maps(g) \/ Resets(g)) /\ (Maps(k) \/ Resets(k)) =>
              g \in flawed' /\ k \in flawed' /\ tainted'
    BY <1>3 DEF IInv, Separate, Recorded
  <2> QED BY <2>1, <2>2, <2>3 DEF Separate
<1>7. Feeding'
  <2>1. ~Restarting(h)'
    BY <1>1, <1>2 DEF Only, Restarting, IInv, TypeOK
  <2> QED BY <1>1, <1>2, <2>1, KeepsFeeding
<1>8. Index(h)'
  BY <1>1, <1>2 DEF IInv, Index
<1>9. Done(h)'
  BY <1>1 DEF Done, MapDone, ResetDone, Maps, Past, IInv, TypeOK
<1>10. \A g \in Handlers \ {h} : Index(g)' /\ Done(g)'
  BY <1>1, <1>2, <1>3, OthersSeeNothing DEF Only, Recorded
<1> QED BY <1>4, <1>5, <1>6, <1>7, <1>8, <1>9, <1>10 DEF IInv

\* Whoever releases a mutex held it; a flawless reset was alone.
LEMMA UnlockStep ==
  ASSUME IInv, NEW h \in Handlers, Unlock(h)
  PROVE  IInv'
<1>1. /\ pc[h] = "unlock" /\ UNCHANGED <<req, mem, disk, zoneSide, broker, feeders,
           answers>>
      /\ UNCHANGED <<faults, flawed, last, lastStop>>
      /\ \/ /\ Maps(h) /\ vssMappingMutex' = None /\ UNCHANGED vssMappingFactoryResetMutex
         \/ /\ Resets(h) /\ vssMappingFactoryResetMutex' = None /\ UNCHANGED vssMappingMutex
      /\ req[h].kind \in {"map", "reset"} /\ pc' = [pc EXCEPT ![h] = "answer"]
  <2>1. pc[h] = "unlock" /\ (Maps(h) \/ Resets(h))
    BY DEF Unlock, At, IInv, Discipline, OnPath, Maps, Resets, MapHeld, ResetHeld, Answered
  <2> QED BY <2>1, AfterMap, AfterReset DEF Unlock, Continue, Goto, Maps, Resets
<1>2. \/ tainted' = TRUE
      \/ tainted' = (h \in flawed)
      \/ tainted' = tainted
  BY DEF Unlock
<1>3. Only(h) /\ pc'[h] = "answer"
  BY <1>1 DEF Only, IInv, TypeOK
<1>4. TypeOK'
  <2>1. pc' \in [Handlers -> Stages]
    BY <1>1, StagesAre DEF IInv, TypeOK
  <2>2. tainted' \in BOOLEAN
    <3>1. tainted \in BOOLEAN
      BY DEF IInv, TypeOK
    <3>2. (h \in flawed) \in BOOLEAN
      OBVIOUS
    <3>3. CASE tainted' = TRUE
      BY <3>3
    <3>4. CASE tainted' = (h \in flawed)
      BY <3>2, <3>4
    <3>5. CASE tainted' = tainted
      BY <3>1, <3>5
    <3> QED BY <1>2, <3>3, <3>4, <3>5
  <2> QED BY <1>1, <2>1, <2>2 DEF zoneSide, answers, IInv, TypeOK
<1>5. Discipline'
  <2> SUFFICES ASSUME NEW g \in Handlers
               PROVE  /\ OnPath(g)'
                      /\ Maps(g)' => vssMappingMutex' = g
                      /\ Resets(g)' => vssMappingFactoryResetMutex' = g
    BY DEF Discipline
  <2>1. CASE g = h
    BY <1>1, <1>3, <2>1 DEF OnPath, Maps, Resets, MapHeld, ResetHeld, Answered
  <2>2. CASE g # h
    BY <1>1, <1>3, <2>2 DEF IInv, Discipline, Only, OnPath, Maps, Resets
  <2> QED BY <2>1, <2>2
<1>6. Separate'
  <2>1. \A g \in Handlers : (Maps(g)' => g # h /\ Maps(g)) /\ (Resets(g)' => g # h /\ Resets(g))
    BY <1>3 DEF Only, Maps, Resets, MapHeld, ResetHeld
  <2>2. ASSUME NEW g \in Handlers \ {h}, Maps(g) \/ Resets(g)
        PROVE  tainted'
    <3>1. tainted /\ h \in flawed
      BY <1>1, <2>2 DEF IInv, Separate
    <3>2. CASE tainted' = TRUE
      BY <3>2
    <3>3. CASE tainted' = (h \in flawed)
      BY <3>1, <3>3
    <3>4. CASE tainted' = tainted
      BY <3>1, <3>4
    <3> QED BY <1>2, <3>2, <3>3, <3>4
  <2> QED BY <1>1, <2>1, <2>2 DEF IInv, Separate
<1>7. Feeding'
  <2>1. ~Restarting(h)'
    BY <1>3 DEF Only, Restarting
  <2> QED BY <1>1, <1>3, <2>1, KeepsFeeding
<1>8. Index(h)'
  BY <1>1, <1>3 DEF IInv, Index
<1>9. Done(h)'
  BY <1>3 DEF Done, MapDone, ResetDone, Maps, Resets, MapHeld, ResetHeld
<1>10. \A g \in Handlers \ {h} : Index(g)' /\ Done(g)'
  BY <1>1, <1>3, OthersSeeNothing DEF Only
<1> QED BY <1>4, <1>5, <1>6, <1>7, <1>8, <1>9, <1>10 DEF IInv

\* Outside lock and unlock only the list of supported APIs is written, and nothing is
\* claimed of it but while a flawless reset runs.
LEMMA OutsideStep ==
  ASSUME IInv, NEW h \in Handlers, Only(h), TypeOK', Recorded,
         pc[h] \in {"open", "close"} \cup Answered, pc'[h] \in {"open",
           "close"} \cup Answered,
         OnPath(h)', mem'[h].item = mem[h].item,
         UNCHANGED <<mutexes, broker, feeders, lastStop>>,
         \/ disk' = disk
         \/ /\ \E apis \in SUBSET Vss : disk' = [disk EXCEPT !.supported = apis]
            /\ flawed' = Disturbed
  PROVE  IInv'
<1>1. ~Maps(h) /\ ~Resets(h) /\ ~Maps(h)' /\ ~Resets(h)' /\ ~Restarting(h)'
  <2>1. pc'[h] \notin {"clear", "send", "broker", "feeder", "json", "model"}
    BY DEF Answered
  <2> QED BY <2>1 DEF Maps, Resets, MapHeld, ResetHeld, Answered, Restarting
<1>2. /\ disk'.overlay = disk.overlay /\ disk'.vssJson = disk.vssJson
      /\ disk'.model = disk.model /\ disk'.dbcCan = disk.dbcCan
      /\ disk'.defaults = disk.defaults
      /\ disk'.startScript = disk.startScript /\ disk'.stopScript = disk.stopScript
  BY DEF IInv, TypeOK, Files
<1>3. Discipline' /\ Separate'
  BY <1>1, KeepsPath
<1>4. Feeding'
  BY <1>1, KeepsFeeding
<1>5. Index(h)'
  BY DEF Only, IInv, Index, Answered
<1>6. Done(h)'
  BY <1>1 DEF Done, MapDone, ResetDone
<1>7. ASSUME NEW g \in Handlers \ {h} PROVE Index(g)' /\ Done(g)'
  <2>1. pc'[g] = pc[g] /\ mem'[g] = mem[g] /\ req'[g] = req[g]
    BY DEF Only
  <2>2. Index(g)'
    BY <2>1 DEF IInv, Index
  <2>3. g \notin flawed' => g \notin flawed /\ (Resets(g) => disk' = disk)
    <3>1. Resets(g) => Holding(g) /\ req[g].kind = "reset"
      BY DEF Resets, ResetHeld, Holding, Unlocked
    <3> QED BY <3>1 DEF Recorded, Disturbed
  <2>4. ResetDone(g)'
    BY <2>1, <2>3 DEF IInv, Done, ResetDone, Resets, Past, NoFeeder
  <2>5. MapDone(g)'
    BY <1>2, <2>1, <2>3 DEF IInv, Done, MapDone, Maps, Past, NoFeeder, Followed
  <2> QED BY <2>2, <2>4, <2>5 DEF Done
<1> QED BY <1>3, <1>4, <1>5, <1>6, <1>7 DEF IInv

\* Those whom set_support_apis disturbs are handlers, and on record already if they were.
LEMMA DisturbedIs ==
  ASSUME IInv
  PROVE  Disturbed \in SUBSET Handlers /\ flawed \subseteq Disturbed
  BY DEF IInv, TypeOK, Disturbed

\* set_support_apis empties the list, or fails.
LEMMA OpenSupportedStep ==
  ASSUME IInv, NEW h \in Handlers, OpenSupported(h)
  PROVE  IInv'
<1>1. pc[h] = "open" /\ req[h].kind = "set"
  BY DEF OpenSupported, At, IInv, Discipline, OnPath, MapHeld, ResetHeld, Answered
<1>2. /\ pc' = [pc EXCEPT ![h] = "close"] \/ pc' = [pc EXCEPT ![h] = "answer"]
      /\ mem' = mem \/ mem' = [mem EXCEPT ![h] = [mem[h] EXCEPT !.ok = FALSE]]
      /\ UNCHANGED <<mutexes, req, zoneSide, broker, feeders, answers, faults, last,
           lastStop>>
  BY <1>1, AfterAnswer DEF OpenSupported, Continue, Goto
<1>3. \/ disk' = disk /\ UNCHANGED <<flawed, tainted>>
      \/ disk' = [disk EXCEPT !.supported = {}] /\ tainted' = TRUE /\ flawed' = Disturbed
  BY DEF OpenSupported
<1>4. pc' \in [Handlers -> Stages] /\ pc'[h] \in {"close", "answer"}
  BY <1>2, StagesAre DEF IInv, TypeOK
<1>5. mem' \in [Handlers -> Memory] /\ mem'[h].item = mem[h].item
  <2>1. mem \in [Handlers -> Memory] /\ mem[h] \in Memory
    BY DEF IInv, TypeOK
  <2>2. /\ [mem[h] EXCEPT !.ok = FALSE] \in Memory
        /\ [mem[h] EXCEPT !.ok = FALSE].item = mem[h].item
    BY <2>1 DEF Memory
  <2> QED BY <1>2, <2>1, <2>2
<1>6. disk' \in Files
  <2>1. disk \in Files
    BY DEF IInv, TypeOK
  <2>2. [disk EXCEPT !.supported = {}] \in Files
    BY <2>1 DEF Files
  <2> QED BY <1>3, <2>1, <2>2
<1>7. flawed' \in SUBSET Handlers /\ tainted' \in BOOLEAN /\ Recorded
  BY <1>3, DisturbedIs DEF IInv, TypeOK, Recorded
<1>8. TypeOK'
  BY <1>2, <1>4, <1>5, <1>6, <1>7 DEF mutexes, zoneSide, answers, IInv, TypeOK
<1>9. Only(h)
  BY <1>2 DEF Only, IInv, TypeOK
<1>10. OnPath(h)'
  BY <1>1, <1>2, <1>4 DEF OnPath, Answered
<1>11. \/ disk' = disk
       \/ /\ \E apis \in SUBSET Vss : disk' = [disk EXCEPT !.supported = apis]
          /\ flawed' = Disturbed
  BY <1>3
<1> QED BY <1>1, <1>2, <1>4, <1>5, <1>7, <1>8, <1>9, <1>10, <1>11, OutsideStep DEF Answered

\* The new list is closed, whole or not.
LEMMA CloseSupportedStep ==
  ASSUME IInv, NEW h \in Handlers, CloseSupported(h)
  PROVE  IInv'
<1>1. pc[h] = "close" /\ req[h].kind = "set"
  BY DEF CloseSupported, At, IInv, Discipline, OnPath, MapHeld, ResetHeld, Answered
<1>2. \E apis \in SUBSET Vss : disk' = [disk EXCEPT !.supported = apis]
  <2>1. req[h].apis \in SUBSET Vss
    BY <1>1, RequestFacts DEF IInv, TypeOK, NoRequest
  <2> QED BY <2>1 DEF CloseSupported
<1>3. /\ pc' = [pc EXCEPT ![h] = "answer"] /\ tainted' = TRUE /\ flawed' = Disturbed
      /\ UNCHANGED <<mutexes, req, mem, zoneSide, broker, feeders, answers, last, lastStop>>
  BY <1>1, AfterAnswer DEF CloseSupported, Continue, Goto
<1>4. pc' \in [Handlers -> Stages] /\ pc'[h] = "answer"
  BY <1>3, StagesAre DEF IInv, TypeOK
<1>5. disk' \in Files
  <2>1. disk \in Files
    BY DEF IInv, TypeOK
  <2> QED BY <1>2, <2>1 DEF Files
<1>6. flawed' \in SUBSET Handlers /\ Recorded
  BY <1>3, DisturbedIs DEF Recorded
<1>7. faults' \in Nat
  <2>1. faults \in Nat /\ (faults' = faults \/ faults' = faults + 1)
    BY DEF CloseSupported, IInv, TypeOK
  <2> QED BY <2>1
<1>8. TypeOK'
  BY <1>3, <1>4, <1>5, <1>6, <1>7 DEF mutexes, zoneSide, answers, IInv, TypeOK
<1>9. Only(h)
  BY <1>3 DEF Only, IInv, TypeOK
<1>10. OnPath(h)'
  BY <1>1, <1>3, <1>4 DEF OnPath, Answered
<1> QED BY <1>1, <1>2, <1>3, <1>4, <1>6, <1>8, <1>9, <1>10, OutsideStep DEF Answered

\* The last stages are the same for every command.
LEMMA AnsweredPath ==
  ASSUME IInv, NEW h \in Handlers, pc[h] \in {"answer", "readApis", "tell"}, Continue(h),
         req' = req
  PROVE  /\ pc' \in [Handlers -> Stages] /\ OnPath(h)'
         /\ pc[h] \in Answered /\ pc'[h] \in Answered
         /\ \A g \in Handlers \ {h} : pc'[g] = pc[g]
<1>1. req[h].kind \in {"map", "reset", "set"}
  BY DEF IInv, Discipline, OnPath
<1>2. pc'[h] \in {"readApis", "tell", "done"} /\ \A g \in Handlers \ {h} : pc'[g] = pc[g]
  BY <1>1, AfterAnswer DEF Continue, Goto, IInv, TypeOK
<1>3. pc' \in [Handlers -> Stages]
  BY <1>1, AfterAnswer, StagesAre DEF Continue, Goto, IInv, TypeOK
<1> QED BY <1>1, <1>2, <1>3 DEF OnPath, Answered

\* The answer to the client.
LEMMA AnswerStep ==
  ASSUME IInv, NEW h \in Handlers, Answer(h)
  PROVE  IInv'
<1>1. /\ pc[h] = "answer" /\ Continue(h)
      /\ UNCHANGED <<mutexes, req, mem, disk, zoneSide, broker, feeders, server, history>>
  BY DEF Answer, At
<1>2. /\ pc' \in [Handlers -> Stages] /\ OnPath(h)'
      /\ pc[h] \in Answered /\ pc'[h] \in Answered
      /\ \A g \in Handlers \ {h} : pc'[g] = pc[g]
  BY <1>1, AnsweredPath
<1>3. result' \in [Handlers -> {None, "true", "false"}]
  BY DEF Answer, IInv, TypeOK
<1>4. TypeOK' /\ Recorded
  BY <1>1, <1>2, <1>3 DEF mutexes, zoneSide, history, IInv, TypeOK, Recorded
<1>5. Only(h)
  BY <1>1, <1>2 DEF Only
<1> QED BY <1>1, <1>2, <1>4, <1>5, OutsideStep DEF history

\* The list is read ...
LEMMA ReadApisStep ==
  ASSUME IInv, NEW h \in Handlers, ReadApis(h)
  PROVE  IInv'
<1>1. /\ pc[h] = "readApis" /\ Continue(h)
      /\ \/ mem' = [mem EXCEPT ![h] = [mem[h] EXCEPT !.apis = disk.supported]]
         \/ mem' = mem
      /\ UNCHANGED <<mutexes, req, disk, zoneSide, broker, feeders, answers, flawed, last,
                     lastStop, tainted>>
  BY DEF ReadApis, At
<1>2. /\ pc' \in [Handlers -> Stages] /\ OnPath(h)'
      /\ pc[h] \in Answered /\ pc'[h] \in Answered
      /\ \A g \in Handlers \ {h} : pc'[g] = pc[g]
  BY <1>1, AnsweredPath
<1>3. mem' \in [Handlers -> Memory] /\ mem'[h].item = mem[h].item
  <2>1. mem \in [Handlers -> Memory] /\ mem[h] \in Memory /\ disk.supported \in SUBSET Vss
    BY DEF IInv, TypeOK, Files
  <2>2. /\ [mem[h] EXCEPT !.apis = disk.supported] \in Memory
        /\ [mem[h] EXCEPT !.apis = disk.supported].item = mem[h].item
    BY <2>1 DEF Memory
  <2> QED BY <1>1, <2>1, <2>2
<1>4. faults' \in Nat
  <2>1. faults \in Nat /\ (faults' = faults \/ faults' = faults + 1)
    BY DEF ReadApis, IInv, TypeOK
  <2> QED BY <2>1
<1>5. TypeOK' /\ Recorded
  BY <1>1, <1>2, <1>3, <1>4 DEF mutexes, zoneSide, answers, IInv, TypeOK, Recorded
<1>6. Only(h)
  BY <1>1, <1>2 DEF Only, IInv, TypeOK
<1> QED BY <1>1, <1>2, <1>3, <1>5, <1>6, OutsideStep

\* ... and sent.
LEMMA TellServerStep ==
  ASSUME IInv, NEW h \in Handlers, TellServer(h)
  PROVE  IInv'
<1>1. /\ pc[h] = "tell" /\ Continue(h)
      /\ server' = mem[h].apis
      /\ UNCHANGED <<mutexes, req, mem, disk, zoneSide, broker, feeders, result, history>>
  BY DEF TellServer, At
<1>2. /\ pc' \in [Handlers -> Stages] /\ OnPath(h)'
      /\ pc[h] \in Answered /\ pc'[h] \in Answered
      /\ \A g \in Handlers \ {h} : pc'[g] = pc[g]
  BY <1>1, AnsweredPath
<1>3. server' \in SUBSET Vss
  <2>1. mem[h] \in Memory
    BY DEF IInv, TypeOK
  <2> QED BY <1>1, <2>1 DEF Memory
<1>4. TypeOK' /\ Recorded
  BY <1>1, <1>2, <1>3 DEF mutexes, zoneSide, history, IInv, TypeOK, Recorded
<1>5. Only(h)
  BY <1>1, <1>2 DEF Only
<1> QED BY <1>1, <1>2, <1>4, <1>5, OutsideStep DEF history

\* Nothing is claimed of a zone controller: its messages disturb nothing.
LEMMA ZoneStep ==
  ASSUME IInv, Orchestrator, TypeOK', flawed \subseteq flawed',
         UNCHANGED <<mutexes, pc, req, mem, disk, broker, tainted>>
  PROVE  IInv'
<1>1. Discipline' /\ Separate'
  BY DEF IInv, Discipline, Separate, mutexes, OnPath, Maps, Resets
<1>2. Feeding'
  BY DEF Feeding
<1>3. ASSUME NEW g \in Handlers PROVE Index(g)' /\ Done(g)'
  BY DEF IInv, Index, Done, MapDone, ResetDone, Maps, Resets, Past
<1> QED BY <1>1, <1>2, <1>3 DEF IInv

\* A message arrives.
LEMMA DeliverStep ==
  ASSUME IInv, Deliver
  PROVE  IInv'
<1> DEFINE m == Head(link)
<1>1. Orchestrator /\ link \in Seq(Messages) /\ link # <<>>
  BY DEF Deliver, IInv, TypeOK
<1>2. m \in Messages /\ link' \in Seq(Messages)
  BY <1>1 DEF Deliver
<1>3. feeders \in [Feeds -> Nat] /\ zone \in ZoneFiles
  BY DEF IInv, TypeOK
<1>4. m.files \in ZoneFiles
  BY <1>2 DEF Messages
<1> HIDE DEF m
<1>5. zone' \in ZoneFiles
  <2>1. zone' = zone \/ (m.what \in DOMAIN zone /\ zone' = [zone EXCEPT ![m.what] = m.files[m.what]])
    BY DEF Deliver, m
  <2>2. DOMAIN zone = {"vssJson", "defaults", "startScript", "stopScript"}
    BY <1>3 DEF ZoneFiles
  <2>3. CASE m.what = "vssJson" /\ zone' = [zone EXCEPT ![m.what] = m.files[m.what]]
    BY <1>3, <1>4, <2>3 DEF ZoneFiles
  <2>4. CASE m.what = "defaults" /\ zone' = [zone EXCEPT ![m.what] = m.files[m.what]]
    BY <1>3, <1>4, <2>4 DEF ZoneFiles
  <2>5. CASE m.what = "startScript" /\ zone' = [zone EXCEPT ![m.what] = m.files[m.what]]
    BY <1>3, <1>4, <2>5 DEF ZoneFiles
  <2>6. CASE m.what = "stopScript" /\ zone' = [zone EXCEPT ![m.what] = m.files[m.what]]
    BY <1>3, <1>4, <2>6 DEF ZoneFiles
  <2> QED BY <1>3, <2>1, <2>2, <2>3, <2>4, <2>5, <2>6
<1>6. feeders' \in [Feeds -> Nat] /\ lastStop' \in {"alone", "shared", "missed"}
  BY <1>3 DEF Deliver, StopFeeders, StartFeeders, IInv, TypeOK
<1>7. UNCHANGED <<mutexes, pc, req, mem, disk, broker, answers, faults, flawed, last,
        tainted>>
  BY DEF Deliver
<1>8. TypeOK'
  BY <1>1, <1>2, <1>5, <1>6, <1>7 DEF mutexes, answers, IInv, TypeOK
<1> QED BY <1>1, <1>7, <1>8, ZoneStep

\* A message is lost.
LEMMA LoseStep ==
  ASSUME IInv, Lose
  PROVE  IInv'
<1>1. Orchestrator /\ link \in Seq(Messages) /\ link # <<>>
  BY DEF Lose, IInv, TypeOK
<1>2. Head(link) \in Messages /\ link' \in Seq(Messages)
  BY <1>1 DEF Lose
<1>3. Head(link).from \in Handlers
  BY <1>2 DEF Messages
<1>4. faults' \in Nat /\ flawed' \in SUBSET Handlers /\ flawed \subseteq flawed'
  BY <1>3, SlipRecorded DEF Lose
<1>5. UNCHANGED <<mutexes, pc, req, mem, disk, zone, broker, feeders, answers, last,
                  lastStop, tainted>>
  BY DEF Lose
<1>6. TypeOK'
  BY <1>1, <1>2, <1>4, <1>5 DEF mutexes, answers, IInv, TypeOK
<1> QED BY <1>1, <1>4, <1>5, <1>6, ZoneStep

-----------------------------------------------------------------------------
(* The invariant and what follows from it.                                 *)

\* At the start nothing is mapped and no file is there.
LEMMA InitInv == Init => IInv
<1> SUFFICES ASSUME Init PROVE IInv
  OBVIOUS
<1>1. EmptyOverlay \in Overlays
  BY DEF EmptyOverlay, Overlays
<1>2. Blank \in Files
  BY <1>1 DEF Blank, Files
<1>3. NoMem \in Memory
  <2>1. Nobody \in [Vss -> Nat]
    BY DEF Nobody
  <2> QED BY <1>1, <2>1 DEF NoMem, Memory
<1>4. Copies(Blank) \in ZoneFiles
  BY <1>1 DEF Blank, Copies, ZoneFiles
<1>5. TypeOK
  <2>1. pc \in [Handlers -> Stages] /\ req \in [Handlers -> Request \cup {NoRequest}]
    BY StagesAre DEF Init
  <2>2. mem \in [Handlers -> Memory] /\ result \in [Handlers -> {None, "true", "false"}]
    BY <1>3 DEF Init
  <2>3. link \in Seq(Messages) /\ (~Orchestrator => link = <<>>)
    BY DEF Init
  <2>4. disk \in Files /\ zone \in ZoneFiles /\ feeders \in [Feeds -> Nat]
    BY <1>2, <1>4 DEF Init
  <2>5. faults \in Nat /\ flawed \in SUBSET Handlers /\ tainted \in BOOLEAN
    BY DEF Init
  <2> QED BY <2>1, <2>2, <2>3, <2>4, <2>5 DEF Init, TypeOK
<1>6. \A h \in Handlers : ~Maps(h) /\ ~Resets(h)
  BY DEF Init, Maps, Resets, MapHeld, ResetHeld
<1>7. Discipline /\ Separate
  BY <1>6 DEF Init, Discipline, Separate, OnPath
<1>8. Feeding
  BY <1>6 DEF Init, Feeding, MapRestarts, ResetRestarts
<1>9. ASSUME NEW h \in Handlers PROVE Index(h) /\ Done(h)
  <2>1. Index(h)
    BY DEF Init, Index, NoMem
  <2>2. Done(h)
    BY <1>6 DEF Done, MapDone, ResetDone
  <2> QED BY <2>1, <2>2
<1> QED BY <1>5, <1>7, <1>8, <1>9 DEF IInv

\* Every step keeps the invariant.
LEMMA StepInv ==
  ASSUME IInv, [Next]_vars
  PROVE  IInv'
<1>1. ASSUME NEW h \in Handlers, NEW r \in Request, Arrive(h, r) PROVE IInv'
  BY <1>1, ArriveStep
<1>2. ASSUME NEW h \in Handlers, HandlerStep(h) PROVE IInv'
  BY <1>2, LockStep, SaveStep, ReadOverlayStep, FlushOverlayStep, GenerateVssJsonStep,
     GenerateVehicleModelStep, WriteScriptsStep, StopVehicleDatabrokerStep,
     StopKuksaFeederStep, ClearNextStep, SendFilesStep, StartVehicleDatabrokerStep,
     StartKuksaFeederStep, UpdateSupportedStep, UnlockStep, OpenSupportedStep,
     CloseSupportedStep, AnswerStep, ReadApisStep, TellServerStep DEF HandlerStep
<1>3. Deliver \/ Lose => IInv'
  BY DeliverStep, LoseStep
<1>4. CASE UNCHANGED vars
  <2>1. UNCHANGED <<mutexes, pc, req, mem, disk, zoneSide, broker, feeders, answers,
          history>>
    BY <1>4 DEF vars
  <2>2. TypeOK' /\ Discipline' /\ Separate'
    BY <2>1 DEF IInv, TypeOK, Discipline, Separate, OnPath, Maps, Resets, mutexes, zoneSide,
       answers, history
  <2>3. Feeding'
    BY <2>1, SameFeeders DEF Maps, Resets, Restarting, history
  <2>4. ASSUME NEW h \in Handlers PROVE Index(h)' /\ Done(h)'
    BY <2>1 DEF IInv, Index, Done, MapDone, ResetDone, Maps, Resets, Past, NoFeeder,
       Followed, history
  <2> QED BY <2>2, <2>3, <2>4 DEF IInv
<1> QED BY <1>1, <1>2, <1>3, <1>4 DEF Next

\* The inductive invariant holds in every reachable state.
THEOREM Invariance == Spec => []IInv
<1>1. IInv /\ [Next]_vars => IInv'
  BY StepInv
<1> QED BY InitInv, <1>1, PTL DEF Spec

\* Type correctness: files, copies, messages, processes and the memory of every handler.
THEOREM TypeCorrect == Spec => []TypeOK
<1>1. IInv => TypeOK
  BY DEF IInv
<1> QED BY Invariance, <1>1, PTL

\* Where dk-manager runs the CAN feeders, none is started twice on a channel if the last
\* stop was carried out with nobody else between his stop and his start, and never more
\* than two are if one mapping and one reset were: whatever else was requested, and
\* whatever failed, noticed or not (StopKuksaFeeder and StartKuksaFeeder, under the two
\* mutexes of the commands).
THEOREM NeverTwoFeeders == Spec => []OneFeederPerFeed
<1>1. IInv => OneFeederPerFeed
  <2> SUFFICES ASSUME IInv, ~Orchestrator, NEW f \in Feeds
               PROVE  /\ lastStop = "alone" => feeders[f] <= 1
                      /\ lastStop = "shared" => feeders[f] <= 2
    BY DEF OneFeederPerFeed
  <2>1. feeders[f] \in Nat
    BY DEF IInv, TypeOK
  <2> QED BY <2>1 DEF IInv, Feeding
<1> QED BY Invariance, <1>1, PTL

\* Only Unlock leaves the stage "unlock".
LEMMA OnlyUnlockLeaves ==
  ASSUME IInv, [Next]_vars, NEW h \in Handlers, Succeeds(h)
  PROVE  Maps(h) \/ Resets(h)
  BY DEF Succeeds, IInv, Discipline, OnPath, Maps, Resets, MapHeld, ResetHeld, Answered

\* Whoever succeeds, with no step of his own failed unnoticed and nobody at his side,
\* leaves vss.json, vehicle model, databroker and start script in step with the overlay,
\* whatever requests before him failed, noticed or not, or overlapped; a reset leaves
\* nothing of a mapping (OnVssMapping and OnVssMappingFactoryReset as a whole).
THEOREM SuccessIsHealed == Spec => SuccessHeals
<1> DEFINE P == \A h \in Handlers : Succeeds(h) /\ h \notin flawed =>
                  /\ disk.vssJson = disk.overlay
                  /\ disk.model = disk.overlay
                  /\ broker = disk.overlay
                  /\ disk.startScript = disk.dbcCan
                  /\ req[h].kind = "reset" =>
                        disk = [Blank EXCEPT !.stopScript = disk.stopScript]
<1>1. ASSUME IInv, [Next]_vars PROVE P
  <2> SUFFICES ASSUME NEW h \in Handlers, Succeeds(h), h \notin flawed
               PROVE  /\ disk.vssJson = disk.overlay
                      /\ disk.model = disk.overlay
                      /\ broker = disk.overlay
                      /\ disk.startScript = disk.dbcCan
                      /\ req[h].kind = "reset" =>
                            disk = [Blank EXCEPT !.stopScript = disk.stopScript]
    OBVIOUS
  <2>1. Maps(h) \/ Resets(h)
    BY <1>1, OnlyUnlockLeaves
  <2>2. pc[h] = "unlock" /\ mem[h].ok
    BY DEF Succeeds
  <2>3. CASE Maps(h)
    BY <1>1, <2>2, <2>3 DEF IInv, Done, MapDone, Past, Maps
  <2>4. CASE Resets(h)
    <3>1. /\ disk.dbcCan = {} /\ disk.supported = {} /\ disk.overlay = EmptyOverlay
          /\ disk.defaults = {} /\ disk.startScript = {}
          /\ disk.vssJson = disk.overlay /\ disk.model = disk.overlay
          /\ broker = disk.overlay
      BY <1>1, <2>2, <2>4 DEF IInv, Done, ResetDone, Past
    <3>2. disk \in Files
      BY <1>1 DEF IInv, TypeOK
    <3>3. disk = [Blank EXCEPT !.stopScript = disk.stopScript]
      BY <3>1, <3>2 DEF Files, Blank
    <3> QED BY <3>1, <3>3
  <2> QED BY <2>1, <2>3, <2>4
<1>2. IInv /\ [Next]_vars => [P]_vars
  BY <1>1
<1> QED BY Invariance, <1>2, PTL DEF Spec, SuccessHeals

\* Where dk-manager runs the CAN feeders, whoever succeeds likewise leaves exactly those
\* of the recorded channels running, each once.
THEOREM FeedersFollow == Spec => FeedersFollowMapping
<1> DEFINE P == \A h \in Handlers : Succeeds(h) /\ h \notin flawed /\ ~Orchestrator =>
                  feeders = [f \in Feeds |-> IF f \in disk.dbcCan THEN 1 ELSE 0]
<1>1. ASSUME IInv, [Next]_vars PROVE P
  <2> SUFFICES ASSUME NEW h \in Handlers, Succeeds(h), h \notin flawed, ~Orchestrator
               PROVE  feeders = [f \in Feeds |-> IF f \in disk.dbcCan THEN 1 ELSE 0]
    OBVIOUS
  <2>1. Maps(h) \/ Resets(h)
    BY <1>1, OnlyUnlockLeaves
  <2>2. pc[h] = "unlock" /\ mem[h].ok
    BY DEF Succeeds
  <2>3. CASE Maps(h)
    BY <1>1, <2>2, <2>3 DEF IInv, Done, MapDone, Past, Followed
  <2>4. CASE Resets(h)
    <3>1. NoFeeder /\ disk.dbcCan = {}
      BY <1>1, <2>2, <2>4 DEF IInv, Done, ResetDone, Past
    <3> QED BY <1>1, <3>1 DEF IInv, TypeOK, NoFeeder
  <2> QED BY <2>1, <2>3, <2>4
<1>2. IInv /\ [Next]_vars => [P]_vars
  BY <1>1
<1> QED BY Invariance, <1>2, PTL DEF Spec, FeedersFollowMapping

-----------------------------------------------------------------------------
(* The list of supported APIs: a second invariant, on top of the first.    *)

\* No name of an API or of a signal occurs in another one: dk-manager looks names up
\* by searching the text.
NamesApart == \A m, n : <<m, n>> \in Within => m = n

\* Every signal that shares a frame with a mapped one has a default value.
Covered ==
  \A v \in Apis(disk.overlay) :
    disk.overlay[v] # NoSignal => FrameOf[disk.overlay[v]] \subseteq disk.defaults

Matches == disk.overlay # Torn /\ disk.supported = Apis(disk.overlay) /\ Covered

\* What handler h owes the list: a listed API is mapped until it is deleted, and any
\* other was created once more than deleted if it is mapped now, else as often.
Owed(h) ==
  \A v \in Vss :
    LET created == mem[h].added[v]
        removed == mem[h].deleted[v]
        mapped  == disk.overlay[v] # Absent
    IN  /\ v \in disk.supported => (mapped <=> removed = 0)
        /\ v \notin disk.supported /\ mapped => created = removed + 1
        /\ v \notin disk.supported /\ ~mapped => created = removed

\* No list is begun before the lock.
Fresh(h) == pc[h] \in {"idle", "lock"} => mem[h].added = Nobody /\ mem[h].deleted = Nobody

\* A mapping request on its way.
Underway(h) == Maps(h) /\ mem[h].ok /\ ~tainted =>
  /\ pc[h] = "unlock" => Matches
  /\ pc[h] # "unlock" => disk.overlay # Torn /\ Covered /\ Owed(h)
  /\ pc[h] = "flush" => mem[h].base = disk.overlay

ListInv ==
  /\ AtRest /\ ~tainted => Matches
  /\ \A h \in Handlers : Fresh(h) /\ Underway(h)

\* Whoever is between lock and unlock maps or resets.
LEMMA HoldingIs ==
  ASSUME IInv, NEW h \in Handlers
  PROVE  Holding(h) <=> Maps(h) \/ Resets(h)
<1>1. OnPath(h)
  BY DEF IInv, Discipline
<1> QED BY <1>1 DEF Holding, Unlocked, OnPath, Maps, Resets, MapHeld, ResetHeld, Answered

\* A step between lock and unlock that takes back no taint and does what it owes.
LEMMA HoldingStep ==
  ASSUME IInv, ListInv, NEW h \in Handlers, Only(h),
         Maps(h) \/ Resets(h), Maps(h)' \/ Resets(h)',
         tainted => tainted', Underway(h)'
  PROVE  ListInv'
<1>1. ~AtRest'
  BY DEF AtRest, Holding, Unlocked, Maps, Resets, MapHeld, ResetHeld
<1>2. ASSUME NEW g \in Handlers PROVE Fresh(g)' /\ Underway(g)'
  <2>1. CASE g = h
    BY <2>1 DEF Fresh, Maps, Resets, MapHeld, ResetHeld
  <2>2. CASE g # h
    <3>1. pc'[g] = pc[g] /\ mem'[g] = mem[g] /\ req'[g] = req[g]
      BY <2>2 DEF Only
    <3>2. Maps(g) => tainted'
      BY <2>2 DEF IInv, Separate
    <3> QED BY <3>1, <3>2 DEF ListInv, Fresh, Underway, Maps
  <2> QED BY <2>1, <2>2
<1> QED BY <1>1, <1>2 DEF ListInv

\* The files that the list is about.
ListFiles == <<disk.overlay, disk.supported, disk.defaults>>

\* A mapping that touches neither these files nor what it counted owes what it owed.
LEMMA UnderwayKept ==
  ASSUME ListInv, NEW h \in Handlers, Maps(h), Maps(h)', pc[h] # "unlock",
         UNCHANGED <<ListFiles, tainted>>,
         pc'[h] = "unlock" => ~mem'[h].ok,
         mem'[h].ok => mem[h].ok /\ mem'[h].added = mem[h].added
                                 /\ mem'[h].deleted = mem[h].deleted,
         pc'[h] = "flush" => mem'[h].base = disk.overlay
  PROVE  Underway(h)'
<1> SUFFICES ASSUME mem'[h].ok, ~tainted'
             PROVE  /\ pc'[h] # "unlock"
                    /\ disk'.overlay # Torn /\ Covered' /\ Owed(h)'
                    /\ pc'[h] = "flush" => mem'[h].base = disk'.overlay
  BY DEF Underway
<1>1. /\ disk'.overlay = disk.overlay /\ disk'.supported = disk.supported
      /\ disk'.defaults = disk.defaults /\ ~tainted
      /\ mem[h].ok /\ mem'[h].added = mem[h].added /\ mem'[h].deleted = mem[h].deleted
  BY DEF ListFiles
<1>2. disk.overlay # Torn /\ Covered /\ Owed(h)
  BY <1>1 DEF ListInv, Underway
<1>3. Covered'
  BY <1>1, <1>2 DEF Covered, Apis
<1>4. Owed(h)'
  BY <1>1, <1>2 DEF Owed
<1> QED BY <1>1, <1>2, <1>3, <1>4

\* A reset owes the list nothing.
LEMMA ResetOwesNothing ==
  ASSUME NEW h \in Handlers, Resets(h)'
  PROVE  Underway(h)'
  BY DEF Underway, Maps, Resets

\* The stages that a mapping and a reset share keep to the files of their own.
LEMMA SharedStep ==
  ASSUME IInv, ListInv, NEW h \in Handlers,
         pc[h] \in {"json", "model", "scripts", "stopBroker", "stopFeeder", "send",
                    "broker", "feeder"},
         (Continue(h) /\ mem' = mem) \/ Abort(h),
         UNCHANGED <<req, ListFiles, tainted>>
  PROVE  ListInv'
<1>1. pc \in [Handlers -> Stages] /\ mem \in [Handlers -> Memory]
  BY DEF IInv, TypeOK
<1>2. req' = req /\ \A g \in Handlers \ {h} : pc'[g] = pc[g] /\ mem'[g] = mem[g]
  BY <1>1 DEF Continue, Goto, Abort
<1>3. \/ Maps(h) /\ req[h].kind = "map"
      \/ Resets(h) /\ req[h].kind = "reset"
  BY DEF IInv, Discipline, OnPath, Maps, Resets, MapHeld, ResetHeld, Answered
<1>4. CASE Abort(h)
  <2>1. pc'[h] = "unlock" /\ ~mem'[h].ok
    BY <1>4, AbortEffect
  <2>2. (Maps(h)' \/ Resets(h)') /\ Underway(h)'
    BY <1>2, <1>3, <2>1 DEF Maps, Resets, MapHeld, ResetHeld, Underway
  <2> QED BY <1>2, <1>3, <2>2, HoldingStep DEF Only
<1>5. CASE Continue(h) /\ mem' = mem /\ Maps(h) /\ req[h].kind = "map"
  <2>1. pc'[h] \in MapHeld \ {"unlock", "flush"}
    BY <1>1, <1>5, AfterMap DEF Continue, Goto, MapHeld
  <2>2. Maps(h)' /\ pc[h] # "unlock" /\ pc'[h] # "unlock" /\ pc'[h] # "flush"
    BY <1>2, <1>5, <2>1 DEF Maps
  <2>3. Underway(h)'
    BY <1>5, <2>2, UnderwayKept
  <2> QED BY <1>2, <1>5, <2>2, <2>3, HoldingStep DEF Only
<1>6. CASE Continue(h) /\ mem' = mem /\ Resets(h) /\ req[h].kind = "reset"
  <2>1. pc[h] \in ResetHeld \ {"scripts"}
    BY <1>6 DEF Resets, ResetHeld
  <2>2. pc'[h] \in ResetHeld
    BY <1>1, <1>6, <2>1, AfterReset DEF Continue, Goto, ResetHeld
  <2>3. Resets(h)'
    BY <1>2, <1>6, <2>2 DEF Resets
  <2>4. Underway(h)'
    BY <2>3, ResetOwesNothing
  <2> QED BY <1>2, <1>6, <2>3, <2>4, HoldingStep DEF Only
<1> QED BY <1>3, <1>4, <1>5, <1>6

\* A step on one of these stages, whichever: what it writes is not what the list is about.
LEMMA SharedStages ==
  ASSUME IInv, ListInv, NEW h \in Handlers,
         \/ GenerateVssJson(h) \/ GenerateVehicleModel(h) \/ WriteScripts(h)
         \/ StopVehicleDatabroker(h) \/ StopKuksaFeeder(h) \/ SendFiles(h)
         \/ StartVehicleDatabroker(h) \/ StartKuksaFeeder(h)
  PROVE  ListInv'
<1>1. disk \in Files
  BY DEF IInv, TypeOK
<1>2. CASE GenerateVssJson(h)
  <2>1. UNCHANGED ListFiles
    BY <1>1, <1>2 DEF GenerateVssJson, ListFiles, Files
  <2> QED BY <1>2, <2>1, SharedStep DEF GenerateVssJson, At, GiveUp, history
<1>3. CASE GenerateVehicleModel(h)
  <2>1. UNCHANGED ListFiles
    BY <1>1, <1>3 DEF GenerateVehicleModel, ListFiles, Files
  <2> QED BY <1>3, <2>1, SharedStep DEF GenerateVehicleModel, At, GiveUp, history
<1>4. CASE WriteScripts(h)
  <2>1. UNCHANGED ListFiles
    <3> DEFINE written == [disk EXCEPT !.stopScript = TRUE, !.dbcCan = mem[h].dbcCanList,
                                       !.startScript = mem[h].dbcCanList]
    <3>1. \E file \in {"stopScript", "dbcCan", "startScript"} :
             disk' \in {written, [written EXCEPT ![file] = disk[file]],
                        [written EXCEPT ![file] = Blank[file]]}
      BY <1>4 DEF WriteScripts
    <3>2. /\ written.overlay = disk.overlay /\ written.supported = disk.supported
          /\ written.defaults = disk.defaults
          /\ {"overlay", "supported", "defaults"} \subseteq DOMAIN written
      BY <1>1 DEF Files
    <3> HIDE DEF written
    <3> QED BY <3>1, <3>2 DEF ListFiles
  <2> QED BY <1>4, <2>1, SharedStep DEF WriteScripts, At
<1>5. CASE StopVehicleDatabroker(h)
  BY <1>5, SharedStep DEF StopVehicleDatabroker, At, ListFiles
<1>6. CASE StopKuksaFeeder(h)
  BY <1>6, SharedStep DEF StopKuksaFeeder, At, ListFiles
<1>7. CASE SendFiles(h)
  BY <1>7, SharedStep DEF SendFiles, At, ListFiles
<1>8. CASE StartVehicleDatabroker(h)
  BY <1>8, SharedStep DEF StartVehicleDatabroker, At, ListFiles
<1>9. CASE StartKuksaFeeder(h)
  BY <1>9, SharedStep DEF StartKuksaFeeder, At, ListFiles
<1> QED BY <1>2, <1>3, <1>4, <1>5, <1>6, <1>7, <1>8, <1>9

\* A reset owes the list nothing while it clears the files.
LEMMA ClearNextLists ==
  ASSUME IInv, ListInv, NEW h \in Handlers, ClearNext(h)
  PROVE  ListInv'
<1>1. Only(h) /\ tainted' = tainted
  BY DEF ClearNext, Goto, Only
<1>2. Resets(h)
  BY DEF ClearNext, At, IInv, Discipline, OnPath, Resets, MapHeld, ResetHeld, Answered
<1>3. pc'[h] \in {"send", "clear"}
  BY DEF ClearNext, Goto, IInv, TypeOK
<1>4. Resets(h)'
  BY <1>1, <1>2, <1>3 DEF Only, Resets, ResetHeld
<1> QED BY <1>1, <1>2, <1>4, ResetOwesNothing, HoldingStep

\* The configuration is saved: the list of channels is read, or some item is left out.
LEMMA SaveLists ==
  ASSUME IInv, ListInv, NEW h \in Handlers, Save(h)
  PROVE  ListInv'
<1>1. Maps(h) /\ req[h].kind = "map" /\ pc[h] = "save"
  BY DEF Save, At, IInv, Discipline, OnPath, Maps, MapHeld, ResetHeld, Answered
<1>2. mem[h] \in Memory /\ pc \in [Handlers -> Stages] /\ mem \in [Handlers -> Memory]
  BY DEF IInv, TypeOK
<1>3. Only(h) /\ UNCHANGED <<ListFiles, tainted>>
  BY <1>2 DEF Save, Continue, Goto, GiveUp, Abort, Only, ListFiles
<1>4. \/ /\ pc'[h] = "item"
         /\ mem'[h].added = mem[h].added /\ mem'[h].deleted = mem[h].deleted
         /\ mem'[h].ok = mem[h].ok
      \/ pc'[h] = "unlock" /\ ~mem'[h].ok
  <2>1. CASE Abort(h)
    BY <2>1, AbortEffect
  <2>2. CASE Continue(h) /\ ~Abort(h)
    <3> DEFINE read == [mem[h] EXCEPT !.dbcCanList = disk.dbcCan]
    <3>1. \/ mem'[h] = mem[h]
          \/ mem'[h] = read
          \/ \E n \in {Len(req[h].items) + 1} : mem'[h] = [read EXCEPT !.item = n]
      BY <1>2, <2>2 DEF Save, GiveUp
    <3>2. /\ read.added = mem[h].added /\ read.deleted = mem[h].deleted
          /\ read.ok = mem[h].ok /\ {"added", "deleted", "ok"} \subseteq DOMAIN read
      BY <1>2 DEF Memory
    <3> HIDE DEF read
    <3>3. /\ mem'[h].added = mem[h].added /\ mem'[h].deleted = mem[h].deleted
          /\ mem'[h].ok = mem[h].ok
      BY <3>1, <3>2
    <3> QED BY <1>1, <1>2, <2>2, <3>3, AfterMap DEF Continue, Goto
  <2> QED BY <2>1, <2>2 DEF Save, GiveUp
<1>5. Maps(h)'
  BY <1>1, <1>3, <1>4 DEF Only, Maps, MapHeld
<1>6. Underway(h)'
  BY <1>1, <1>3, <1>4, <1>5, UnderwayKept
<1> QED BY <1>1, <1>3, <1>5, <1>6, HoldingStep

\* The overlay is read for the next item, or there is none left.
LEMMA ReadOverlayLists ==
  ASSUME IInv, ListInv, NEW h \in Handlers, ReadOverlay(h)
  PROVE  ListInv'
<1>1. Maps(h) /\ req[h].kind = "map" /\ pc[h] = "item"
  BY DEF ReadOverlay, At, IInv, Discipline, OnPath, Maps, MapHeld, ResetHeld, Answered
<1>2. mem[h] \in Memory /\ pc \in [Handlers -> Stages] /\ mem \in [Handlers -> Memory]
  BY DEF IInv, TypeOK
<1>3. Only(h) /\ UNCHANGED <<ListFiles, tainted>>
  BY <1>2 DEF ReadOverlay, Continue, Goto, Only, ListFiles, history
<1>4. \/ pc'[h] = "json" /\ mem' = mem
      \/ pc'[h] = "flush" /\ mem'[h] = [mem[h] EXCEPT !.base = disk.overlay]
  BY <1>1, <1>2, AfterMap DEF ReadOverlay, Continue, Goto
<1>5. /\ mem'[h].added = mem[h].added /\ mem'[h].deleted = mem[h].deleted
      /\ mem'[h].ok = mem[h].ok
      /\ pc'[h] = "flush" => mem'[h].base = disk.overlay
  BY <1>2, <1>4 DEF Memory
<1>6. Maps(h)'
  BY <1>1, <1>3, <1>4 DEF Only, Maps, MapHeld
<1>7. Underway(h)'
  <2>1. pc'[h] # "unlock" /\ pc[h] # "unlock"
    BY <1>1, <1>4
  <2> QED BY <1>1, <1>3, <1>5, <1>6, <2>1, UnderwayKept
<1> QED BY <1>1, <1>3, <1>6, <1>7, HoldingStep

\* With names apart, an item hits the API it names or none.
LEMMA HitsItself ==
  ASSUME NamesApart, NEW overlay \in Overlays, NEW v \in Vss
  PROVE  Hits(overlay, v) = IF overlay[v] # Absent THEN {v} ELSE {}
  BY WithinAssumption DEF NamesApart, Hits, Apis

\* With names apart, a list mentions the names that are in it.
LEMMA MentionedApart ==
  ASSUME NamesApart, NEW m \in Vss \cup Signals, NEW listed
  PROVE  Mentioned(m, listed) <=> m \in listed
<1>1. <<m, m>> \in Within
  BY WithinAssumption
<1> QED BY <1>1 DEF NamesApart, Mentioned

\* With names apart, a name is added to a list exactly if it is not in it.
LEMMA WithNamesApart ==
  ASSUME NamesApart, NEW listed \in SUBSET Signals, NEW new \in SUBSET Signals
  PROVE  WithNames(listed, new) = listed \cup new
<1>1. \A m \in new : Mentioned(m, listed) <=> m \in listed
  BY MentionedApart
<1> QED BY <1>1 DEF WithNames

\* What an item that is valid makes of the overlay.
LEMMA ChangedIs ==
  ASSUME NamesApart, NEW overlay \in Overlays, NEW item \in Item,
         overlay[item.vss] # Absent \/ ~item.deleted
  PROVE  Changed(overlay, item) =
           [overlay EXCEPT ![item.vss] = IF item.deleted THEN Absent ELSE item.signal]
<1>1. item.vss \in Vss /\ item.deleted \in BOOLEAN
  BY DEF Item
<1>2. CASE overlay[item.vss] # Absent
  <2>1. Hits(overlay, item.vss) = {item.vss}
    BY <1>1, <1>2, HitsItself
  <2> QED BY <1>1, <2>1 DEF Changed, Overlays
<1>3. CASE overlay[item.vss] = Absent
  <2>1. Hits(overlay, item.vss) = {}
    BY <1>1, <1>3, HitsItself
  <2> QED BY <1>1, <1>3, <2>1 DEF Changed
<1> QED BY <1>2, <1>3

\* One item: what it creates and deletes is counted, what it updates is not.
LEMMA FlushOverlayLists ==
  ASSUME NamesApart, IInv, ListInv, NEW h \in Handlers, FlushOverlay(h)
  PROVE  ListInv'
<1> DEFINE m        == mem[h]
           item     == req[h].items[m.item]
           hit      == m.base # Torn /\ Hits(m.base, item.vss) # {}
           valid    == m.base # Torn /\ (hit \/ ~item.deleted)
           onBus    == valid /\ item.signal # NoSignal
           mixed    == m.base = Torn \/ m.base # disk.overlay
           overlay  == IF ~valid THEN disk.overlay
                       ELSE IF mixed THEN Torn ELSE Changed(m.base, item)
           names    == WithNames(disk.defaults, FrameOf[item.signal])
           defaults == IF onBus THEN names ELSE disk.defaults
           added    == Counted(m.added, item.vss, valid /\ ~hit)
           deleted  == Counted(m.deleted, item.vss, hit /\ item.deleted)
           feeds    == IF onBus THEN m.dbcCanList \cup {item.feed} ELSE m.dbcCanList
           next     == [m EXCEPT !.item = m.item + 1, !.added = added, !.deleted = deleted,
                                 !.dbcCanList = feeds]
<1> HIDE DEF m, item, hit, valid, onBus, mixed, overlay, names, defaults, added, deleted,
             feeds, next
<1>1. /\ req[h].kind = "map" /\ Maps(h) /\ pc[h] = "flush"
      /\ m \in Memory /\ item \in Item
      /\ m.base \in Overlays \cup {Torn} /\ disk.overlay \in Overlays \cup {Torn}
  BY FlushItem DEF m, item
<1>2. /\ pc \in [Handlers -> Stages] /\ mem \in [Handlers -> Memory] /\ disk \in Files
      /\ m.added \in Counts /\ m.deleted \in Counts
  BY <1>1, FieldTyped DEF IInv, TypeOK
<1>3. Only(h)
  BY <1>2 DEF FlushOverlay, Continue, Goto, GiveUp, Abort, Only
<1>4. pc'[h] \in {"item", "unlock"} /\ Maps(h)' /\ (tainted => tainted')
  <2>1. pc'[h] \in {"item", "unlock"}
    BY FlushEffect, AbortEffect
  <2>2. tainted => tainted'
    BY DEF FlushOverlay
  <2> QED BY <1>1, <1>3, <2>1, <2>2 DEF Only, Maps, MapHeld
<1>5. CASE tainted' = TRUE
  <2>1. Underway(h)'
    BY <1>5 DEF Underway
  <2> QED BY <1>1, <1>3, <1>4, <2>1, HoldingStep
<1>6. CASE ~(tainted' = TRUE)
  <2>1. /\ Continue(h) /\ mem' = [mem EXCEPT ![h] = next]
        /\ disk' = [disk EXCEPT !.overlay = overlay, !.defaults = defaults]
        /\ tainted' = (tainted \/ (valid /\ ~hit /\ m.deleted[item.vss] > 0))
    BY <1>6 DEF FlushOverlay, next, feeds, added, deleted, defaults, names, overlay, mixed,
       onBus, valid, hit, item, m
  <2>2. pc'[h] = "item" /\ Maps(h)'
    BY <1>1, <1>2, <1>4, <2>1, AfterMap DEF Continue, Goto
  <2>3. mem'[h].added = added /\ mem'[h].deleted = deleted /\ mem'[h].ok = m.ok
    <3>1. next.added = added /\ next.deleted = deleted /\ next.ok = m.ok
      BY <1>1 DEF next, Memory
    <3> QED BY <1>2, <2>1, <3>1
  <2>4. /\ disk'.overlay = overlay /\ disk'.supported = disk.supported
        /\ disk'.defaults = IF valid /\ item.signal # NoSignal THEN names ELSE disk.defaults
    BY <1>2, <2>1 DEF Files, defaults, onBus
  <2>5. ASSUME mem'[h].ok, ~tainted'
        PROVE  disk'.overlay # Torn /\ Covered' /\ Owed(h)'
    <3> DEFINE v     == item.vss
               after == [disk.overlay EXCEPT
                           ![v] = IF item.deleted THEN Absent ELSE item.signal]
    <3> HIDE DEF v, after
    <3>1. /\ v \in Vss /\ v = item.vss /\ item.signal \in Signals \cup {NoSignal}
          /\ item.deleted \in BOOLEAN
      BY <1>1 DEF v, Item
    <3>2. /\ ~tainted /\ m.ok /\ m.base = disk.overlay /\ disk.overlay # Torn
          /\ Covered /\ Owed(h)
      BY <1>1, <2>1, <2>3, <2>5 DEF ListInv, Underway, m
    <3>3. disk.overlay \in Overlays /\ disk.overlay \in [Vss -> Signals \cup {NoSignal,
            Absent}]
      BY <1>1, <3>2 DEF Overlays
    <3>4. (hit <=> disk.overlay[v] # Absent) /\ (valid <=> hit \/ ~item.deleted)
      BY <3>1, <3>2, <3>3, HitsItself DEF hit, valid
    <3>5. valid /\ ~hit => m.deleted[v] = 0
      <4>1. m.deleted[v] \in Nat
        BY <1>2, <3>1 DEF Counts
      <4>2. ~(valid /\ ~hit /\ m.deleted[item.vss] > 0)
        BY <2>1, <2>5
      <4> QED BY <3>1, <4>1, <4>2
    <3>6. disk'.overlay = IF valid THEN after ELSE disk.overlay
      BY <1>1, <2>4, <3>1, <3>2, <3>3, <3>4, ChangedIs DEF overlay, mixed, after
    <3>7. disk'.overlay \in Overlays
      BY <3>1, <3>3, <3>6 DEF after, Overlays
    <3>8. disk'.overlay # Torn
      BY <3>7, MarkersAssumption DEF Overlays
    <3>9. Covered'
      <4>1. disk.defaults \in SUBSET Signals
        BY <1>2 DEF Files
      <4>2. CASE ~valid
        BY <2>4, <3>2, <3>6, <4>2 DEF Covered, Apis
      <4>3. CASE valid
        <5> SUFFICES ASSUME NEW w \in Vss, disk'.overlay[w] # Absent,
                            disk'.overlay[w] # NoSignal
                     PROVE  FrameOf[disk'.overlay[w]] \subseteq disk'.defaults
          BY DEF Covered, Apis
        <5>1. item.signal # NoSignal =>
                /\ FrameOf[item.signal] \in SUBSET Signals
                /\ disk'.defaults = disk.defaults \cup FrameOf[item.signal]
          BY <2>4, <3>1, <4>1, <4>3, FrameAssumption, WithNamesApart DEF names
        <5>2. item.signal = NoSignal => disk'.defaults = disk.defaults
          BY <2>4
        <5>3. CASE w = v
          BY <3>1, <3>3, <3>6, <4>3, <5>1, <5>3 DEF after
        <5>4. CASE w # v
          <6>1. disk'.overlay[w] = disk.overlay[w]
            BY <3>3, <3>6, <4>3, <5>4 DEF after
          <6>2. FrameOf[disk.overlay[w]] \subseteq disk.defaults
            BY <3>2, <6>1 DEF Covered, Apis
          <6> QED BY <5>1, <5>2, <6>1, <6>2
        <5> QED BY <5>3, <5>4
      <4> QED BY <4>2, <4>3
    <3>10. Owed(h)'
      <4> SUFFICES ASSUME NEW w \in Vss
                   PROVE  LET created == mem'[h].added[w]
                              removed == mem'[h].deleted[w]
                              mapped  == disk'.overlay[w] # Absent
                          IN  /\ w \in disk'.supported => (mapped <=> removed = 0)
                              /\ w \notin disk'.supported /\ mapped => created = removed + 1
                              /\ w \notin disk'.supported /\ ~mapped => created = removed
        BY DEF Owed
      <4>1. m.added[w] \in Nat /\ m.deleted[w] \in Nat
        BY <1>2 DEF Counts
      <4>2. /\ w \in disk.supported =>
                 (disk.overlay[w] # Absent <=> m.deleted[w] = 0)
            /\ w \notin disk.supported /\ disk.overlay[w] # Absent =>
                 m.added[w] = m.deleted[w] + 1
            /\ w \notin disk.supported /\ disk.overlay[w] = Absent =>
                 m.added[w] = m.deleted[w]
        BY <3>2 DEF Owed, m
      <4>3. /\ mem'[h].added[w] = IF w = v /\ valid /\ ~hit THEN m.added[w] + 1
                                                           ELSE m.added[w]
            /\ mem'[h].deleted[w] = IF w = v /\ hit /\ item.deleted THEN m.deleted[w] + 1
                                                                 ELSE m.deleted[w]
        <5>1. m.added \in [Vss -> Nat] /\ m.deleted \in [Vss -> Nat]
          BY <1>2 DEF Counts
        <5> QED BY <2>3, <3>1, <5>1 DEF added, deleted, Counted
      <4>4. disk'.overlay[w] = IF w # v \/ ~valid THEN disk.overlay[w]
                               ELSE IF item.deleted THEN Absent ELSE item.signal
        BY <3>1, <3>3, <3>6 DEF after
      <4>5. item.signal # Absent
        BY <3>1, MarkersAssumption
      <4>6. CASE w # v
        BY <2>4, <4>2, <4>3, <4>4, <4>6
      <4>7. CASE w = v
        BY <2>4, <3>1, <3>4, <3>5, <4>1, <4>2, <4>3, <4>4, <4>5, <4>7
      <4> QED BY <4>6, <4>7
    <3> QED BY <3>8, <3>9, <3>10
  <2>6. Underway(h)'
    BY <2>2, <2>5 DEF Underway
  <2> QED BY <1>1, <1>3, <1>4, <2>2, <2>6, HoldingStep
<1> QED BY <1>5, <1>6

\* The list is brought up to date.
LEMMA UpdateSupportedLists ==
  ASSUME NamesApart, IInv, ListInv, NEW h \in Handlers, UpdateSupported(h)
  PROVE  ListInv'
<1> DEFINE supported == Supported(disk.supported, mem[h].added, mem[h].deleted)
<1> HIDE DEF supported
<1>1. Maps(h) /\ req[h].kind = "map" /\ pc[h] = "supported"
  BY DEF UpdateSupported, At, IInv, Discipline, OnPath, Maps, MapHeld, ResetHeld, Answered
<1>2. pc \in [Handlers -> Stages] /\ disk \in Files /\ mem[h] \in Memory
  BY DEF IInv, TypeOK
<1>3. Only(h) /\ (tainted => tainted') /\ mem' = mem
  BY DEF UpdateSupported, Continue, Goto, Only
<1>4. pc'[h] = "unlock"
  BY <1>1, <1>2, AfterMap DEF UpdateSupported, Continue, Goto
<1>5. Maps(h)'
  BY <1>1, <1>3, <1>4 DEF Only, Maps, MapHeld
<1>6. ~tainted' => /\ disk'.overlay = disk.overlay /\ disk'.defaults = disk.defaults
                   /\ disk'.supported = supported
  <2>1. ~tainted' => disk' = [disk EXCEPT !.supported = supported]
    BY DEF UpdateSupported, supported
  <2> QED BY <1>2, <2>1 DEF Files
<1>7. ASSUME mem'[h].ok, ~tainted' PROVE Matches'
  <2>1. disk.overlay # Torn /\ Covered /\ Owed(h)
    BY <1>1, <1>3, <1>7 DEF ListInv, Underway
  <2>2. Covered'
    BY <1>6, <1>7, <2>1 DEF Covered, Apis
  <2>3. disk.supported \in SUBSET Vss /\ supported \in SUBSET Vss
    BY <1>2 DEF supported, Supported, Files
  <2>4. ASSUME NEW v \in Vss PROVE v \in supported <=> disk.overlay[v] # Absent
    <3>1. mem[h].added[v] \in Nat /\ mem[h].deleted[v] \in Nat
      BY <1>2, FieldTyped DEF Counts
    <3>2. Mentioned(v, disk.supported) <=> v \in disk.supported
      BY MentionedApart
    <3>3. v \in supported <=>
            \/ v \in disk.supported /\ mem[h].deleted[v] = 0
            \/ v \notin disk.supported /\ mem[h].added[v] > mem[h].deleted[v]
      BY <3>2 DEF supported, Supported
    <3>4. /\ v \in disk.supported =>
               (disk.overlay[v] # Absent <=> mem[h].deleted[v] = 0)
          /\ v \notin disk.supported /\ disk.overlay[v] # Absent =>
               mem[h].added[v] = mem[h].deleted[v] + 1
          /\ v \notin disk.supported /\ disk.overlay[v] = Absent =>
               mem[h].added[v] = mem[h].deleted[v]
      BY <2>1 DEF Owed
    <3> QED BY <3>1, <3>3, <3>4
  <2>5. disk'.supported = Apis(disk'.overlay)
    BY <1>6, <1>7, <2>3, <2>4 DEF Apis
  <2> QED BY <1>6, <1>7, <2>1, <2>2, <2>5 DEF Matches
<1>8. Underway(h)'
  BY <1>4, <1>7 DEF Underway
<1> QED BY <1>1, <1>3, <1>5, <1>8, HoldingStep

\* A request arrives: nothing is begun yet.
LEMMA ArriveLists ==
  ASSUME IInv, ListInv, NEW h \in Handlers, NEW r \in Request, Arrive(h, r)
  PROVE  ListInv'
<1>1. /\ pc[h] = "idle" /\ pc' = [pc EXCEPT ![h] = IF r.kind = "set" THEN "open" ELSE "lock"]
      /\ req' = [req EXCEPT ![h] = r] /\ UNCHANGED <<mem, disk, tainted>>
  BY DEF Arrive, Goto, history
<1>2. /\ pc'[h] \in {"open", "lock"}
      /\ \A g \in Handlers \ {h} : pc'[g] = pc[g] /\ req'[g] = req[g]
  BY <1>1 DEF IInv, TypeOK
<1>3. ASSUME AtRest', ~tainted' PROVE Matches'
  <2>1. AtRest
    BY <1>1, <1>2, <1>3, HoldingIs DEF AtRest, Holding, Unlocked
  <2> QED BY <1>1, <1>3, <2>1 DEF ListInv, Matches, Covered
<1>4. ASSUME NEW g \in Handlers PROVE Fresh(g)' /\ Underway(g)'
  <2>1. CASE g = h
    BY <1>1, <1>2, <2>1 DEF ListInv, Fresh, Underway, Maps, MapHeld
  <2>2. CASE g # h
    BY <1>1, <1>2, <2>2 DEF ListInv, Fresh, Underway, Maps, Matches, Covered, Owed
  <2> QED BY <2>1, <2>2
<1> QED BY <1>3, <1>4 DEF ListInv

\* A mapping begins where no other request is under way: the list matches, or is tainted.
LEMMA LockLists ==
  ASSUME IInv, ListInv, NEW h \in Handlers, Lock(h)
  PROVE  ListInv'
<1>1. /\ pc[h] = "lock" /\ UNCHANGED <<req, mem, disk>>
      /\ tainted' = (tainted \/ Beside(h) # {})
      /\ \/ /\ req[h].kind = "map" /\ vssMappingMutex = None
            /\ pc' = [pc EXCEPT ![h] = "save"]
         \/ req[h].kind = "reset" /\ pc' = [pc EXCEPT ![h] = "stopBroker"]
  BY AfterMap, AfterReset DEF Lock, Begin, At, Continue, Goto
<1>2. /\ Only(h) /\ pc'[h] \in {"save", "stopBroker"}
      /\ Maps(h)' => req[h].kind = "map" /\ vssMappingMutex = None /\ pc'[h] = "save"
      /\ Maps(h)' \/ Resets(h)'
  BY <1>1 DEF Only, IInv, TypeOK, Maps, Resets, MapHeld, ResetHeld
<1>3. ~AtRest'
  BY <1>2 DEF AtRest, Holding, Unlocked, Maps, Resets, MapHeld, ResetHeld
<1>4. ASSUME Maps(h)', mem'[h].ok, ~tainted'
      PROVE  disk'.overlay # Torn /\ Covered' /\ Owed(h)'
  <2>1. AtRest
    <3> SUFFICES ASSUME NEW g \in Handlers, Holding(g)
                 PROVE  FALSE
      BY DEF AtRest
    <3>1. CASE Maps(g)
      BY <1>2, <1>4, <3>1, MarkersAssumption DEF IInv, Discipline
    <3>2. CASE Resets(g)
      <4>1. g \in Beside(h)
        BY <1>2, <1>4, <3>2 DEF Beside, Resets
      <4> QED BY <1>1, <1>4, <4>1
    <3> QED BY <3>1, <3>2, HoldingIs
  <2>2. Matches /\ Fresh(h)
    BY <1>1, <1>4, <2>1 DEF ListInv
  <2>3. Covered'
    BY <1>1, <2>2 DEF Matches, Covered
  <2>4. mem'[h].added = Nobody /\ mem'[h].deleted = Nobody
    BY <1>1, <2>2 DEF Fresh
  <2>5. \A v \in Vss : mem'[h].added[v] = 0 /\ mem'[h].deleted[v] = 0
    BY <2>4 DEF Nobody
  <2>6. Owed(h)'
    BY <1>1, <2>2, <2>5 DEF Owed, Matches, Apis
  <2> QED BY <1>1, <2>2, <2>3, <2>6 DEF Matches
<1>5. ASSUME NEW g \in Handlers PROVE Fresh(g)' /\ Underway(g)'
  <2>1. CASE g = h
    BY <1>2, <1>4, <2>1 DEF Fresh, Underway
  <2>2. CASE g # h
    BY <1>1, <1>2, <2>2 DEF Only, ListInv, Fresh, Underway, Maps, Matches, Covered, Owed
  <2> QED BY <2>1, <2>2
<1> QED BY <1>3, <1>5 DEF ListInv

\* A request ends: it has kept the list in step, or it has failed and tainted it.
LEMMA UnlockLists ==
  ASSUME IInv, ListInv, NEW h \in Handlers, Unlock(h)
  PROVE  ListInv'
<1>1. /\ pc[h] = "unlock" /\ UNCHANGED <<req, mem, disk>>
      /\ \/ Maps(h) /\ req[h].kind = "map"
         \/ Resets(h) /\ req[h].kind = "reset"
      /\ pc' = [pc EXCEPT ![h] = "answer"]
  <2>1. pc[h] = "unlock" /\ (Maps(h) \/ Resets(h))
    BY DEF Unlock, At, IInv, Discipline, OnPath, Maps, Resets, MapHeld, ResetHeld, Answered
  <2> QED BY <2>1, AfterMap, AfterReset DEF Unlock, Continue, Goto, Maps, Resets
<1>2. Only(h) /\ pc'[h] = "answer"
  BY <1>1 DEF Only, IInv, TypeOK
<1>3. tainted' = IF ~mem[h].ok THEN TRUE
                 ELSE IF req[h].kind = "reset" THEN h \in flawed ELSE tainted
  BY DEF Unlock
<1>4. ~tainted' => /\ mem[h].ok
                   /\ req[h].kind = "reset" => h \notin flawed
                   /\ req[h].kind # "reset" => ~tainted
  BY <1>3
<1>5. ASSUME ~tainted' PROVE Matches'
  <2>1. CASE Maps(h) /\ req[h].kind = "map"
    BY <1>1, <1>4, <1>5, <2>1 DEF ListInv, Underway, Matches, Covered
  <2>2. CASE Resets(h) /\ req[h].kind = "reset"
    <3>1. /\ disk.supported = {} /\ disk.overlay = EmptyOverlay
      BY <1>1, <1>4, <1>5, <2>2 DEF IInv, Done, ResetDone, Past
    <3>2. Apis(disk.overlay) = {}
      BY <3>1 DEF Apis, EmptyOverlay
    <3>3. disk.overlay # Torn
      BY <3>1, MarkersAssumption DEF EmptyOverlay
    <3> QED BY <1>1, <3>1, <3>2, <3>3 DEF Matches, Covered
  <2> QED BY <1>1, <2>1, <2>2
<1>6. ASSUME NEW g \in Handlers PROVE Fresh(g)' /\ Underway(g)'
  <2>1. CASE g = h
    BY <1>2, <2>1 DEF Fresh, Underway, Maps, MapHeld
  <2>2. CASE g # h
    <3>1. pc'[g] = pc[g] /\ req'[g] = req[g] /\ mem'[g] = mem[g]
      BY <1>2, <2>2 DEF Only
    <3>2. Maps(g) => h \in flawed /\ tainted
      BY <1>1, <2>2 DEF IInv, Separate
    <3>3. Maps(g) => tainted'
      BY <1>4, <3>2
    <3> QED BY <3>1, <3>3 DEF ListInv, Fresh, Underway, Maps
  <2> QED BY <2>1, <2>2
<1> QED BY <1>5, <1>6 DEF ListInv

\* Outside lock and unlock the list is left alone, or tainted.
LEMMA OutsideLists ==
  ASSUME IInv, ListInv, NEW h \in Handlers, Only(h),
         pc[h] \in {"open", "close"} \cup Answered, pc'[h] \in {"open",
           "close"} \cup Answered,
         tainted => tainted', disk' = disk \/ tainted'
  PROVE  ListInv'
<1>1. ASSUME AtRest', ~tainted' PROVE Matches'
  <2>1. AtRest
    BY <1>1 DEF Only, AtRest, Holding, Unlocked, Answered
  <2> QED BY <1>1, <2>1 DEF ListInv, Matches, Covered
<1>2. ASSUME NEW g \in Handlers PROVE Fresh(g)' /\ Underway(g)'
  <2>1. CASE g = h
    BY <2>1 DEF Fresh, Underway, Maps, MapHeld, Answered
  <2>2. CASE g # h
    <3>1. pc'[g] = pc[g] /\ req'[g] = req[g] /\ mem'[g] = mem[g]
      BY <2>2 DEF Only
    <3>2. Fresh(g)'
      BY <3>1 DEF ListInv, Fresh
    <3>3. CASE tainted'
      BY <3>2, <3>3 DEF Underway
    <3>4. CASE ~tainted'
      BY <3>1, <3>2, <3>4 DEF ListInv, Underway, Maps, Matches, Covered, Owed
    <3> QED BY <3>2, <3>3, <3>4
  <2> QED BY <2>1, <2>2
<1> QED BY <1>1, <1>2 DEF ListInv

\* The stages outside: set_support_apis, and the answers.
LEMMA OutsideStages ==
  ASSUME IInv, ListInv, NEW h \in Handlers,
         OpenSupported(h) \/ CloseSupported(h) \/ Answer(h) \/ ReadApis(h) \/ TellServer(h)
  PROVE  ListInv'
<1>1. pc \in [Handlers -> Stages] /\ mem \in [Handlers -> Memory]
  BY DEF IInv, TypeOK
<1>2. CASE OpenSupported(h)
  <2>1. pc[h] = "open" /\ req[h].kind = "set"
    BY <1>2 DEF OpenSupported, At, IInv, Discipline, OnPath, MapHeld, ResetHeld, Answered
  <2>2. Only(h)
    BY <1>1, <1>2 DEF OpenSupported, Continue, Goto, Only
  <2>3. \/ pc'[h] = "close" /\ tainted'
        \/ pc'[h] = "answer" /\ disk' = disk /\ tainted' = tainted
    BY <1>1, <1>2, <2>1, AfterAnswer DEF OpenSupported, Continue, Goto
  <2> QED BY <2>1, <2>2, <2>3, OutsideLists DEF Answered
<1>3. CASE CloseSupported(h)
  <2>1. pc[h] = "close" /\ req[h].kind = "set"
    BY <1>3 DEF CloseSupported, At, IInv, Discipline, OnPath, MapHeld, ResetHeld, Answered
  <2>2. Only(h) /\ tainted'
    BY <1>1, <1>3 DEF CloseSupported, Continue, Goto, Only
  <2>3. pc'[h] = "answer"
    BY <1>1, <1>3, <2>1, AfterAnswer DEF CloseSupported, Continue, Goto
  <2> QED BY <2>1, <2>2, <2>3, OutsideLists DEF Answered
<1>4. CASE Answer(h) \/ ReadApis(h) \/ TellServer(h)
  <2>1. /\ pc[h] \in {"answer", "readApis", "tell"} /\ Continue(h)
        /\ req' = req /\ disk' = disk /\ tainted' = tainted
        /\ \A g \in Handlers \ {h} : mem'[g] = mem[g]
    BY <1>1, <1>4 DEF Answer, ReadApis, TellServer, At, history
  <2>2. /\ pc[h] \in Answered /\ pc'[h] \in Answered
        /\ \A g \in Handlers \ {h} : pc'[g] = pc[g]
    BY <2>1, AnsweredPath
  <2> QED BY <2>1, <2>2, OutsideLists DEF Only, Answered
<1> QED BY <1>2, <1>3, <1>4

\* At the start nothing is mapped and nothing listed.
LEMMA InitLists == Init => ListInv
<1> SUFFICES ASSUME Init PROVE ListInv
  OBVIOUS
<1>1. Apis(EmptyOverlay) = {} /\ EmptyOverlay # Torn
  BY MarkersAssumption DEF Apis, EmptyOverlay
<1>2. Matches
  BY <1>1 DEF Init, Blank, Matches, Covered
<1>3. \A h \in Handlers : Fresh(h) /\ Underway(h)
  BY DEF Init, NoMem, Fresh, Underway, Maps, MapHeld
<1> QED BY <1>2, <1>3 DEF ListInv

\* Every step keeps the second invariant.
LEMMA StepLists ==
  ASSUME NamesApart, IInv, ListInv, [Next]_vars
  PROVE  ListInv'
<1>1. ASSUME NEW h \in Handlers, NEW r \in Request, Arrive(h, r) PROVE ListInv'
  BY <1>1, ArriveLists
<1>2. ASSUME NEW h \in Handlers, HandlerStep(h) PROVE ListInv'
  BY <1>2, LockLists, SaveLists, ReadOverlayLists, FlushOverlayLists, SharedStages,
     ClearNextLists, UpdateSupportedLists, UnlockLists, OutsideStages DEF HandlerStep
<1>3. CASE Deliver \/ Lose \/ UNCHANGED vars
  <2>1. UNCHANGED <<pc, req, mem, disk, tainted>>
    BY <1>3 DEF Deliver, Lose, vars, history
  <2> QED BY <2>1 DEF ListInv, AtRest, Holding, Matches, Covered, Fresh, Underway, Maps,
             Owed
<1> QED BY <1>1, <1>2, <1>3 DEF Next

\* Whatever mixture of creations, updates and deletions is requested, at rest the list
\* of supported APIs is the list of the mapped ones and every frame of a mapped signal
\* has its default values, unless, since the last flawless reset, a request failed, shared
\* the overlay with a reset, failed unnoticed to write overlay or list or created an API
\* that it had deleted, or set_support_apis wrote the list (UpdateSupported, from the
\* counts that FlushOverlay keeps).
THEOREM ListMatchesMapping ==
  ASSUME NamesApart
  PROVE  Spec => []SupportedMatches
<1>1. IInv /\ ListInv /\ [Next]_vars => ListInv'
  BY StepLists
<1>2. ListInv => SupportedMatches
  BY DEF ListInv, Matches, Covered, SupportedMatches
<1> QED BY Invariance, InitLists, <1>1, <1>2, PTL DEF Spec

\* A handler moves in its own steps only.
LEMMA OwnSteps ==
  ASSUME IInv, NEW g \in Handlers, HandlerStep(g), NEW h \in Handlers \ {g}
  PROVE  pc'[h] = pc[h]
<1>1. ASSUME NEW stage, Goto(g, stage) PROVE pc'[h] = pc[h]
  BY <1>1 DEF Goto, IInv, TypeOK
<1>2. CASE Lock(g) \/ Save(g) \/ ReadOverlay(g) \/ FlushOverlay(g)
  BY <1>1, <1>2 DEF Lock, Begin, Save, ReadOverlay, FlushOverlay,
     Continue, GiveUp, Abort
<1>3. CASE \/ GenerateVssJson(g) \/ GenerateVehicleModel(g) \/ WriteScripts(g)
            \/ StopVehicleDatabroker(g)
  BY <1>1, <1>3 DEF GenerateVssJson, GenerateVehicleModel, WriteScripts,
     StopVehicleDatabroker,
     Continue, GiveUp, Abort
<1>4. CASE \/ StopKuksaFeeder(g) \/ ClearNext(g) \/ SendFiles(g)
            \/ StartVehicleDatabroker(g)
  BY <1>1, <1>4 DEF StopKuksaFeeder, ClearNext, SendFiles, StartVehicleDatabroker,
     Continue, GiveUp, Abort
<1>5. CASE StartKuksaFeeder(g) \/ UpdateSupported(g) \/ Unlock(g) \/ OpenSupported(g)
  BY <1>1, <1>5 DEF StartKuksaFeeder, UpdateSupported, Unlock, OpenSupported,
     Continue, GiveUp, Abort
<1>6. CASE CloseSupported(g) \/ Answer(g) \/ ReadApis(g) \/ TellServer(g)
  BY <1>1, <1>6 DEF CloseSupported, Answer, ReadApis, TellServer,
     Continue, GiveUp, Abort
<1> QED BY <1>2, <1>3, <1>4, <1>5, <1>6 DEF HandlerStep

\* Only FlushOverlay leaves the stage "flush".
LEMMA OnlyFlushLeaves ==
  ASSUME IInv, Next, NEW h \in Handlers, pc[h] = "flush", pc'[h] # "flush"
  PROVE  FlushOverlay(h)
<1>1. ASSUME NEW g \in Handlers, NEW r \in Request, Arrive(g, r) PROVE FALSE
  BY <1>1 DEF Arrive, Goto, IInv, TypeOK
<1>2. ASSUME NEW g \in Handlers, HandlerStep(g) PROVE FlushOverlay(h)
  <2>1. g = h
    BY <1>2, OwnSteps
  <2> QED BY <1>2, <2>1 DEF HandlerStep, At, Lock, Save, ReadOverlay, GenerateVssJson,
          GenerateVehicleModel, WriteScripts, StopVehicleDatabroker, StopKuksaFeeder,
          ClearNext, SendFiles, StartVehicleDatabroker, StartKuksaFeeder, UpdateSupported,
          Unlock, OpenSupported, CloseSupported, Answer, ReadApis, TellServer
<1>3. CASE Deliver \/ Lose
  BY <1>3 DEF Deliver, Lose
<1> QED BY <1>1, <1>2, <1>3 DEF Next

\* With names apart, an item changes no API of the overlay but the one it names: what
\* goes wrong in the instance with nested names is the search in the text alone.
THEOREM OnlyTheNamedApi ==
  ASSUME NamesApart
  PROVE  Spec => OnlyNamedApiChanges
<1> DEFINE P == \A h \in Handlers : pc[h] = "flush" /\ faults' = faults /\ disk'.overlay # Torn =>
                  \A v \in Vss \ {req[h].items[mem[h].item].vss} :
                     pc'[h] # "flush" => disk'.overlay[v] = disk.overlay[v]
<1>1. ASSUME IInv, Next PROVE P
  <2> SUFFICES ASSUME NEW h \in Handlers, pc[h] = "flush", faults' = faults,
                      disk'.overlay # Torn,
                      NEW v \in Vss \ {req[h].items[mem[h].item].vss}, pc'[h] # "flush"
               PROVE  disk'.overlay[v] = disk.overlay[v]
    OBVIOUS
  <2> DEFINE item  == req[h].items[mem[h].item]
             base  == mem[h].base
             hit   == base # Torn /\ Hits(base, item.vss) # {}
             valid == base # Torn /\ (hit \/ ~item.deleted)
  <2> HIDE DEF item, base, hit, valid
  <2>1. FlushOverlay(h)
    BY <1>1, OnlyFlushLeaves
  <2>2. /\ item \in Item /\ base \in Overlays \cup {Torn} /\ disk \in Files
        /\ v # item.vss
    BY <1>1, <2>1, FlushItem DEF item, base, IInv, TypeOK
  <2>3. disk'.overlay = IF ~valid THEN disk.overlay
                        ELSE IF base = Torn \/ base # disk.overlay THEN Torn
                        ELSE Changed(base, item)
    <3> DEFINE after == IF ~valid THEN disk.overlay
                        ELSE IF base = Torn \/ base # disk.overlay THEN Torn
                        ELSE Changed(base, item)
    <3>1. \/ disk' = [disk EXCEPT !.overlay = after]
          \/ \E names : disk' = [disk EXCEPT !.overlay = after, !.defaults = names]
      <4>1. ~Slip(h)
        BY <1>1 DEF Slip, IInv, TypeOK
      <4> QED BY <2>1, <4>1 DEF FlushOverlay, valid, hit, item, base
    <3> HIDE DEF after
    <3>2. disk'.overlay = after
      BY <2>2, <3>1 DEF Files
    <3> QED BY <3>2 DEF after
  <2>4. CASE ~valid
    BY <2>3, <2>4
  <2>5. CASE valid
    <3>1. base = disk.overlay /\ base \in Overlays /\ disk'.overlay = Changed(base, item)
      BY <2>2, <2>3, <2>5
    <3>2. base[item.vss] # Absent \/ ~item.deleted
      <4>1. item.vss \in Vss
        BY <2>2 DEF Item
      <4>2. hit => base[item.vss] # Absent
        BY <3>1, <4>1, HitsItself DEF hit
      <4> QED BY <2>5, <4>2 DEF valid
    <3>3. Changed(base, item) =
            [base EXCEPT ![item.vss] = IF item.deleted THEN Absent ELSE item.signal]
      BY <2>2, <3>1, <3>2, ChangedIs
    <3> QED BY <2>2, <3>1, <3>3 DEF Overlays
  <2> QED BY <2>4, <2>5
<1>2. ASSUME IInv, [Next]_vars PROVE [P]_vars
  BY <1>1, <1>2
<1> QED BY Invariance, <1>2, PTL DEF Spec, OnlyNamedApiChanges

=============================================================================
