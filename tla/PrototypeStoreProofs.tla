------------------------ MODULE PrototypeStoreProofs ------------------------
(***************************************************************************)
(* Proofs about PrototypeStore, for any set of handlers, of prototypes and *)
(* of messages and any number of restarts and unnoticed failures.          *)
(***************************************************************************)
EXTENDS PrototypeStore, TLAPS

USE DEF AllKinds, LockedKinds, FileNames

-----------------------------------------------------------------------------
(* The commands and the way they start.                                    *)
LEMMA RequestFields ==
    ASSUME NEW r \in Messages
    PROVE  /\ r.kind \in AllKinds /\ r.id \in Ids
           /\ r.run \in BOOLEAN /\ r.converted \in BOOLEAN
           /\ r.run => r.kind = "deploy"
           /\ r.kind = "ara" => ~r.run
  BY MessagesAssumption DEF AllMessages

LEMMA FirstStageValue ==
    ASSUME NEW k \in AllKinds
    PROVE  /\ k \in LockedKinds => FirstStage(k) = "lock"
           /\ k = "list" => FirstStage(k) = "serve"
           /\ k \in {"start", "stop"} => FirstStage(k) = "stopApp"
           /\ k = "set" => FirstStage(k) = "daprStop"
  BY DEF FirstStage

(* Appending a prototype that is not listed lists it and repeats nobody.   *)
LEMMA AppendedList ==
    ASSUME NEW l \in Seq(Ids), NEW i \in Ids, IsInjective(l)
    PROVE  LET m == WithPrototype(l, i)
           IN  /\ m \in Seq(Ids)
               /\ IsInjective(m)
               /\ Range(m) = Range(l) \cup {i}
<1>1. CASE i \in Range(l)
  BY <1>1 DEF WithPrototype
<1>2. CASE i \notin Range(l)
  <2> DEFINE m == Append(l, i)
  <2>1. WithPrototype(l, i) = m
    BY <1>2 DEF WithPrototype
  <2>2. /\ m \in Seq(Ids) /\ Len(l) \in Nat
        /\ DOMAIN l = 1..Len(l) /\ DOMAIN m = 1..(Len(l) + 1)
        /\ m[Len(l) + 1] = i
        /\ \A n \in 1..Len(l) : m[n] = l[n]
    OBVIOUS
  <2> HIDE DEF m
  <2>3. \A n \in 1..Len(l) : m[n] # i
    BY <1>2, <2>2 DEF Range
  <2>4. IsInjective(m)
    <3>1. SUFFICES ASSUME NEW a \in DOMAIN m, NEW b \in DOMAIN m, m[a] = m[b]
                   PROVE  a = b
      BY DEF IsInjective
    <3>2. CASE a \in 1..Len(l) /\ b \in 1..Len(l)
      BY <2>2, <3>1, <3>2 DEF IsInjective
    <3>3. CASE a = Len(l) + 1 \/ b = Len(l) + 1
      BY <2>2, <2>3, <3>1, <3>3
    <3> QED BY <2>2, <3>2, <3>3
  <2>5. Range(m) = Range(l) \cup {i}
    <3>1. \A x \in Range(m) : x \in Range(l) \cup {i}
      BY <2>2 DEF Range
    <3>2. i \in Range(m)
      BY <2>2 DEF Range
    <3>3. \A x \in Range(l) : x \in Range(m)
      BY <2>2 DEF Range
    <3> QED BY <3>1, <3>2, <3>3
  <2> QED BY <2>1, <2>2, <2>4, <2>5
<1> QED BY <1>1, <1>2

LEMMA EmptyList == <<>> \in Seq(Ids) /\ IsInjective(<<>>) /\ Range(<<>>) = {}
  BY DEF IsInjective, Range
-----------------------------------------------------------------------------
(* The invariant holds initially, and what a step may change without       *)
(* disturbing each part of it.                                             *)
LEMMA InitInv == Init => IInv
<1> SUFFICES ASSUME Init PROVE IInv
  OBVIOUS
<1>1. TypeOK
  BY FaultsAssumption, EmptyList DEF Init, TypeOK, Stages, Content
<1>2. Discipline
  BY DEF Init, Discipline, Holds, InSection, Locks
<1>3. ListState
  BY EmptyList DEF Init, ListState, Writing
<1>4. Answers
  BY DEF Init, Answers
<1> QED BY <1>1, <1>2, <1>3, <1>4 DEF IInv

(* What h may add to the failures that went unnoticed.                     *)
MissedBy(h) ==
    /\ faults' \in 0..MaxFaults
    /\ missed \subseteq missed' /\ missed' \subseteq Handlers \X Slips
    /\ \A g \in Handlers \ {h} : \A what \in Slips :
          <<g, what>> \in missed' => <<g, what>> \in missed

LEMMA MissedByOne ==
    ASSUME IInv, NEW h \in Handlers, NEW what \in Slips,
           UNCHANGED <<faults, missed>> \/ Missing(h, what)
    PROVE  MissedBy(h)
  BY FaultsAssumption DEF IInv, TypeOK, Missing, Fault, MissedBy

LEMMA KeepDiscipline ==
    ASSUME IInv, NEW h \in Handlers, NEW s \in Stages,
           Goto(h, s), UNCHANGED req, pc[h] # "idle",
           \A g \in Handlers \ {h} : Holds(g) => digitalAutoPrototypeMutex' = g,
           s \in InSection /\ Locks(h) => digitalAutoPrototypeMutex' = h,
           s \in {"lock", "openApp", "writeApp", "readList", "openList",
                  "writeList", "unlock"} => Locks(h),
           s = "daprStop" => req[h].kind = "set",
           s \in {"openCode", "writeCode"} => Locks(h) \/ req[h].kind = "set",
           s # "idle", UNCHANGED missed \/ MissedBy(h)
    PROVE  Discipline'
  BY DEF IInv, TypeOK, Discipline, Holds, Locks, Goto, MissedBy

LEMMA KeepList ==
    ASSUME IInv, UNCHANGED <<list, pending>>, missed \subseteq missed',
           \A g \in Handlers : pc'[g] \in {"openList", "writeList"} =>
               pc'[g] = pc[g] /\ req'[g] = req[g]
    PROVE  ListState'
<1>1. Writing' \subseteq Writing
  BY DEF Writing
<1> QED BY <1>1 DEF IInv, ListState, WithPrototype, IsInjective, Range

LEMMA KeepAnswers ==
    ASSUME IInv, NEW h \in Handlers, NEW s \in Stages \ {"idle"},
           Goto(h, s), UNCHANGED <<req, list>>, missed \subseteq missed',
           s \in {"stopApp", "runApp", "reply"} /\ Locks(h) =>
               req[h].id \in Range(list) \/ <<h, "list">> \in missed',
           \A g \in Handlers \ {h} : result'[g] = result[g],
           \/ s \in {"unlock", "done"}
           \/ pc[h] \notin {"unlock", "done", "lost"} /\ UNCHANGED result
    PROVE  Answers'
  BY DEF IInv, TypeOK, Answers, Locks, Goto, Range

(* A handler that serves a message has a request with fields.              *)
LEMMA Serving ==
    ASSUME IInv, NEW h \in Handlers, pc[h] # "idle"
    PROVE  /\ req[h] \in Messages /\ req[h].id \in Ids
           /\ req[h].kind \in AllKinds /\ req[h].run \in BOOLEAN
  BY RequestFields DEF IInv, Discipline
-----------------------------------------------------------------------------
(* One lemma per action: the invariant is preserved.                       *)
LEMMA ArriveInv ==
    ASSUME IInv, NEW h \in Handlers, NEW r \in Messages, Arrive(h, r)
    PROVE  IInv'
<1> DEFINE s == FirstStage(r.kind)
<1>1. /\ s \in {"lock", "serve", "stopApp", "daprStop"}
      /\ s = "lock" <=> r.kind \in LockedKinds
      /\ s = "daprStop" <=> r.kind = "set"
  BY RequestFields, FirstStageValue
<1> HIDE DEF s
<1>2. /\ pc' = [pc EXCEPT ![h] = s] /\ req' = [req EXCEPT ![h] = r]
      /\ pc[h] = "idle"
      /\ UNCHANGED <<digitalAutoPrototypeMutex, list, pending, files, container,
                     result, shown, faults, missed>>
  BY DEF Arrive, Goto, s
<1>3. TypeOK'
  BY <1>1, <1>2 DEF IInv, TypeOK, Stages
<1>4. Discipline'
  BY <1>1, <1>2 DEF IInv, TypeOK, Discipline, Holds, Locks, InSection
<1>5. ListState'
  BY <1>1, <1>2, KeepList DEF IInv, TypeOK
<1>6. Answers'
  BY <1>1, <1>2 DEF IInv, TypeOK, Answers, Locks
<1> QED BY <1>3, <1>4, <1>5, <1>6 DEF IInv

LEMMA LockInv ==
    ASSUME IInv, NEW h \in Handlers, Lock(h)
    PROVE  IInv'
<1>1. PICK s \in {"openApp", "openCode", "fail"} : Goto(h, s)
  BY DEF Lock
<1>2. Locks(h)
  BY DEF Lock, IInv, Discipline
<1>3. TypeOK'
  BY <1>1 DEF Lock, IInv, TypeOK, Goto, Stages
<1>4. Discipline'
  <2>1. \A g \in Handlers : ~Holds(g)
    BY MarkersAssumption DEF Lock, IInv, Discipline
  <2> QED BY <1>1, <1>2, <2>1, KeepDiscipline DEF Lock, Stages
<1>5. ListState'
  BY <1>1, KeepList DEF Lock, IInv, TypeOK, Goto
<1>6. Answers'
  BY <1>1, KeepAnswers DEF Lock, Stages
<1> QED BY <1>3, <1>4, <1>5, <1>6 DEF IInv

LEMMA OpenFileInv ==
    ASSUME IInv, NEW h \in Handlers, NEW f \in FileNames,
           NEW here \in {"openApp", "openCode"},
           NEW next \in {"writeApp", "writeCode"},
           next = "writeApp" => here = "openApp",
           OpenFile(h, f, here, next)
    PROVE  IInv'
<1>1. PICK s \in {next, "fail"} : Goto(h, s)
  BY DEF OpenFile
<1>2. /\ pc[h] = here
      /\ UNCHANGED <<digitalAutoPrototypeMutex, req, list, pending, container,
                     result, shown, faults, missed>>
  BY DEF OpenFile
<1>3. here = "openApp" => Locks(h)
  BY <1>2 DEF IInv, Discipline
<1>4. Locks(h) \/ req[h].kind = "set"
  BY <1>2 DEF IInv, Discipline
<1>5. TypeOK'
  <2>1. files' \in [FileNames -> [Ids -> Content]]
    <3>1. req[h].id \in Ids
      BY <1>2, Serving
    <3>2. \/ files' = files
          \/ files' = [files EXCEPT ![f][req[h].id] = Empty]
      BY DEF OpenFile, Truncated
    <3>3. Empty \in Content /\ files \in [FileNames -> [Ids -> Content]]
      BY DEF IInv, TypeOK, Content
    <3> QED BY <3>1, <3>2, <3>3
  <2> QED BY <1>1, <1>2, <2>1 DEF IInv, TypeOK, Goto, Stages
<1>6. Discipline'
  <2>1. \A g \in Handlers : Holds(g) => digitalAutoPrototypeMutex = g
    BY DEF IInv, Discipline
  <2>2. Locks(h) => Holds(h)
    BY <1>2 DEF Holds, InSection
  <2> QED BY <1>1, <1>2, <1>3, <1>4, <2>1, <2>2, KeepDiscipline DEF Stages
<1>7. ListState'
  BY <1>1, <1>2, KeepList DEF IInv, TypeOK, Goto
<1>8. Answers'
  BY <1>1, <1>2, KeepAnswers DEF Stages
<1> QED BY <1>5, <1>6, <1>7, <1>8 DEF IInv

LEMMA CloseFileInv ==
    ASSUME IInv, NEW h \in Handlers, NEW f \in FileNames,
           NEW here \in {"writeApp", "writeCode"},
           NEW next \in {"openCode", "readList", "reply"},
           here = "writeApp" => next = "openCode",
           next = "openCode" => here = "writeApp",
           next = "readList" => req[h].kind # "set",
           next = "reply" => req[h].kind = "set",
           CloseFile(h, f, here, next)
    PROVE  IInv'
<1>2. /\ pc[h] = here /\ Goto(h, next)
      /\ UNCHANGED <<digitalAutoPrototypeMutex, req, list, pending, container,
                     result, shown>>
  BY DEF CloseFile
<1>3. MissedBy(h)
  BY MissedByOne DEF CloseFile, Slips
<1>4. /\ Locks(h) \/ req[h].kind = "set"
      /\ here = "writeApp" => Locks(h)
  BY <1>2 DEF IInv, Discipline
<1>5. TypeOK'
  <2>1. files' \in [FileNames -> [Ids -> Content]]
    <3>1. req[h].id \in Ids
      BY <1>2, Serving
    <3>2. PICK c \in Content : files' = [files EXCEPT ![f][req[h].id] = c]
      BY <3>1 DEF CloseFile, Closed, NotClosed, IInv, TypeOK, Content
    <3> QED BY <3>1, <3>2 DEF IInv, TypeOK
  <2> QED BY <1>2, <1>3, <2>1 DEF IInv, TypeOK, Goto, Stages, MissedBy
<1>6. Discipline'
  <2>1. \A g \in Handlers : Holds(g) => digitalAutoPrototypeMutex = g
    BY DEF IInv, Discipline
  <2>2. Locks(h) => Holds(h)
    BY <1>2 DEF Holds, InSection
  <2> QED BY <1>2, <1>3, <1>4, <2>1, <2>2, KeepDiscipline DEF Stages
<1>7. ListState'
  BY <1>2, <1>3, KeepList DEF IInv, TypeOK, Goto, MissedBy
<1>8. Answers'
  <2>1. next = "reply" => ~Locks(h)
    BY DEF Locks
  <2> QED BY <1>2, <1>3, <2>1, KeepAnswers DEF Stages, MissedBy
<1> QED BY <1>5, <1>6, <1>7, <1>8 DEF IInv

LEMMA ReadListInv ==
    ASSUME IInv, NEW h \in Handlers, ReadList(h)
    PROVE  IInv'
<1>1. PICK seen \in {list, <<>>} :
          /\ pending' = [pending EXCEPT ![h] = WithPrototype(seen, req[h].id)]
          /\ \/ seen = list /\ UNCHANGED <<faults, missed>>
             \/ seen = <<>> /\ Missing(h, "read")
  BY DEF ReadList
<1>2. /\ pc[h] = "readList" /\ Goto(h, "openList")
      /\ UNCHANGED <<digitalAutoPrototypeMutex, req, list, files, container,
                     result, shown>>
      /\ MissedBy(h)
      /\ seen = list \/ (seen = <<>> /\ <<h, "read">> \in missed')
  BY <1>1, MissedByOne DEF ReadList, Missing, Slips
<1>3. Locks(h) /\ Holds(h)
  BY <1>2 DEF IInv, Discipline, Holds, InSection
<1>4. WithPrototype(seen, req[h].id) \in Seq(Ids)
  BY <1>2, EmptyList, Serving, AppendedList DEF IInv, TypeOK, ListState
<1>5. TypeOK'
  BY <1>1, <1>2, <1>4 DEF IInv, TypeOK, Goto, Stages, MissedBy
<1>6. Discipline'
  <2>1. \A g \in Handlers : Holds(g) => digitalAutoPrototypeMutex = g
    BY DEF IInv, Discipline
  <2> QED BY <1>2, <1>3, <2>1, KeepDiscipline DEF Stages
<1>7. ListState'
  <2>1. \/ pending'[h] = WithPrototype(list, req[h].id)
        \/ <<h, "read">> \in missed' /\ pending'[h] = WithPrototype(<<>>, req[h].id)
    BY <1>1, <1>2 DEF IInv, TypeOK
  <2>2. \A g \in Handlers \ {h} : pending'[g] = pending[g] /\ pc'[g] = pc[g]
    BY <1>1, <1>2 DEF IInv, TypeOK, Goto
  <2>3. Writing' = Writing /\ missed \subseteq missed'
    BY <1>2 DEF Writing, Goto, MissedBy, IInv, TypeOK
  <2>4. ASSUME NEW g \in Handlers
        PROVE  /\ pc'[g] = "openList" =>
                     \/ pending'[g] = WithPrototype(list, req[g].id)
                     \/ /\ <<g, "read">> \in missed'
                        /\ pending'[g] = WithPrototype(<<>>, req[g].id)
               /\ pc'[g] = "writeList" =>
                     IsInjective(pending[g]) /\ req[g].id \in Range(pending[g])
                       /\ pending'[g] = pending[g]
    <3>1. CASE g = h
      BY <1>2, <2>1, <3>1 DEF Goto, IInv, TypeOK
    <3>2. CASE g # h
      BY <2>2, <2>3, <3>2 DEF IInv, ListState
    <3> QED BY <3>1, <3>2
  <2> QED BY <1>2, <2>3, <2>4 DEF IInv, ListState, WithPrototype, IsInjective, Range
<1>8. Answers'
  BY <1>2, KeepAnswers DEF Stages, MissedBy
<1> QED BY <1>5, <1>6, <1>7, <1>8 DEF IInv

(* The owner of the mutex is the only handler near prototypes.json.        *)
LEMMA Alone ==
    ASSUME IInv, NEW h \in Handlers, NEW g \in Handlers, Holds(h), Holds(g)
    PROVE  g = h
  BY DEF IInv, Discipline

LEMMA OpenListInv ==
    ASSUME IInv, NEW h \in Handlers, OpenList(h)
    PROVE  IInv'
<1>1. PICK s \in {"writeList", "fail"} :
          /\ Goto(h, s)
          /\ s = "writeList" => list' = <<>>
          /\ s = "fail" => UNCHANGED list
  BY DEF OpenList
<1>2. /\ pc[h] = "openList"
      /\ UNCHANGED <<digitalAutoPrototypeMutex, req, pending, files, container,
                     result, shown, faults, missed>>
  BY DEF OpenList
<1>3. Locks(h) /\ Holds(h)
  BY <1>2 DEF IInv, Discipline, Holds, InSection
<1>4. TypeOK'
  BY <1>1, <1>2, EmptyList DEF IInv, TypeOK, Goto, Stages
<1>5. Discipline'
  <2>1. \A g \in Handlers : Holds(g) => digitalAutoPrototypeMutex = g
    BY DEF IInv, Discipline
  <2> QED BY <1>1, <1>2, <1>3, <2>1, KeepDiscipline DEF Stages
<1>6. ListState'
  <2>1. CASE s = "fail"
    BY <1>1, <1>2, <2>1, KeepList DEF IInv, TypeOK, Goto
  <2>2. CASE s = "writeList"
    <3>1. \A g \in Handlers \ {h} : pc'[g] \notin {"openList", "writeList"}
      <4>1. \A g \in Handlers \ {h} : ~Holds(g)
        BY <1>3, Alone
      <4> QED BY <1>1, <4>1 DEF IInv, TypeOK, Discipline, Goto, Holds, InSection
    <3>2. IsInjective(pending[h]) /\ req[h].id \in Range(pending[h])
      <4>1. req[h].id \in Ids /\ list \in Seq(Ids) /\ IsInjective(list)
        BY <1>2, Serving DEF IInv, TypeOK, ListState
      <4>2. PICK l \in {list, <<>>} : pending[h] = WithPrototype(l, req[h].id)
        BY <1>2 DEF IInv, ListState
      <4>3. l \in Seq(Ids) /\ IsInjective(l)
        BY <4>1, EmptyList
      <4> QED BY <4>1, <4>2, <4>3, AppendedList
    <3> QED BY <1>1, <1>2, <2>2, <3>1, <3>2, EmptyList
            DEF IInv, TypeOK, ListState, Goto, Writing
  <2> QED BY <2>1, <2>2
<1>7. Answers'
  <2>1. \A g \in Handlers \ {h} :
            pc[g] \in {"stopApp", "runApp", "reply"} => ~Locks(g)
    BY <1>3, Alone DEF Holds, InSection
  <2> QED BY <1>1, <1>2, <2>1 DEF IInv, TypeOK, Answers, Goto, Locks
<1> QED BY <1>4, <1>5, <1>6, <1>7 DEF IInv

(* Nobody else writes between the truncation and the write: the file holds *)
(* what was to be written, or nothing if that did not reach the disk.      *)
LEMMA WriteListWhole ==
    ASSUME IInv, NEW h \in Handlers, WriteList(h)
    PROVE  \/ list' = pending[h] /\ UNCHANGED <<faults, missed>>
           \/ list' = <<>> /\ Missing(h, "list")
<1>1. h \in Writing
  BY DEF WriteList, Writing
<1>2. list = <<>>
  BY <1>1 DEF IInv, ListState
<1> QED BY <1>2 DEF WriteList

LEMMA WriteListInv ==
    ASSUME IInv, NEW h \in Handlers, WriteList(h)
    PROVE  IInv'
<1>1. PICK s \in {"stopApp", "reply"} : Goto(h, s)
  BY DEF WriteList
<1>2. /\ pc[h] = "writeList"
      /\ UNCHANGED <<digitalAutoPrototypeMutex, req, pending, files, container,
                     result, shown>>
      /\ list' \in {pending[h], <<>>}
      /\ MissedBy(h)
      /\ list' = pending[h] \/ <<h, "list">> \in missed'
  <2>1. \/ list' = pending[h] /\ UNCHANGED <<faults, missed>>
        \/ list' = <<>> /\ Missing(h, "list")
    BY WriteListWhole
  <2>2. MissedBy(h)
    BY <2>1, MissedByOne DEF Slips
  <2>3. Missing(h, "list") => <<h, "list">> \in missed'
    BY DEF Missing
  <2> QED BY <2>1, <2>2, <2>3 DEF WriteList
<1>3. Locks(h) /\ Holds(h)
  BY <1>2 DEF IInv, Discipline, Holds, InSection
<1>4. \A g \in Handlers \ {h} : ~Holds(g)
  BY <1>3, Alone
<1>5. TypeOK'
  <2>1. list' \in Seq(Ids)
    <3>1. pending[h] \in Seq(Ids)
      BY DEF IInv, TypeOK
    <3> QED BY <1>2, <3>1, EmptyList
  <2> QED BY <1>1, <1>2, <2>1 DEF IInv, TypeOK, Goto, Stages, MissedBy
<1>6. Discipline'
  <2>1. \A g \in Handlers : Holds(g) => digitalAutoPrototypeMutex = g
    BY DEF IInv, Discipline
  <2> QED BY <1>1, <1>2, <1>3, <2>1, KeepDiscipline DEF Stages
<1>7. ListState'
  <2>1. \A g \in Handlers : pc'[g] \notin {"openList", "writeList"}
    BY <1>1, <1>2, <1>4 DEF IInv, TypeOK, Discipline, Goto, Holds, InSection
  <2>2. IsInjective(list')
    BY <1>2, EmptyList DEF IInv, ListState
  <2> QED BY <2>1, <2>2 DEF ListState, Writing
<1>8. Answers'
  <2>1. \A g \in Handlers \ {h} :
            pc[g] \in {"stopApp", "runApp", "reply"} => ~Locks(g)
    BY <1>4 DEF Holds, InSection
  <2>2. req[h].id \in Range(pending[h])
    BY <1>2 DEF IInv, ListState
  <2> QED BY <1>1, <1>2, <2>1, <2>2 DEF IInv, TypeOK, Answers, Goto, Locks, MissedBy
<1> QED BY <1>5, <1>6, <1>7, <1>8 DEF IInv

(* The steps that only move the handler on: they change the containers,    *)
(* the answer or the reply's list, never what the invariant relates.       *)
LEMMA MoveOnInv ==
    ASSUME IInv, NEW h \in Handlers, NEW s \in Stages,
           s \in {"openCode", "reply", "runApp", "done", "unlock"},
           pc[h] \in {"daprStop", "stopApp", "runApp", "serve", "reply", "fail"},
           Goto(h, s), TypeOK',
           UNCHANGED <<digitalAutoPrototypeMutex, req, list, pending, missed>>,
           \A g \in Handlers \ {h} : result'[g] = result[g],
           s \in {"unlock", "done"} \/ UNCHANGED result,
           s \in InSection /\ Locks(h) => Holds(h),
           s = "openCode" => req[h].kind = "set",
           s = "unlock" => Locks(h),
           s \in {"reply", "runApp"} => pc[h] \in {"stopApp", "runApp"}
    PROVE  IInv'
<1>1. \A g \in Handlers : Holds(g) => digitalAutoPrototypeMutex = g
  BY DEF IInv, Discipline
<1>2. Discipline'
  BY <1>1, KeepDiscipline
<1>3. ListState'
  BY KeepList DEF IInv, TypeOK, Goto
<1>4. s \in {"stopApp", "runApp", "reply"} /\ Locks(h) =>
          req[h].id \in Range(list) \/ <<h, "list">> \in missed
  BY DEF IInv, Answers
<1>5. Answers'
  BY <1>4, KeepAnswers
<1> QED BY <1>2, <1>3, <1>5 DEF IInv

LEMMA DaprStopInv ==
    ASSUME IInv, NEW h \in Handlers, DaprStop(h)
    PROVE  IInv'
<1>1. TypeOK'
  BY DEF DaprStop, Goto, IInv, TypeOK, Stages
<1>2. req[h].kind = "set"
  BY DEF DaprStop, IInv, Discipline
<1> QED BY <1>1, <1>2, MoveOnInv DEF DaprStop, Locks, Stages

LEMMA StopAppInv ==
    ASSUME IInv, NEW h \in Handlers, StopApp(h)
    PROVE  IInv'
<1>1. PICK s \in {"reply", "runApp"} : Goto(h, s)
  BY DEF StopApp
<1>2. TypeOK'
  BY <1>1 DEF StopApp, Goto, IInv, TypeOK, Stages, Content
<1>3. Locks(h) => Holds(h)
  BY DEF StopApp, Holds, InSection
<1> QED BY <1>1, <1>2, <1>3, MoveOnInv DEF StopApp, Stages

LEMMA RunAppInv ==
    ASSUME IInv, NEW h \in Handlers, RunApp(h)
    PROVE  IInv'
<1>1. TypeOK'
  BY DEF RunApp, Goto, IInv, TypeOK, Stages, Content
<1>2. Locks(h) => Holds(h)
  BY DEF RunApp, Holds, InSection
<1> QED BY <1>1, <1>2, MoveOnInv DEF RunApp, Stages

LEMMA ServeInv ==
    ASSUME IInv, NEW h \in Handlers, Serve(h)
    PROVE  IInv'
<1>1. TypeOK'
  <2>1. PICK seen \in {list, <<>>} : shown' = [shown EXCEPT ![h] = seen]
    BY DEF Serve
  <2>2. shown' \in [Handlers -> Seq(Ids)]
    BY <2>1, EmptyList DEF IInv, TypeOK
  <2> QED BY <2>2 DEF Serve, Goto, IInv, TypeOK, Stages
<1> QED BY <1>1, MoveOnInv DEF Serve, Stages, IInv, TypeOK, InSection

LEMMA ReplyInv ==
    ASSUME IInv, NEW h \in Handlers, Reply(h)
    PROVE  IInv'
<1>1. PICK s \in {"unlock", "done"} :
          Goto(h, s) /\ (s = "unlock" <=> Locks(h))
  BY DEF Reply
<1>2. TypeOK'
  BY <1>1 DEF Reply, Goto, IInv, TypeOK, Stages
<1>3. Locks(h) => Holds(h)
  BY DEF Reply, Holds, InSection
<1> QED BY <1>1, <1>2, <1>3, MoveOnInv DEF Reply, Stages, IInv, TypeOK

LEMMA FailInv ==
    ASSUME IInv, NEW h \in Handlers, Fail(h)
    PROVE  IInv'
<1>1. PICK s \in {"unlock", "done"} :
          Goto(h, s) /\ (s = "unlock" <=> Locks(h))
  BY DEF Fail
<1>2. TypeOK'
  BY <1>1 DEF Fail, Goto, IInv, TypeOK, Stages
<1>3. Locks(h) => Holds(h)
  BY DEF Fail, Holds, InSection
<1> QED BY <1>1, <1>2, <1>3, MoveOnInv DEF Fail, Stages, IInv, TypeOK

LEMMA UnlockInv ==
    ASSUME IInv, NEW h \in Handlers, Unlock(h)
    PROVE  IInv'
<1>1. /\ pc[h] = "unlock" /\ Goto(h, "done")
      /\ digitalAutoPrototypeMutex' = None
      /\ UNCHANGED <<req, list, pending, files, container, result, shown, faults, missed>>
  BY DEF Unlock
<1>2. Locks(h) /\ Holds(h)
  BY <1>1 DEF IInv, Discipline, Holds, InSection
<1>3. TypeOK'
  BY <1>1 DEF Goto, IInv, TypeOK, Stages
<1>4. Discipline'
  <2>1. \A g \in Handlers \ {h} : ~Holds(g)
    BY <1>2, Alone
  <2> QED BY <1>1, <2>1, KeepDiscipline DEF Stages, InSection
<1>5. ListState'
  BY <1>1, KeepList DEF IInv, TypeOK, Goto
<1>6. Answers'
  BY <1>1, KeepAnswers DEF Stages
<1> QED BY <1>3, <1>4, <1>5, <1>6 DEF IInv

LEMMA DockerInv ==
    ASSUME IInv, NEW i \in Ids, Boot(i) \/ Exit(i)
    PROVE  IInv'
<1>1. UNCHANGED <<digitalAutoPrototypeMutex, pc, req, list, pending, files,
                  result, shown, faults, missed>>
  BY DEF Boot, Exit
<1>2. TypeOK'
  BY <1>1 DEF Boot, Exit, IInv, TypeOK
<1>3. Discipline'
  BY <1>1 DEF IInv, Discipline, Holds, Locks
<1>4. ListState'
  BY <1>1, KeepList
<1>5. Answers'
  BY <1>1 DEF IInv, Answers, Locks, Range
<1> QED BY <1>2, <1>3, <1>4, <1>5 DEF IInv

LEMMA RestartInv ==
    ASSUME IInv, Restart
    PROVE  IInv'
<1>1. /\ UNCHANGED <<req, list, pending, files, container, result, shown, missed>>
      /\ digitalAutoPrototypeMutex' = None
      /\ faults' \in 0..MaxFaults
      /\ \A h \in Handlers :
            \/ pc[h] \in {"idle", "done"} /\ pc'[h] = pc[h]
            \/ pc[h] \notin {"idle", "done"} /\ pc'[h] = "lost"
      /\ pc' \in [Handlers -> Stages]
  BY FaultsAssumption DEF Restart, Fault, IInv, TypeOK, Stages
<1>2. TypeOK'
  BY <1>1 DEF IInv, TypeOK
<1>3. Discipline'
  BY <1>1 DEF IInv, Discipline, Holds, Locks, InSection
<1>4. ListState'
  BY <1>1, KeepList
<1>5. Answers'
  BY <1>1 DEF IInv, Answers
<1> QED BY <1>2, <1>3, <1>4, <1>5 DEF IInv

LEMMA HandlerStepInv ==
    ASSUME IInv, NEW h \in Handlers, HandlerStep(h)
    PROVE  IInv'
<1>1. CASE OpenApp(h)
  BY <1>1, OpenFileInv DEF OpenApp
<1>2. CASE OpenCode(h)
  BY <1>2, OpenFileInv DEF OpenCode
<1>3. CASE WriteApp(h)
  BY <1>3, CloseFileInv DEF WriteApp
<1>4. CASE WriteCode(h)
  BY <1>4, CloseFileInv DEF WriteCode
<1> QED BY <1>1, <1>2, <1>3, <1>4, LockInv, ReadListInv, OpenListInv,
           WriteListInv, DaprStopInv, StopAppInv, RunAppInv, ServeInv,
           ReplyInv, FailInv, UnlockInv DEF HandlerStep

LEMMA StutterInv == IInv /\ UNCHANGED vars => IInv'
<1> SUFFICES ASSUME IInv, UNCHANGED vars PROVE IInv'
  OBVIOUS
<1>1. UNCHANGED <<digitalAutoPrototypeMutex, pc, req, list, pending, files,
                  container, result, shown, faults, missed>>
  BY DEF vars
<1>2. TypeOK'
  BY <1>1 DEF IInv, TypeOK
<1>3. Discipline'
  BY <1>1 DEF IInv, Discipline, Holds, Locks
<1>4. ListState'
  BY <1>1, KeepList
<1>5. Answers'
  BY <1>1 DEF IInv, Answers, Locks, Range
<1> QED BY <1>2, <1>3, <1>4, <1>5 DEF IInv

(* The inductive invariant holds in every reachable state, however many    *)
(* messages are served at once, whichever steps fail and wherever          *)
(* dk-manager is killed.                                                   *)
THEOREM Invariance == Spec => []IInv
<1>1. IInv /\ [Next]_vars => IInv'
  BY ArriveInv, HandlerStepInv, DockerInv, RestartInv, StutterInv DEF Next
<1> QED BY InitInv, <1>1, PTL DEF Spec

(* Every variable keeps its type.                                          *)
THEOREM TypeCorrect == Spec => []TypeOK
<1>1. IInv => TypeOK
  BY DEF IInv
<1> QED BY Invariance, <1>1, PTL

-----------------------------------------------------------------------------
(* The registry, that is prototypes.json without its moment of truncation. *)
LEMMA RegistryAtRest == Writing = {} => Registry = list
  BY DEF Registry

LEMMA RegistryWriting ==
    ASSUME IInv, NEW h \in Handlers, pc[h] = "writeList"
    PROVE  Writing = {h} /\ Registry = pending[h]
<1>1. \A g \in Writing : g = h
  BY Alone DEF Writing, IInv, Discipline, Holds, InSection
<1>2. Writing = {h}
  BY <1>1 DEF Writing
<1>3. (CHOOSE g \in Writing : TRUE) = h
  BY <1>2
<1> QED BY <1>2, <1>3 DEF Registry

LEMMA RegistryInv == IInv => Registry \in Seq(Ids) /\ IsInjective(Registry)
<1> SUFFICES ASSUME IInv PROVE Registry \in Seq(Ids) /\ IsInjective(Registry)
  OBVIOUS
<1>1. CASE Writing = {}
  BY <1>1, RegistryAtRest DEF IInv, TypeOK, ListState
<1>2. CASE Writing # {}
  <2>1. PICK h \in Handlers : pc[h] = "writeList"
    BY <1>2 DEF Writing
  <2>2. pending[h] \in Seq(Ids) /\ IsInjective(pending[h])
    BY <2>1 DEF IInv, TypeOK, ListState
  <2> QED BY <2>1, <2>2, RegistryWriting
<1> QED BY <1>1, <1>2

(* No prototype is ever listed twice, whatever deployments run at once.    *)
THEOREM NoDuplicates == Spec => []OneEntryPerId
<1>1. IInv => OneEntryPerId
  BY RegistryInv DEF OneEntryPerId
<1> QED BY Invariance, <1>1, PTL

LEMMA SameRegistry ==
    ASSUME UNCHANGED <<list, pending>>, Writing' = Writing
    PROVE  Registry' = Registry
  BY DEF Registry

(* A handler changes the registry in one step only, the truncation of      *)
(* prototypes.json, which decides what will be written: the list with its  *)
(* prototype added, or its prototype alone if it could not read the list.  *)
(* If the write then fails unnoticed, the registry is empty.               *)
LEMMA RegistryStep ==
    ASSUME IInv, NEW h \in Handlers, HandlerStep(h)
    PROVE  \/ Registry' = Registry
           \/ /\ OpenList(h) /\ req[h].id \notin Range(Registry)
              /\ Registry' = Append(Registry, req[h].id)
           \/ /\ OpenList(h) /\ <<h, "read">> \in missed
              /\ Registry' = <<req[h].id>>
           \/ /\ WriteList(h) /\ Missing(h, "list")
              /\ Registry' = <<>>
<1>1. CASE ReadList(h)
  <2>1. Writing = {} /\ Writing' = {}
    <3>1. Holds(h)
      BY <1>1 DEF ReadList, IInv, Discipline, Holds, InSection
    <3>2. \A g \in Handlers : pc[g] # "writeList"
      BY <1>1, <3>1, Alone DEF ReadList, IInv, Discipline, Holds, InSection
    <3> QED BY <1>1, <3>2 DEF ReadList, Goto, Writing, IInv, TypeOK
  <2> QED BY <1>1, <2>1 DEF ReadList, Registry
<1>2. CASE OpenList(h)
  <2>1. Holds(h) /\ Writing = {}
    <3>1. Holds(h)
      BY <1>2 DEF OpenList, IInv, Discipline, Holds, InSection
    <3>2. \A g \in Handlers : pc[g] # "writeList"
      BY <1>2, <3>1, Alone DEF OpenList, IInv, Discipline, Holds, InSection
    <3> QED BY <3>1, <3>2 DEF Writing
  <2>2. CASE Goto(h, "fail") /\ UNCHANGED list
    <3>1. Writing' = {}
      BY <2>1, <2>2 DEF Goto, Writing, IInv, TypeOK
    <3> QED BY <2>1, <2>2, <3>1 DEF Registry
  <2>3. CASE Goto(h, "writeList") /\ list' = <<>>
    <3>1. Writing' = {h}
      BY <2>1, <2>3 DEF Goto, Writing, IInv, TypeOK
    <3>2. (CHOOSE g \in Writing' : TRUE) = h
      BY <3>1
    <3>3. Registry' = pending[h]
      BY <1>2, <3>1, <3>2 DEF Registry, OpenList
    <3>4. CASE pending[h] = WithPrototype(list, req[h].id)
      BY <1>2, <2>1, <3>3, <3>4, RegistryAtRest DEF WithPrototype
    <3>5. CASE /\ <<h, "read">> \in missed
               /\ pending[h] = WithPrototype(<<>>, req[h].id)
      <4>1. req[h].id \notin Range(<<>>) /\ Append(<<>>, req[h].id) = <<req[h].id>>
        BY EmptyList
      <4> QED BY <1>2, <3>3, <3>5, <4>1 DEF WithPrototype
    <3> QED BY <1>2, <3>4, <3>5 DEF OpenList, IInv, ListState
  <2> QED BY <1>2, <2>2, <2>3 DEF OpenList
<1>3. CASE WriteList(h)
  <2>1. Registry = pending[h] /\ Writing = {h}
    BY <1>3, RegistryWriting DEF WriteList
  <2>2. Writing' = {}
    BY <1>3, <2>1 DEF WriteList, Goto, Writing, IInv, TypeOK
  <2>3. Registry' = list'
    BY <2>2 DEF Registry
  <2> QED BY <1>3, <2>1, <2>3, WriteListWhole
<1>4. CASE \/ Lock(h) \/ OpenApp(h) \/ WriteApp(h) \/ OpenCode(h)
           \/ WriteCode(h) \/ DaprStop(h) \/ StopApp(h) \/ RunApp(h)
           \/ Serve(h) \/ Reply(h) \/ Fail(h) \/ Unlock(h)
  <2>1. UNCHANGED <<list, pending>>
    BY <1>4 DEF Lock, OpenApp, WriteApp, OpenCode, WriteCode, DaprStop, StopApp,
                RunApp, Serve, Reply, Fail, Unlock, OpenFile, CloseFile
  <2>2. pc[h] # "writeList" /\ \E s \in Stages \ {"writeList"} : Goto(h, s)
    BY <1>4 DEF Lock, OpenApp, WriteApp, OpenCode, WriteCode, DaprStop, StopApp,
                RunApp, Serve, Reply, Fail, Unlock, OpenFile, CloseFile, Stages
  <2>3. Writing' = Writing
    BY <2>2 DEF Goto, Writing, IInv, TypeOK
  <2> QED BY <2>1, <2>3, SameRegistry
<1> QED BY <1>1, <1>2, <1>3, <1>4 DEF HandlerStep

(* A handler tells a client "success" only for a registered prototype, or  *)
(* for one whose list was lost unnoticed.                                  *)
LEMMA AckedStep ==
    ASSUME IInv, NEW h \in Handlers, HandlerStep(h)
    PROVE  \/ Acked' = Acked
           \/ /\ Reply(h) /\ req[h].id \in Range(Registry) \cup Faulty
              /\ Acked' = Acked \cup {req[h].id}
<1>1. CASE Reply(h)
  <2>1. /\ pc[h] = "reply" /\ UNCHANGED req
        /\ \A g \in Handlers \ {h} : result'[g] = result[g]
    BY <1>1 DEF Reply, IInv, TypeOK
  <2>2. CASE ~Locks(h)
    <3>1. {g \in Handlers : Locks(g) /\ result[g] = "success"}'
            = {g \in Handlers : Locks(g) /\ result[g] = "success"}
      BY <2>1, <2>2 DEF Locks
    <3> QED BY <2>1, <3>1 DEF Acked
  <2>3. CASE Locks(h)
    <3>1. result'[h] = "success"
      BY <1>1, <2>3 DEF Reply, Locks, IInv, TypeOK
    <3>2. {g \in Handlers : Locks(g) /\ result[g] = "success"}'
            = {g \in Handlers : Locks(g) /\ result[g] = "success"} \cup {h}
      BY <2>1, <2>3, <3>1 DEF Locks
    <3>3. Acked' = Acked \cup {req[h].id}
      BY <2>1, <3>2 DEF Acked
    <3>4. Writing = {}
      <4>1. Holds(h)
        BY <2>1, <2>3 DEF Holds, InSection
      <4> QED BY <2>1, <4>1, Alone DEF Writing, IInv, Discipline, Holds, InSection
    <3>5. req[h].id \in Range(Registry) \/ <<h, "list">> \in missed
      BY <2>1, <2>3, <3>4, RegistryAtRest DEF IInv, Answers
    <3>6. <<h, "list">> \in missed => req[h].id \in Faulty
      BY DEF Faulty
    <3> QED BY <1>1, <3>3, <3>5, <3>6
  <2> QED BY <2>2, <2>3
<1>2. CASE ~Reply(h)
  <2>1. UNCHANGED req
    BY <1>2 DEF HandlerStep, Lock, OpenApp, WriteApp, OpenCode, WriteCode,
                OpenFile, CloseFile, ReadList, OpenList, WriteList, DaprStop,
                StopApp, RunApp, Serve, Fail, Unlock
  <2>2. \/ UNCHANGED result
        \/ Serve(h) \/ Fail(h)
    BY <1>2 DEF HandlerStep, Lock, OpenApp, WriteApp, OpenCode, WriteCode,
                OpenFile, CloseFile, ReadList, OpenList, WriteList, DaprStop,
                StopApp, RunApp, Unlock
  <2>3. CASE UNCHANGED result
    <3>1. {g \in Handlers : Locks(g) /\ result[g] = "success"}'
            = {g \in Handlers : Locks(g) /\ result[g] = "success"}
      BY <2>1, <2>3 DEF Locks
    <3> QED BY <2>1, <3>1 DEF Acked
  <2>4. CASE Fail(h) \/ Serve(h)
    <3>1. /\ result[h] = None /\ result'[h] # "success"
          /\ \A g \in Handlers \ {h} : result'[g] = result[g]
      BY <2>4 DEF Fail, Serve, IInv, TypeOK, Answers
    <3>2. {g \in Handlers : Locks(g) /\ result[g] = "success"}'
            = {g \in Handlers : Locks(g) /\ result[g] = "success"}
      BY <2>1, <3>1, MarkersAssumption DEF Locks
    <3> QED BY <2>1, <3>2 DEF Acked
  <2> QED BY <2>2, <2>3, <2>4
<1> QED BY <1>1, <1>2

(* A handler keeps the request it has.                                     *)
LEMMA SameRequests ==
    ASSUME NEW h \in Handlers, HandlerStep(h)
    PROVE  UNCHANGED req
  BY DEF HandlerStep, Lock, OpenApp, WriteApp, OpenCode, WriteCode, OpenFile,
         CloseFile, ReadList, OpenList, WriteList, DaprStop, StopApp, RunApp,
         Serve, Reply, Fail, Unlock

(* A prototype becomes faulty in two steps only: a read of the list that   *)
(* fails, and a write that is lost.                                        *)
LEMMA FaultyStep ==
    ASSUME IInv, NEW h \in Handlers, HandlerStep(h)
    PROVE  \/ Faulty' = Faulty
           \/ /\ ReadList(h) \/ (WriteList(h) /\ missed' # missed)
              /\ Faulty' = Faulty \cup {req[h].id}
<1> DEFINE Slipped(m) == {g \in Handlers : <<g, "read">> \in m \/ <<g, "list">> \in m}
<1>1. Faulty = {req[g].id : g \in Slipped(missed)}
  BY DEF Faulty
<1>2. UNCHANGED req
  BY SameRequests
<1>3. Faulty' = {req[g].id : g \in Slipped(missed')}
  BY <1>2 DEF Faulty
<1>4. CASE Slipped(missed') = Slipped(missed)
  BY <1>1, <1>3, <1>4
<1>5. CASE /\ ReadList(h) \/ (WriteList(h) /\ missed' # missed)
           /\ Slipped(missed') = Slipped(missed) \cup {h}
  BY <1>1, <1>3, <1>5
<1>6. CASE ReadList(h)
  <2>1. missed' \in {missed, missed \cup {<<h, "read">>}}
    BY <1>6 DEF ReadList, Missing
  <2>2. Slipped(missed') \in {Slipped(missed), Slipped(missed) \cup {h}}
    BY <2>1
  <2> QED BY <1>4, <1>5, <1>6, <2>2
<1>7. CASE WriteList(h)
  <2>1. missed' \in {missed, missed \cup {<<h, "list">>}}
    BY <1>7 DEF WriteList, Missing
  <2>2. Slipped(missed') \in {Slipped(missed), Slipped(missed) \cup {h}}
    BY <2>1
  <2> QED BY <1>4, <1>5, <1>7, <2>1, <2>2
<1>8. CASE WriteApp(h) \/ WriteCode(h)
  <2>1. PICK f \in FileNames : missed' \in {missed, missed \cup {<<h, f>>}}
    BY <1>8 DEF WriteApp, WriteCode, CloseFile, Missing
  <2> QED BY <1>4, <2>1
<1>9. CASE ~(ReadList(h) \/ WriteList(h) \/ WriteApp(h) \/ WriteCode(h))
  <2>1. UNCHANGED missed
    BY <1>9 DEF HandlerStep, Lock, OpenApp, OpenCode, OpenFile, OpenList, DaprStop,
                StopApp, RunApp, Serve, Reply, Fail, Unlock
  <2> QED BY <1>4, <2>1
<1> QED BY <1>6, <1>7, <1>8, <1>9

(* A message that arrives changes neither the registry nor the answers.    *)
LEMMA ArriveSame ==
    ASSUME IInv, NEW h \in Handlers, NEW r \in Messages, Arrive(h, r)
    PROVE  Registry' = Registry /\ Acked' = Acked /\ Faulty' = Faulty
<1>1. /\ pc[h] = "idle" /\ result[h] = None /\ UNCHANGED <<list, pending, result>>
      /\ \A g \in Handlers \ {h} : req'[g] = req[g] /\ pc'[g] = pc[g]
  BY DEF Arrive, Goto, IInv, TypeOK, Answers
<1>2. pc'[h] # "writeList"
  BY RequestFields, FirstStageValue DEF Arrive, Goto, IInv, TypeOK
<1>3. Writing' = Writing
  BY <1>1, <1>2 DEF Writing
<1>4. {g \in Handlers : Locks(g) /\ result[g] = "success"}'
        = {g \in Handlers : Locks(g) /\ result[g] = "success"}
  BY <1>1, MarkersAssumption DEF Locks
<1>5. \A g \in Handlers : Locks(g) /\ result[g] = "success" => req'[g] = req[g]
  BY <1>1, MarkersAssumption
<1>6. Acked' = Acked
  BY <1>4, <1>5 DEF Acked
<1>7. Faulty' = Faulty
  <2> DEFINE Slipped == {g \in Handlers : \/ <<g, "read">> \in missed
                                          \/ <<g, "list">> \in missed}
  <2>1. UNCHANGED missed /\ h \notin Slipped
    BY <1>1 DEF Arrive, IInv, Discipline, Slips
  <2>2. \A g \in Slipped : req'[g] = req[g]
    BY <1>1, <2>1
  <2>3. Faulty = {req[g].id : g \in Slipped} /\ Faulty' = {req'[g].id : g \in Slipped}
    BY <2>1 DEF Faulty
  <2> QED BY <2>2, <2>3
<1> QED BY <1>1, <1>3, <1>6, <1>7, SameRegistry

(* A restart leaves the registry as it is, or empties it if it comes       *)
(* between the truncation of prototypes.json and the write.                *)
LEMMA RestartRegistry ==
    ASSUME IInv, Restart
    PROVE  /\ Acked' = Acked /\ Faulty' = Faulty
           /\ Writing = {} => Registry' = Registry
           /\ Writing # {} => Registry' = <<>>
<1>1. UNCHANGED <<req, list, pending, result, missed>>
  BY DEF Restart
<1>2. Writing' = {}
  BY DEF Restart, Writing
<1>3. Acked' = Acked /\ Faulty' = Faulty
  BY <1>1 DEF Acked, Locks, Faulty
<1> QED BY <1>1, <1>2, <1>3 DEF Registry, IInv, ListState

(* A step of the environment or of nobody.                                 *)
LEMMA OtherSame ==
    ASSUME (\E i \in Ids : Boot(i) \/ Exit(i)) \/ UNCHANGED vars
    PROVE  Registry' = Registry /\ Acked' = Acked /\ Faulty' = Faulty
<1>1. UNCHANGED <<pc, req, list, pending, result, missed>>
  BY DEF Boot, Exit, vars
<1> QED BY <1>1 DEF Registry, Writing, Acked, Faulty, Locks

(* No deployed prototype drops out of the list because of another          *)
(* deployment, a failure that is noticed or a reader.  What loses it is a  *)
(* restart between the truncation and the write of prototypes.json, a      *)
(* rewrite by a deployment that could not read the list, or a write that   *)
(* did not reach the disk, and nothing else.                               *)
THEOREM EntriesKept == Spec => NoEntryLost
<1> DEFINE Lost == \E h \in Handlers :
              \/ pc[h] = "writeList" /\ pc'[h] = "lost"
              \/ pc[h] = "openList" /\ pc'[h] = "writeList" /\ <<h, "read">> \in missed
              \/ /\ pc[h] = "writeList" /\ pc'[h] # "writeList"
                 /\ <<h, "list">> \in missed'
           Kept == Range(Registry) \subseteq Range(Registry') \/ Lost
<1>1. ASSUME IInv, [Next]_vars PROVE Kept
  <2>1. ASSUME NEW h \in Handlers, NEW r \in Messages, Arrive(h, r)
        PROVE  Registry' = Registry
    BY <1>1, <2>1, ArriveSame
  <2>2. ASSUME NEW h \in Handlers, HandlerStep(h)
        PROVE  Kept
    <3>1. CASE Registry' = Registry
      BY <3>1
    <3>2. CASE /\ OpenList(h) /\ req[h].id \notin Range(Registry)
               /\ Registry' = Append(Registry, req[h].id)
      <4>1. Registry' = WithPrototype(Registry, req[h].id)
        BY <3>2 DEF WithPrototype
      <4>2. req[h].id \in Ids
        BY <1>1, <3>2, Serving DEF OpenList
      <4> QED BY <1>1, <4>1, <4>2, RegistryInv, AppendedList
    <3>3. CASE /\ OpenList(h) /\ <<h, "read">> \in missed
               /\ Registry' # Registry
      <4>1. pc[h] = "openList" /\ pc'[h] = "writeList"
        <5>1. CASE pc'[h] = "fail" /\ UNCHANGED list
          <6>1. pc[h] # "writeList" /\ Writing' = Writing
            BY <1>1, <3>3, <5>1 DEF OpenList, Goto, Writing, IInv, TypeOK
          <6> QED BY <3>3, <5>1, <6>1, SameRegistry DEF OpenList
        <5> QED BY <1>1, <3>3, <5>1 DEF OpenList, Goto, IInv, TypeOK
      <4> QED BY <3>3, <4>1
    <3>4. CASE WriteList(h) /\ Missing(h, "list")
      <4>1. pc[h] = "writeList" /\ pc'[h] # "writeList"
        BY <1>1, <3>4 DEF WriteList, Goto, IInv, TypeOK
      <4>2. <<h, "list">> \in missed'
        BY <3>4 DEF Missing
      <4> QED BY <4>1, <4>2
    <3> QED BY <1>1, <2>2, <3>1, <3>2, <3>3, <3>4, RegistryStep
  <2>3. ASSUME Restart, Writing # {} PROVE Lost
    BY <1>1, <2>3 DEF Restart, Writing, IInv, TypeOK
  <2>4. ASSUME Restart, Writing = {} PROVE Registry' = Registry
    BY <1>1, <2>4, RestartRegistry
  <2> QED BY <1>1, <2>1, <2>2, <2>3, <2>4, OtherSame DEF Next
<1>2. IInv /\ [Next]_vars => [Kept]_vars
  BY <1>1
<1> QED BY Invariance, <1>2, PTL DEF NoEntryLost, Spec

(* The handlers implement the abstract registry: a prototype enters the    *)
(* list once and atomically, and "success" is answered only afterwards.    *)
(* The list is lost only where dk-manager can be killed or a deployment    *)
(* failed unnoticed, and "success" is answered for a prototype that is not *)
(* listed only if one of its own deployments did.                          *)
THEOREM Refinement == Spec => ImplementsRegistry
<1> DEFINE mapped == <<Registry, Acked, Faulty>>
<1>1. Init => Abstract!Init
  <2> SUFFICES ASSUME Init PROVE Registry = <<>> /\ Acked = {} /\ Faulty = {}
    BY DEF Abstract!Init
  <2>1. Writing = {} /\ list = <<>> /\ missed = {}
    BY DEF Init, Writing
  <2>2. Acked = {}
    BY MarkersAssumption DEF Init, Acked
  <2>3. Faulty = {}
    BY <2>1 DEF Faulty
  <2> QED BY <2>1, <2>2, <2>3, RegistryAtRest
<1>2. IInv /\ [Next]_vars => [Abstract!Next]_mapped
  <2> SUFFICES ASSUME IInv, [Next]_vars
               PROVE  [Abstract!Next]_mapped
    OBVIOUS
  <2>1. ASSUME NEW h \in Handlers, NEW r \in Messages, Arrive(h, r)
        PROVE  [Abstract!Next]_mapped
    BY <2>1, ArriveSame
  <2>2. ASSUME NEW h \in Handlers, HandlerStep(h)
        PROVE  [Abstract!Next]_mapped
    <3> DEFINE i == req[h].id
    <3>1. pc[h] # "idle" /\ i \in Ids
      <4>1. pc[h] # "idle"
        BY <2>2 DEF HandlerStep, Lock, OpenApp, WriteApp, OpenCode, WriteCode, OpenFile,
           CloseFile, ReadList, OpenList, WriteList, DaprStop, StopApp, RunApp,
           Serve, Reply, Fail, Unlock
      <4> QED BY <4>1, Serving
    <3>2. CASE OpenList(h)
      <4>1. Acked' = Acked /\ Faulty' = Faulty
        BY <3>2 DEF OpenList, Acked, Locks, Faulty
      <4>2. CASE i \notin Range(Registry) /\ Registry' = Append(Registry, i)
        BY <3>1, <4>1, <4>2 DEF Abstract!Next, Abstract!Register, Range, Abstract!Range
      <4>3. CASE <<h, "read">> \in missed /\ Registry' = <<i>>
        <5>1. i \in Faulty
          BY <4>3 DEF Faulty
        <5> QED BY <3>1, <4>1, <4>3, <5>1 DEF Abstract!Next, Abstract!RegisterAlone
      <4>4. ~WriteList(h)
        BY <3>2 DEF OpenList, WriteList
      <4> QED BY <2>2, <4>1, <4>2, <4>3, <4>4, RegistryStep
    <3>3. CASE WriteList(h)
      <4>1. Acked' = Acked
        BY <3>3 DEF WriteList, Acked, Locks
      <4>2. CASE Missing(h, "list") /\ Registry' = <<>>
        <5>1. Faulty' = Faulty \cup {i}
          <6>1. <<h, "list">> \in missed' /\ UNCHANGED req
            BY <3>3, <4>2 DEF Missing, WriteList
          <6>2. i \in Faulty'
            BY <6>1 DEF Faulty
          <6> QED BY <2>2, <6>2, FaultyStep
        <5> QED BY <3>1, <4>1, <4>2, <5>1 DEF Abstract!Next, Abstract!Fault
      <4>3. CASE Registry' = Registry
        BY <2>2, <3>1, <4>1, <4>3, FaultyStep DEF Abstract!Next, Abstract!Fault
      <4>4. ~OpenList(h)
        BY <3>3 DEF OpenList, WriteList
      <4> QED BY <2>2, <4>2, <4>3, <4>4, RegistryStep
    <3>4. CASE ReadList(h)
      <4>1. Acked' = Acked /\ Registry' = Registry
        <5>1. ~OpenList(h) /\ ~WriteList(h) /\ UNCHANGED <<req, result>>
          BY <3>4 DEF ReadList, OpenList, WriteList
        <5> QED BY <2>2, <5>1, RegistryStep DEF Acked, Locks
      <4> QED BY <2>2, <3>1, <4>1, FaultyStep DEF Abstract!Next, Abstract!Fault
    <3>5. CASE ~(OpenList(h) \/ WriteList(h) \/ ReadList(h))
      <4>1. Registry' = Registry /\ Faulty' = Faulty
        BY <2>2, <3>5, RegistryStep, FaultyStep
      <4>2. CASE Acked' = Acked
        BY <4>1, <4>2
      <4>3. CASE i \in Range(Registry) \cup Faulty /\ Acked' = Acked \cup {i}
        BY <3>1, <4>1, <4>3 DEF Abstract!Next, Abstract!Acknowledge, Range,
                                Abstract!Range
      <4> QED BY <2>2, <4>2, <4>3, AckedStep
    <3> QED BY <3>2, <3>3, <3>4, <3>5
  <2>3. CASE Restart
    <3>1. MaxFaults > 0
      BY <2>3, FaultsAssumption DEF Restart, Fault, IInv, TypeOK
    <3>2. CASE Writing = {}
      BY <2>3, <3>2, RestartRegistry
    <3>3. CASE Writing # {}
      BY <2>3, <3>1, <3>3, RestartRegistry DEF Abstract!Next, Abstract!Crash
    <3> QED BY <3>2, <3>3
  <2> QED BY <2>1, <2>2, <2>3, OtherSame DEF Next
<1> QED BY Invariance, <1>1, <1>2, PTL DEF Spec, ImplementsRegistry, Abstract!Spec
-----------------------------------------------------------------------------
(* What a deployment has written when it is answered.  A second invariant, *)
(* on top of the first: the owner of the mutex is the only deployment that *)
(* writes, so what it wrote stays; set-python-code, which takes no lock,   *)
(* is the exception that Editors names.  Past the truncation nobody else   *)
(* has put text into the file, past the write it holds the handler's own   *)
(* (or no whole text, if that was lost); a container that runs after       *)
(* stopApp has read it from there.                                         *)
PastCode == {"readList", "openList", "writeList", "stopApp", "runApp", "reply"}
PastApp == {"openCode", "writeCode"} \cup PastCode

Unused == \A h \in Handlers : pc[h] = "idle" => req[h] = NoRequest
EditedOnly(i) == Editors(i) # {} /\ files["code"][i] \in Editors(i) \cup {Empty, Torn}
WroteFiles(h) ==
    LET i == req[h].id IN
    /\ pc[h] = "writeApp" => files["app"][i] = Empty
    /\ req[h].kind = "ara" /\ pc[h] \in PastApp =>
          \/ files["app"][i] = h
          \/ <<h, "app">> \in missed /\ files["app"][i] \in {Empty, Torn}
    /\ pc[h] = "writeCode" => files["code"][i] = Empty \/ EditedOnly(i)
    /\ pc[h] \in PastCode => files["code"][i] \in CodeOf(h)
FilesState == \A h \in Handlers : Locks(h) => WroteFiles(h)
RunState ==
    \A h \in Handlers : req[h].run /\ pc[h] \in {"runApp", "reply"} =>
        container[req[h].id] \in {None, Exited, Booting} \cup CodeOf(h)
DeployInv == Unused /\ FilesState /\ RunState

(* Nothing is served yet, so nothing has been written.                     *)
LEMMA InitDeploy == Init => DeployInv
  BY DEF Init, DeployInv, Unused, FilesState, RunState, Locks, NoRequest

(* Only the close of a file and the two list stages can go wrong unnoticed. *)
LEMMA MissedOnlyGrows ==
    ASSUME NEW h \in Handlers, HandlerStep(h)
    PROVE  missed \subseteq missed'
  BY DEF HandlerStep, Lock, OpenApp, WriteApp, OpenCode, WriteCode, OpenFile,
         CloseFile, ReadList, OpenList, WriteList, DaprStop, StopApp, RunApp,
         Serve, Reply, Fail, Unlock, Missing

(* Who has edited a main.py has edited it for good; so what a deployment   *)
(* may find there only grows.                                              *)
LEMMA EditorsGrow ==
    ASSUME IInv, Unused, [Next]_vars, NEW i
    PROVE  Editors(i) \subseteq Editors(i)'
<1>1. SUFFICES ASSUME NEW g \in Handlers, g \in Editors(i) PROVE g \in Editors(i)'
  BY DEF Editors
<1>2. /\ req[g].kind = "set" /\ req[g].id = i
      /\ pc[g] \notin {"daprStop", "openCode", "idle"}
      /\ ~Locks(g)
  <2>1. pc[g] # "idle"
    BY <1>1 DEF Editors, Unused, NoRequest
  <2> QED BY <1>1, <2>1 DEF Editors, Locks
<1>3. SUFFICES req'[g] = req[g] /\ pc'[g] \notin {"daprStop", "openCode"}
  BY <1>2 DEF Editors
<1>4. ASSUME NEW h \in Handlers, NEW r \in Messages, Arrive(h, r)
      PROVE  req'[g] = req[g] /\ pc'[g] = pc[g]
  BY <1>2, <1>4 DEF Arrive, Goto, IInv, TypeOK
<1>5. ASSUME NEW h \in Handlers, HandlerStep(h)
      PROVE  req'[g] = req[g] /\ pc'[g] \notin {"daprStop", "openCode"}
  <2>1. UNCHANGED req
    BY <1>5, SameRequests
  <2>2. CASE g # h
    <3>1. pc'[g] = pc[g]
      BY <1>5, <2>2 DEF HandlerStep, Lock, OpenApp, WriteApp, OpenCode, WriteCode,
         OpenFile, CloseFile, ReadList, OpenList, WriteList, DaprStop, StopApp, RunApp,
         Serve, Reply, Fail, Unlock, Goto, IInv, TypeOK
    <3> QED BY <1>2, <2>1, <3>1
  <2>3. CASE g = h
    <3>1. pc[h] \notin {"lock", "writeApp", "openApp"}
      BY <1>2, <2>3 DEF IInv, Discipline
    <3>2. pc'[h] \notin {"daprStop", "openCode"}
      BY <1>2, <1>5, <2>3, <3>1 DEF HandlerStep, Lock, OpenApp, WriteApp, OpenCode,
         WriteCode, OpenFile, CloseFile, ReadList, OpenList, WriteList, DaprStop,
         StopApp, RunApp, Serve, Reply, Fail, Unlock, Goto, IInv, TypeOK
    <3> QED BY <2>1, <2>3, <3>2
  <2> QED BY <2>2, <2>3
<1>6. ASSUME (\E j \in Ids : Boot(j) \/ Exit(j)) \/ UNCHANGED vars
      PROVE  req'[g] = req[g] /\ pc'[g] = pc[g]
  BY <1>6 DEF Boot, Exit, vars
<1>7. ASSUME Restart PROVE req'[g] = req[g] /\ pc'[g] \in {pc[g], "lost"}
  BY <1>7 DEF Restart
<1> QED BY <1>2, <1>4, <1>5, <1>6, <1>7 DEF Next

LEMMA CodeOfGrows ==
    ASSUME IInv, Unused, [Next]_vars, NEW h \in Handlers, req'[h] = req[h],
           missed \subseteq missed'
    PROVE  CodeOf(h) \subseteq CodeOf(h)'
<1>1. PICK i : i = req[h].id
  OBVIOUS
<1>2. Editors(i) \subseteq Editors(i)'
  BY EditorsGrow
<1>3. Editors(req[h].id) \subseteq Editors(req[h].id)'
  BY <1>1, <1>2 DEF Editors
<1> QED BY <1>3 DEF CodeOf

(* Between lock() and unlock() nobody else touches the files of the        *)
(* deployment, except main.py under an edit.                               *)
LEMMA OthersFiles ==
    ASSUME IInv, NEW h \in Handlers, HandlerStep(h),
           NEW g \in Handlers \ {h}, Holds(g)
    PROVE  LET i == req[g].id
           IN  /\ files'["app"][i] = files["app"][i]
               /\ \/ files'["code"][i] = files["code"][i]
                  \/ h \in Editors(i)' /\ files'["code"][i] \in {h, Empty, Torn}
<1> DEFINE i == req[g].id
<1>1. CASE OpenApp(h) \/ WriteApp(h)
  <2>1. Holds(h)
    BY <1>1 DEF OpenApp, WriteApp, OpenFile, CloseFile, IInv, Discipline, Holds,
                InSection
  <2> QED BY <2>1, Alone
<1>2. CASE OpenCode(h) \/ WriteCode(h)
  <2>1. req[h].kind = "set" /\ UNCHANGED req
    <3>1. ~Holds(h)
      BY Alone
    <3> QED BY <1>2, <3>1 DEF OpenCode, WriteCode, OpenFile, CloseFile, IInv,
                              Discipline, Holds, InSection
  <2>2. PICK c : \/ UNCHANGED files
                 \/ /\ files' = [files EXCEPT !["code"][req[h].id] = c]
                    /\ pc'[h] \notin {"daprStop", "openCode"}
                    /\ c \in {h, Empty, Torn, files["code"][req[h].id]}
    BY <1>2 DEF OpenCode, WriteCode, OpenFile, CloseFile, Truncated, Closed,
                NotClosed, Goto, IInv, TypeOK
  <2>3. DOMAIN files = FileNames /\ i \in DOMAIN files["code"]
        /\ DOMAIN files["code"] = Ids
    <3>1. i \in Ids
      BY Serving DEF Holds, InSection
    <3> QED BY <3>1 DEF IInv, TypeOK
  <2>4. CASE req[h].id = i /\ ~UNCHANGED files
    <3>1. h \in Editors(i)'
      BY <2>1, <2>2, <2>4 DEF Editors
    <3> QED BY <2>2, <2>3, <2>4, <3>1
  <2>5. CASE req[h].id # i
    BY <2>2, <2>3, <2>5
  <2> QED BY <2>4, <2>5
<1>3. CASE ~(OpenApp(h) \/ WriteApp(h) \/ OpenCode(h) \/ WriteCode(h))
  <2>1. UNCHANGED files
    BY <1>3 DEF HandlerStep, Lock, ReadList, OpenList, WriteList, DaprStop,
                StopApp, RunApp, Serve, Reply, Fail, Unlock
  <2> QED BY <2>1
<1> QED BY <1>1, <1>2, <1>3

(* What a deployment has written itself: the truncation empties a file,    *)
(* the close leaves its text or loses it, the other stages leave the files *)
(* alone.                                                                  *)
LEMMA OwnFiles ==
    ASSUME IInv, Unused, NEW h \in Handlers, HandlerStep(h), Locks(h), WroteFiles(h)
    PROVE  WroteFiles(h)'
<1> DEFINE i == req[h].id
<1>1. UNCHANGED req
  BY SameRequests
<1>2. pc[h] # "idle" /\ i \in Ids
  <2>1. pc[h] # "idle"
    BY DEF HandlerStep, Lock, OpenApp, WriteApp, OpenCode, WriteCode, OpenFile,
           CloseFile, ReadList, OpenList, WriteList, DaprStop, StopApp, RunApp,
           Serve, Reply, Fail, Unlock
  <2> QED BY <2>1, Serving
<1>3. CASE OpenApp(h)
  BY <1>1, <1>2, <1>3 DEF OpenApp, OpenFile, Truncated, Goto, WroteFiles, PastApp,
                          PastCode, IInv, TypeOK
<1>4. CASE WriteApp(h)
  <2>1. /\ pc[h] = "writeApp" /\ pc' = [pc EXCEPT ![h] = "openCode"]
        /\ files["app"][i] = Empty
    BY <1>4 DEF WriteApp, CloseFile, Goto, WroteFiles
  <2>2. PICK c \in {h, Empty, Torn} :
            /\ files' = [files EXCEPT !["app"][i] = c]
            /\ c # h => <<h, "app">> \in missed'
    BY <1>4, <2>1 DEF WriteApp, CloseFile, Closed, NotClosed, Missing
  <2>3. files'["app"][i] = c
    BY <1>2, <2>2 DEF IInv, TypeOK
  <2> QED BY <1>1, <1>2, <2>1, <2>2, <2>3 DEF WroteFiles, PastApp, PastCode, IInv, TypeOK
<1>5. CASE OpenCode(h)
  <2>1. /\ pc[h] = "openCode" /\ UNCHANGED missed
        /\ \/ /\ files' = [files EXCEPT !["code"][i] = Empty]
              /\ pc'[h] = "writeCode"
           \/ pc'[h] = "fail"
    BY <1>5 DEF OpenCode, OpenFile, Truncated, Goto, IInv, TypeOK
  <2>2. CASE pc'[h] = "fail"
    BY <2>2 DEF WroteFiles, PastApp, PastCode
  <2>3. CASE pc'[h] = "writeCode"
    <3>1. files'["app"][i] = files["app"][i] /\ files'["code"][i] = Empty
      BY <1>2, <2>1, <2>3 DEF IInv, TypeOK
    <3> QED BY <1>1, <2>1, <2>3, <3>1 DEF WroteFiles, PastApp, PastCode
  <2> QED BY <2>1, <2>2, <2>3
<1>6. CASE WriteCode(h)
  <2>1. /\ pc[h] = "writeCode" /\ pc' = [pc EXCEPT ![h] = "readList"]
        /\ files["code"][i] = Empty \/ EditedOnly(i)
        /\ missed \subseteq missed'
    BY <1>6, MissedOnlyGrows DEF WriteCode, CloseFile, Goto, Locks, WroteFiles
  <2>2. PICK c : files' = [files EXCEPT !["code"][i] = c] /\
            \/ c = h
            \/ c = Torn /\ files["code"][i] # Empty
            \/ c \in {files["code"][i], Torn} /\ <<h, "code">> \in missed'
    BY <1>6 DEF WriteCode, CloseFile, Closed, NotClosed, Missing
  <2>3. files'["app"][i] = files["app"][i] /\ files'["code"][i] = c
    BY <1>2, <2>2 DEF IInv, TypeOK
  <2>4. Editors(i) \subseteq Editors(i)'
    <3>1. PICK j : j = i
      OBVIOUS
    <3>2. Editors(j) \subseteq Editors(j)'
      BY EditorsGrow DEF Next
    <3> QED BY <1>1, <3>1, <3>2 DEF Editors
  <2>5. c \in {h} \cup Editors(i)'
             \cup (IF Editors(i)' = {} /\ <<h, "code">> \notin missed'
                   THEN {} ELSE {Empty, Torn})
    BY <2>1, <2>2, <2>4 DEF EditedOnly
  <2>6. c \in CodeOf(h)'
    BY <1>1, <2>5 DEF CodeOf, Editors
  <2> QED BY <1>1, <2>1, <2>3, <2>6 DEF WroteFiles, PastApp, PastCode, IInv, TypeOK
<1>7. CASE Lock(h)
  BY <1>1, <1>7 DEF Lock, Goto, WroteFiles, PastApp, PastCode, IInv, TypeOK
<1>8. CASE ~(OpenApp(h) \/ WriteApp(h) \/ OpenCode(h) \/ WriteCode(h) \/ Lock(h))
  <2>1. UNCHANGED files
    BY <1>8 DEF HandlerStep, ReadList, OpenList, WriteList, DaprStop,
                StopApp, RunApp, Serve, Reply, Fail, Unlock
  <2>2. \/ pc[h] \in PastCode /\ pc'[h] \in PastCode
        \/ pc'[h] \notin PastApp \cup {"writeApp"}
    <3>1. pc[h] # "daprStop"
      BY DEF IInv, Discipline, Locks
    <3> QED BY <1>8, <3>1 DEF HandlerStep, ReadList, OpenList, WriteList, DaprStop,
                StopApp, RunApp, Serve, Reply, Fail, Unlock, Goto, PastApp, PastCode,
                IInv, TypeOK
  <2>3. missed \subseteq missed' /\ CodeOf(h) \subseteq CodeOf(h)'
    BY <1>1, MissedOnlyGrows, CodeOfGrows DEF Next
  <2> QED BY <1>1, <2>1, <2>2, <2>3 DEF WroteFiles, PastApp, PastCode
<1> QED BY <1>3, <1>4, <1>5, <1>6, <1>7, <1>8

(* One step of one handler: its own files by OwnFiles, those of the        *)
(* others by OthersFiles.                                                  *)
LEMMA HandlerDeploy ==
    ASSUME IInv, DeployInv, NEW h \in Handlers, HandlerStep(h)
    PROVE  DeployInv'
<1>1. /\ UNCHANGED req /\ missed \subseteq missed' /\ Unused
      /\ \A i : Editors(i) \subseteq Editors(i)'
      /\ \A g \in Handlers : CodeOf(g) \subseteq CodeOf(g)'
  BY SameRequests, MissedOnlyGrows, EditorsGrow, CodeOfGrows DEF DeployInv, Next
<1>2. \A g \in Handlers \ {h} : pc'[g] = pc[g]
  BY DEF HandlerStep, Lock, OpenApp, WriteApp, OpenCode, WriteCode, OpenFile,
         CloseFile, ReadList, OpenList, WriteList, DaprStop, StopApp, RunApp,
         Serve, Reply, Fail, Unlock, Goto, IInv, TypeOK
<1>3. pc'[h] # "idle"
  BY DEF HandlerStep, Lock, OpenApp, WriteApp, OpenCode, WriteCode, OpenFile,
         CloseFile, ReadList, OpenList, WriteList, DaprStop, StopApp, RunApp,
         Serve, Reply, Fail, Unlock, Goto, IInv, TypeOK
<1>4. Unused'
  BY <1>1, <1>2, <1>3 DEF Unused
<1>5. FilesState'
  <2>1. SUFFICES ASSUME NEW g \in Handlers, Locks(g)' PROVE WroteFiles(g)'
    BY DEF FilesState
  <2>2. Locks(g) /\ WroteFiles(g)
    BY <1>1, <2>1 DEF DeployInv, FilesState, Locks
  <2>3. CASE g = h
    BY <1>1, <2>2, <2>3, OwnFiles
  <2>4. CASE g # h /\ pc[g] \notin PastApp \cup {"writeApp"}
    BY <1>2, <2>4 DEF WroteFiles, PastApp
  <2>5. CASE g # h /\ pc[g] \in PastApp \cup {"writeApp"}
    <3>0. PICK i : i = req[g].id
      OBVIOUS
    <3>1. Holds(g)
      BY <2>2, <2>5 DEF Holds, InSection, PastApp, PastCode
    <3>2. /\ files'["app"][i] = files["app"][i]
          /\ \/ files'["code"][i] = files["code"][i]
             \/ h \in Editors(i)' /\ files'["code"][i] \in {h, Empty, Torn}
      BY <1>1, <2>5, <3>0, <3>1, OthersFiles DEF Editors
    <3>3. pc'[g] = pc[g] /\ req'[g] = req[g]
      BY <1>1, <1>2, <2>5
    <3>4. /\ pc[g] = "writeApp" => files'["app"][i] = Empty
          /\ req[g].kind = "ara" /\ pc[g] \in PastApp =>
                \/ files'["app"][i] = g
                \/ <<g, "app">> \in missed' /\ files'["app"][i] \in {Empty, Torn}
      BY <1>1, <2>2, <3>0, <3>2 DEF WroteFiles
    <3>5. pc[g] = "writeCode" =>
              \/ files'["code"][i] = Empty
              \/ Editors(i)' # {} /\ files'["code"][i] \in Editors(i)' \cup {Empty, Torn}
      BY <1>1, <2>2, <3>0, <3>2 DEF WroteFiles, EditedOnly
    <3>6. pc[g] \in PastCode => files'["code"][i] \in CodeOf(g)'
      <4>1. h \in Editors(i)' => {h, Empty, Torn} \subseteq CodeOf(g)'
        BY <3>0, <3>3 DEF CodeOf, Editors
      <4> QED BY <1>1, <2>2, <3>0, <3>2, <4>1 DEF WroteFiles
    <3>7. Editors(i)' = Editors(req[g].id)'
      BY <3>0, <3>3 DEF Editors
    <3> QED BY <3>0, <3>3, <3>4, <3>5, <3>6, <3>7 DEF WroteFiles, EditedOnly
  <2> QED BY <2>3, <2>4, <2>5
<1>6. RunState'
  <2>1. SUFFICES ASSUME NEW g \in Handlers, req[g].run, pc'[g] \in {"runApp", "reply"}
                 PROVE  container'[req[g].id] \in {None, Exited, Booting} \cup CodeOf(g)'
    BY <1>1 DEF RunState
  <2>2. req[g] \in Messages
    <3>1. pc[g] # "idle"
      BY <1>1, <1>2, <2>1 DEF Unused, NoRequest
    <3> QED BY <3>1, Serving
  <2>3. \A i \in Ids : container'[i] \in {container[i], None, Booting}
    BY DEF HandlerStep, Lock, OpenApp, WriteApp, OpenCode, WriteCode, OpenFile,
           CloseFile, ReadList, OpenList, WriteList, DaprStop, StopApp, RunApp,
           Serve, Reply, Fail, Unlock, IInv, TypeOK
  <2>4. CASE pc[g] \in {"runApp", "reply"}
    BY <1>1, <2>1, <2>2, <2>3, <2>4, RequestFields DEF DeployInv, RunState
  <2>5. CASE pc[g] \notin {"runApp", "reply"}
    <3>1. g = h /\ req[g].kind = "deploy"
      BY <1>2, <2>1, <2>2, <2>5, RequestFields
    <3>2. StopApp(h)
      BY <2>1, <2>5, <3>1 DEF HandlerStep, Lock, OpenApp, WriteApp, OpenCode,
            WriteCode, OpenFile, CloseFile, ReadList, OpenList, WriteList,
            DaprStop, RunApp, Serve, Reply, Fail, Unlock, Goto, IInv, TypeOK
    <3> QED BY <2>2, <3>1, <3>2, RequestFields DEF StopApp, IInv, TypeOK
  <2> QED BY <2>4, <2>5
<1> QED BY <1>4, <1>5, <1>6 DEF DeployInv

(* Where a step leaves the files and the requests alone, what is known of  *)
(* the files stays known.                                                  *)
LEMMA KeepFiles ==
    ASSUME IInv, Unused, [Next]_vars, NEW g \in Handlers, req'[g] = req[g],
           UNCHANGED <<files, missed>>, WroteFiles(g), pc'[g] \in {pc[g], "lost"}
    PROVE  WroteFiles(g)'
<1>1. PICK i : i = req[g].id
  OBVIOUS
<1>2. Editors(i) \subseteq Editors(i)' /\ CodeOf(g) \subseteq CodeOf(g)'
  BY EditorsGrow, CodeOfGrows
<1>3. Editors(i)' = Editors(req[g].id)'
  BY <1>1 DEF Editors
<1>4. EditedOnly(req[g].id) => EditedOnly(req[g].id)'
  BY <1>1, <1>2, <1>3 DEF EditedOnly
<1> QED BY <1>2, <1>4 DEF WroteFiles, PastApp, PastCode

(* A new message takes a handler that had none, so no edit is forgotten.   *)
LEMMA ArriveDeploy ==
    ASSUME IInv, DeployInv, NEW h \in Handlers, NEW r \in Messages, Arrive(h, r)
    PROVE  DeployInv'
<1>1. /\ pc[h] = "idle" /\ UNCHANGED <<files, container, missed>>
      /\ \A g \in Handlers \ {h} : req'[g] = req[g] /\ pc'[g] = pc[g]
      /\ Unused /\ [Next]_vars
  BY DEF Arrive, Goto, IInv, TypeOK, DeployInv, Next
<1>2. pc'[h] \in {"lock", "serve", "stopApp", "daprStop"}
      /\ (r.kind \in LockedKinds => pc'[h] = "lock")
      /\ req'[h] = r
  BY RequestFields, FirstStageValue DEF Arrive, Goto, IInv, TypeOK
<1>4. Unused'
  BY <1>1, <1>2 DEF Unused
<1>5. FilesState'
  <2>1. SUFFICES ASSUME NEW g \in Handlers, Locks(g)' PROVE WroteFiles(g)'
    BY DEF FilesState
  <2>2. CASE g = h
    BY <1>2, <2>1, <2>2 DEF WroteFiles, PastApp, PastCode, Locks
  <2>3. CASE g # h
    <3>1. WroteFiles(g)
      BY <1>1, <2>1, <2>3 DEF DeployInv, FilesState, Locks
    <3> QED BY <1>1, <2>3, <3>1, KeepFiles
  <2> QED BY <2>2, <2>3
<1>6. RunState'
  <2>1. SUFFICES ASSUME NEW g \in Handlers, req'[g].run,
                        pc'[g] \in {"runApp", "reply"}
                 PROVE  container'[req'[g].id] \in {None, Exited, Booting} \cup CodeOf(g)'
    BY DEF RunState
  <2>2. g # h
    BY <1>2, <2>1
  <2>3. CodeOf(g) \subseteq CodeOf(g)'
    BY <1>1, <2>2, CodeOfGrows
  <2> QED BY <1>1, <2>1, <2>2, <2>3 DEF DeployInv, RunState
<1> QED BY <1>4, <1>5, <1>6 DEF DeployInv

(* docker boots a container from the file that is there, or sees it end.   *)
LEMMA DockerDeploy ==
    ASSUME IInv, DeployInv, NEW i \in Ids, Boot(i) \/ Exit(i)
    PROVE  DeployInv'
<1>1. UNCHANGED <<pc, req, files, missed>> /\ Unused /\ [Next]_vars
  BY DEF Boot, Exit, DeployInv, Next
<1>2. \A g \in Handlers : CodeOf(g) \subseteq CodeOf(g)'
  BY <1>1, CodeOfGrows
<1>3. Unused' /\ FilesState'
  BY <1>1, KeepFiles DEF DeployInv, Unused, FilesState, Locks
<1>4. RunState'
  <2>1. SUFFICES ASSUME NEW h \in Handlers, req[h].run, pc[h] \in {"runApp", "reply"}
                 PROVE  container'[req[h].id] \in {None, Exited, Booting} \cup CodeOf(h)'
    BY <1>1 DEF RunState
  <2>2. /\ pc[h] # "idle" /\ req[h].id \in Ids
        /\ container[req[h].id] \in {None, Exited, Booting} \cup CodeOf(h)
    BY <2>1, Serving DEF DeployInv, RunState
  <2>3. files["code"][req[h].id] \in CodeOf(h)
    <3>1. Locks(h)
      BY <2>1, <2>2, Serving, RequestFields DEF Locks
    <3> QED BY <2>1, <3>1 DEF DeployInv, FilesState, WroteFiles, PastCode
  <2>4. container'[req[h].id] \in {container[req[h].id], files["code"][req[h].id], Exited}
    BY <2>2 DEF Boot, Exit, IInv, TypeOK
  <2> QED BY <1>2, <2>2, <2>3, <2>4
<1> QED BY <1>3, <1>4 DEF DeployInv

(* A restart stops the handlers and leaves what they wrote.                *)
LEMMA RestartDeploy ==
    ASSUME IInv, DeployInv, Restart
    PROVE  DeployInv'
<1>1. /\ UNCHANGED <<req, files, container, missed>> /\ Unused /\ [Next]_vars
      /\ \A h \in Handlers : pc'[h] \in {pc[h], "lost"}
  BY DEF Restart, DeployInv, Next
<1>2. \A g \in Handlers : CodeOf(g) \subseteq CodeOf(g)'
  BY <1>1, CodeOfGrows
<1>3. Unused' /\ FilesState'
  BY <1>1, KeepFiles DEF DeployInv, Unused, FilesState, Locks
<1>4. RunState'
  BY <1>1, <1>2 DEF DeployInv, RunState
<1> QED BY <1>3, <1>4 DEF DeployInv

(* A step of nobody.                                                       *)
LEMMA StutterDeploy == DeployInv /\ UNCHANGED vars => DeployInv'
<1> SUFFICES ASSUME DeployInv, UNCHANGED vars PROVE DeployInv'
  OBVIOUS
<1>1. UNCHANGED <<pc, req, files, container, missed>>
  BY DEF vars
<1> QED BY <1>1 DEF DeployInv, Unused, FilesState, WroteFiles, EditedOnly, RunState,
                    Locks, CodeOf, Editors

(* Both invariants hold in every reachable state.                          *)
LEMMA DeployInvariance == Spec => [](IInv /\ DeployInv)
<1>1. IInv /\ DeployInv /\ [Next]_vars => DeployInv'
  BY ArriveDeploy, HandlerDeploy, DockerDeploy, RestartDeploy, StutterDeploy DEF Next
<1> QED BY Invariance, InitDeploy, <1>1, PTL DEF Spec

(* Only the reply stage answers "success".                                 *)
LEMMA AckIsReply ==
    ASSUME IInv, [Next]_vars, NEW h \in Handlers, Acks(h)
    PROVE  pc[h] = "reply" /\ UNCHANGED <<req, files, container, missed>>
<1>1. ~UNCHANGED result
  BY DEF Acks
<1>2. PICK g \in Handlers : HandlerStep(g)
  BY <1>1 DEF Next, Arrive, Boot, Exit, Restart, vars
<1>3. Serve(g) \/ Fail(g) \/ Reply(g)
  BY <1>1, <1>2 DEF HandlerStep, Lock, OpenApp, WriteApp, OpenCode, WriteCode,
         OpenFile, CloseFile, ReadList, OpenList, WriteList, DaprStop, StopApp,
         RunApp, Unlock
<1>4. g = h /\ Reply(g)
  BY <1>3 DEF Serve, Fail, Reply, Acks, IInv, TypeOK
<1> QED BY <1>4 DEF Reply

(* A deployment that is answered "success" finds its own text on disk and  *)
(* never an older one's, whatever other messages were served meanwhile and *)
(* whatever failed: no whole text if its write was lost, and main.py may   *)
(* belong to a set-python-code message for the same prototype.             *)
THEOREM FilesOfAckedDeployment == Spec => AckedFilesIntact
<1> DEFINE Intact == \A h \in Handlers : Acks(h) /\ Locks(h) =>
                LET i == req[h].id IN
                /\ files["code"][i] \in CodeOf(h)
                /\ req[h].kind = "ara" =>
                      \/ files["app"][i] = h
                      \/ <<h, "app">> \in missed /\ files["app"][i] \in {Empty, Torn}
<1>1. IInv /\ DeployInv /\ [Next]_vars => Intact
  BY AckIsReply DEF DeployInv, FilesState, WroteFiles, PastApp, PastCode
<1>2. IInv /\ DeployInv /\ [Next]_vars => [Intact]_vars
  BY <1>1
<1> QED BY DeployInvariance, <1>2, PTL DEF AckedFilesIntact, Spec

(* A deployment with run_after_deploy that is answered "success" leaves no *)
(* container of its prototype on older code, although start and stop       *)
(* messages take no lock.                                                  *)
THEOREM ContainerOfAckedRun == Spec => AckedRunIsNew
<1> DEFINE New == \A h \in Handlers : Acks(h) /\ req[h].run =>
                     container[req[h].id] \in {None, Exited, Booting} \cup CodeOf(h)
<1>1. IInv /\ DeployInv /\ [Next]_vars => New
  BY AckIsReply DEF DeployInv, RunState
<1>2. IInv /\ DeployInv /\ [Next]_vars => [New]_vars
  BY <1>1
<1> QED BY DeployInvariance, <1>2, PTL DEF AckedRunIsNew, Spec

(* A list_prototypes reply, read without the lock, carries the whole       *)
(* registry or nothing at all.                                             *)
THEOREM RepliesAreWhole == Spec => ListIsAllOrNothing
<1> DEFINE Whole == \A h \in Handlers : pc[h] = "serve" /\ pc'[h] = "done" =>
                       shown'[h] \in {<<>>, Registry}
<1>1. ASSUME IInv, [Next]_vars PROVE Whole
  <2>1. SUFFICES ASSUME NEW h \in Handlers, pc[h] = "serve", pc'[h] = "done"
                 PROVE  shown'[h] \in {<<>>, Registry}
    OBVIOUS
  <2>2. PICK g \in Handlers : HandlerStep(g) \/ \E r \in Messages : Arrive(g, r)
    BY <1>1, <2>1 DEF Next, Boot, Exit, Restart, vars
  <2>3. g = h
    BY <1>1, <2>1, <2>2 DEF Arrive, HandlerStep, Lock, OpenApp, WriteApp, OpenCode,
         WriteCode, OpenFile, CloseFile, ReadList, OpenList, WriteList, DaprStop,
         StopApp, RunApp, Serve, Reply, Fail, Unlock, Goto, IInv, TypeOK
  <2>4. Serve(h)
    BY <2>1, <2>2, <2>3 DEF Arrive, HandlerStep, Lock, OpenApp, WriteApp, OpenCode,
         WriteCode, OpenFile, CloseFile, ReadList, OpenList, WriteList, DaprStop,
         StopApp, RunApp, Reply, Fail, Unlock
  <2>5. shown'[h] \in {list, <<>>}
    BY <1>1, <2>4 DEF Serve, IInv, TypeOK
  <2>6. CASE Writing = {}
    BY <2>5, <2>6, RegistryAtRest
  <2>7. CASE Writing # {}
    BY <1>1, <2>5, <2>7 DEF IInv, ListState
  <2> QED BY <2>6, <2>7
<1>2. IInv /\ [Next]_vars => [Whole]_vars
  BY <1>1
<1> QED BY Invariance, <1>2, PTL DEF ListIsAllOrNothing, Spec
=============================================================================
