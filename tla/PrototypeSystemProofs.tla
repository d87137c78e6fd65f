----------------------- MODULE PrototypeSystemProofs -----------------------
(***************************************************************************)
(* Theorems about dk-manager and the digital.auto page together, for any   *)
(* number of messages, prototypes, faults and clicks.  The invariant of    *)
(* PrototypeStoreProofs does not hold here: the page writes prototypes.json*)
(* without the lock, so what a handler is about to write need not be the   *)
(* current list with one prototype added.  What is left is enough for the  *)
(* page: every copy of the list, wherever it waits, names each prototype   *)
(* once, so any of them may be the one that ends up in the file.           *)
(***************************************************************************)
EXTENDS PrototypeSystem, PrototypeStoreProofs, ListLemmas

-----------------------------------------------------------------------------
(* A handler that is not idle serves a message.                            *)
Served == \A h \in Handlers : pc[h] # "idle" => req[h] \in Messages

(* Nobody is named twice: in the file, in what a handler or the page is    *)
(* about to write, in the rows and in m_appListInfo.                       *)
CopiesOnce ==
    /\ IsInjective(list) /\ IsInjective(read)
    /\ \A h \in Handlers : IsInjective(pending[h])
    /\ IsInjective(Page!IdsOf(view)) /\ IsInjective(Page!IdsOf(info))

(* What is remembered from one step of the page to the next: the app that  *)
(* is being started, the index that is being removed, the app the worker   *)
(* checks, the app that a dialog names.                                    *)
Remembered ==
    /\ gui.at \in {"look", "launch"} => gui.app \in Ids
    /\ gui.at = "remove" => current \in DOMAIN info
    /\ worker # "waiting" => trigger \in Ids
    /\ dialog.kind # "none" => dialog.app \in Ids

SysInv == SysTypeOK /\ TypeOK /\ Served /\ CopiesOnce /\ Remembered
-----------------------------------------------------------------------------
(* Rows and lists.                                                         *)

(* The rows of a page name as many apps as there are rows.                 *)
LEMMA IdsOfSeq ==
    ASSUME NEW F, NEW rows \in Seq(F), \A x \in F : x.id \in Ids
    PROVE  /\ Page!IdsOf(rows) \in Seq(Ids)
           /\ Len(Page!IdsOf(rows)) = Len(rows)
           /\ \A n \in 1..Len(rows) : Page!IdsOf(rows)[n] = rows[n].id
<1>1. Page!IdsOf(rows) = [n \in 1..Len(rows) |-> rows[n].id]
  BY DEF Page!IdsOf
<1>2. \A n \in 1..Len(rows) : rows[n].id \in Ids
  BY ElementOfSeq
<1>3. /\ [n \in 1..Len(rows) |-> rows[n].id] \in Seq(Ids)
      /\ Len([n \in 1..Len(rows) |-> rows[n].id]) = Len(rows)
  BY <1>2, IsASeq
<1> QED BY <1>1, <1>3

(* Rows of the same apps, whatever else they say, are injective together.  *)
LEMMA SameIds ==
    ASSUME NEW r, NEW s, DOMAIN r = DOMAIN s, \A n \in DOMAIN s : r[n].id = s[n].id
    PROVE  Page!IdsOf(r) = Page!IdsOf(s)
  BY DEF Page!IdsOf

(* The rows that Reload makes of the list.                                 *)
LEMMA ReloadedRows ==
    ASSUME NEW l \in Seq(Ids)
    PROVE  LET v == [n \in DOMAIN l |->
                        [id |-> l[n], checked |-> Page!IsSubscribed(l[n])]]
               i == [n \in DOMAIN l |->
                        [id |-> l[n], subscribed |-> Page!IsSubscribed(l[n])]]
           IN  /\ v \in Seq([id : Ids, checked : BOOLEAN]) /\ Len(v) = Len(l)
               /\ i \in Seq([id : Ids, subscribed : BOOLEAN])
               /\ Page!IdsOf(v) = l /\ Page!IdsOf(i) = l
<1> DEFINE sub(j) == Page!IsSubscribed(j)
           v == [n \in 1..Len(l) |-> [id |-> l[n], checked |-> sub(l[n])]]
           i == [n \in 1..Len(l) |-> [id |-> l[n], subscribed |-> sub(l[n])]]
<1>1. \A n \in 1..Len(l) : l[n] \in Ids /\ sub(l[n]) \in BOOLEAN
  BY ElementOfSeq DEF Page!IsSubscribed
<1> HIDE DEF sub
<1>2. /\ v \in Seq([id : Ids, checked : BOOLEAN]) /\ Len(v) = Len(l)
      /\ i \in Seq([id : Ids, subscribed : BOOLEAN])
  BY <1>1, IsASeq
<1>3. l = [n \in 1..Len(l) |-> l[n]] /\ DOMAIN l = 1..Len(l)
  OBVIOUS
<1>4. Page!IdsOf(v) = l /\ Page!IdsOf(i) = l
  BY <1>3 DEF Page!IdsOf
<1> USE DEF sub
<1> QED BY <1>2, <1>3, <1>4

(* Marking an app as started or stopped keeps the rows and their apps.     *)
LEMMA SubscribedRows ==
    ASSUME info \in Seq([id : Ids, subscribed : BOOLEAN]), NEW j, NEW b \in BOOLEAN
    PROVE  /\ Page!Subscribed(j, b) \in Seq([id : Ids, subscribed : BOOLEAN])
           /\ DOMAIN Page!Subscribed(j, b) = DOMAIN info
           /\ Page!IdsOf(Page!Subscribed(j, b)) = Page!IdsOf(info)
<1> DEFINE Info == [id : Ids, subscribed : BOOLEAN]
           row(n) == IF info[n].id = j THEN [info[n] EXCEPT !.subscribed = b]
                                       ELSE info[n]
<1>1. \A n \in 1..Len(info) : info[n] \in Info
  BY ElementOfSeq
<1>2. \A n \in 1..Len(info) : row(n) \in Info /\ row(n).id = info[n].id
  BY <1>1
<1>3. Page!Subscribed(j, b) = [n \in 1..Len(info) |-> row(n)]
  BY DEF Page!Subscribed
<1>4. DOMAIN info = 1..Len(info)
  OBVIOUS
<1> HIDE DEF row
<1>5. [n \in 1..Len(info) |-> row(n)] \in Seq(Info)
  BY <1>2, IsASeq
<1>6. Page!IdsOf(Page!Subscribed(j, b)) = Page!IdsOf(info)
  BY <1>2, <1>3, <1>4, SameIds
<1> QED BY <1>3, <1>4, <1>5, <1>6

(* Taking a row out takes its app out.                                     *)
LEMMA RowRemoved ==
    ASSUME NEW F, NEW rows \in Seq(F), \A x \in F : x.id \in Ids,
           IsInjective(Page!IdsOf(rows)), NEW n \in 1..Len(rows)
    PROVE  /\ Page!RemoveAt(rows, n) \in Seq(F)
           /\ IsInjective(Page!IdsOf(Page!RemoveAt(rows, n)))
<1> DEFINE less == RemoveAt(rows, n)
           ids == Page!IdsOf(rows)
<1>1. Page!RemoveAt(rows, n) = less
  BY DEF Page!RemoveAt, RemoveAt
<1>2. /\ less \in Seq(F) /\ Len(less) = Len(rows) - 1
      /\ \A k \in 1 .. Len(rows) - 1 : less[k] = IF k < n THEN rows[k] ELSE rows[k + 1]
  BY RemoveAtSeq
<1>3. /\ ids \in Seq(Ids) /\ Len(ids) = Len(rows)
      /\ \A k \in 1..Len(rows) : ids[k] = rows[k].id
  BY IdsOfSeq
<1> HIDE DEF less, ids
<1>4. /\ RemoveAt(ids, n) \in Seq(Ids) /\ Len(RemoveAt(ids, n)) = Len(rows) - 1
      /\ \A k \in 1 .. Len(rows) - 1 :
            RemoveAt(ids, n)[k] = IF k < n THEN ids[k] ELSE ids[k + 1]
      /\ IsInjective(RemoveAt(ids, n))
  BY <1>3, RemoveAtSeq DEF ids
<1>5. ASSUME NEW k \in 1 .. Len(rows) - 1
      PROVE  less[k].id = RemoveAt(ids, n)[k]
  <2>1. k \in 1..Len(rows) /\ k + 1 \in 1..Len(rows)
    OBVIOUS
  <2>2. ids[k] = rows[k].id /\ ids[k + 1] = rows[k + 1].id
    BY <1>3, <2>1
  <2>3. less[k] = IF k < n THEN rows[k] ELSE rows[k + 1]
    BY <1>2
  <2>4. RemoveAt(ids, n)[k] = IF k < n THEN ids[k] ELSE ids[k + 1]
    BY <1>4
  <2> QED BY <2>2, <2>3, <2>4
<1>6. Page!IdsOf(less) = [k \in 1 .. Len(rows) - 1 |-> less[k].id]
  BY <1>2 DEF Page!IdsOf
<1>7. RemoveAt(ids, n) = [k \in 1 .. Len(rows) - 1 |-> RemoveAt(ids, n)[k]]
  BY <1>4
<1>8. Page!IdsOf(less) = RemoveAt(ids, n)
  BY <1>5, <1>6, <1>7
<1> QED BY <1>1, <1>2, <1>4, <1>8

LEMMA EmptyRows ==
    /\ \A S : <<>> \in Seq(S)
    /\ IsInjective(<<>>) /\ Page!IdsOf(<<>>) = <<>> /\ Len(<<>>) = 0
  BY DEF IsInjective, Page!IdsOf

(* Both programs start with an empty list.                                 *)
LEMMA SysInitInv == SysInit => SysInv
<1> SUFFICES ASSUME SysInit PROVE SysInv
  OBVIOUS
<1>1. /\ TypeOK /\ Init
      /\ \A h \in Handlers : pc[h] = "idle" /\ pending[h] = <<>>
  BY InitInv DEF SysInit, Init, IInv
<1>2. SysTypeOK
  <2>1. clicks \in 0..MaxClicks
    BY ClicksAssumption DEF SysInit, Page!Init
  <2>2. /\ view = <<>> /\ info = <<>> /\ read = <<>> /\ results = <<>>
        /\ current = 0 /\ kills = {} /\ asked = {}
        /\ busy = FALSE /\ changed = FALSE /\ reload = "due"
        /\ trigger = None /\ worker = "waiting"
        /\ dialog = [kind |-> "none", app |-> None]
        /\ gui = [at |-> "idle", app |-> None]
    BY DEF SysInit, Page!Init, Page!NoDialog, Page!Idle
  <2>3. current \in 0..Len(view)
    BY <2>2, EmptyRows
  <2> QED BY <1>1, <2>1, <2>2, <2>3, EmptyRows DEF SysTypeOK, TypeOK
<1>3. Served /\ CopiesOnce /\ Remembered
  BY <1>1, EmptyRows DEF SysInit, Init, Page!Init, Page!NoDialog, Page!Idle,
                         Served, CopiesOnce, Remembered
<1> QED BY <1>1, <1>2, <1>3 DEF SysInv
-----------------------------------------------------------------------------
(* The steps of dk-manager, without the invariant that the lock gives.     *)

(* A handler serves a message, keeps it, and moves itself alone.           *)
LEMMA HandlerMoves ==
    ASSUME SysInv, NEW h \in Handlers, HandlerStep(h)
    PROVE  /\ req[h] \in Messages /\ req[h].id \in Ids
           /\ UNCHANGED req
           /\ pc' \in [Handlers -> Stages]
           /\ \A g \in Handlers : pc'[g] # "idle" => pc[g] # "idle"
<1>1. pc[h] # "idle"
  BY DEF HandlerStep, Lock, OpenApp, WriteApp, OpenCode, WriteCode, OpenFile,
         CloseFile, ReadList, OpenList, WriteList, DaprStop, StopApp, RunApp,
         Serve, Reply, Fail, Unlock
<1>2. \E stage \in Stages : Goto(h, stage)
  BY DEF HandlerStep, Lock, OpenApp, WriteApp, OpenCode, WriteCode, OpenFile,
         CloseFile, ReadList, OpenList, WriteList, DaprStop, StopApp, RunApp,
         Serve, Reply, Fail, Unlock, Stages
<1> QED BY <1>1, <1>2, SameRequests, RequestFields DEF SysInv, TypeOK, Served, Goto

(* What a handler writes to the list, or is about to, repeats nobody.      *)
LEMMA HandlerLists ==
    ASSUME SysInv, NEW h \in Handlers, HandlerStep(h)
    PROVE  /\ list' \in Seq(Ids) /\ IsInjective(list')
           /\ pending' \in [Handlers -> Seq(Ids)]
           /\ \A g \in Handlers : IsInjective(pending'[g])
<1>1. /\ list \in Seq(Ids) /\ IsInjective(list)
      /\ pending \in [Handlers -> Seq(Ids)]
      /\ \A g \in Handlers : IsInjective(pending[g])
  BY DEF SysInv, TypeOK, CopiesOnce
<1>2. CASE ReadList(h)
  <2>1. PICK seen \in {list, <<>>} :
            pending' = [pending EXCEPT ![h] = WithPrototype(seen, req[h].id)]
    BY <1>2 DEF ReadList
  <2> DEFINE more == WithPrototype(seen, req[h].id)
  <2>2. seen \in Seq(Ids) /\ IsInjective(seen)
    BY <1>1, EmptyList
  <2>3. more \in Seq(Ids) /\ IsInjective(more)
    BY <2>2, HandlerMoves, AppendedList
  <2> HIDE DEF more
  <2>4. pending' = [pending EXCEPT ![h] = more] /\ UNCHANGED list
    BY <1>2, <2>1 DEF ReadList, more
  <2> QED BY <1>1, <2>3, <2>4
<1>3. CASE OpenList(h)
  BY <1>1, <1>3, EmptyList DEF OpenList
<1>4. CASE WriteList(h)
  <2>1. list' \in {pending[h], list, <<>>} /\ UNCHANGED pending
    BY <1>4 DEF WriteList
  <2> QED BY <1>1, <2>1, EmptyList
<1>5. CASE ~(ReadList(h) \/ OpenList(h) \/ WriteList(h))
  <2>1. UNCHANGED <<list, pending>>
    BY <1>5 DEF HandlerStep, Lock, OpenApp, WriteApp, OpenCode, WriteCode,
                OpenFile, CloseFile, DaprStop, StopApp, RunApp, Serve, Reply,
                Fail, Unlock
  <2> QED BY <1>1, <2>1
<1> QED BY <1>2, <1>3, <1>4, <1>5

(* The files of the prototypes hold what some handler left there.          *)
LEMMA HandlerFiles ==
    ASSUME SysInv, NEW h \in Handlers, HandlerStep(h)
    PROVE  files' \in [FileNames -> [Ids -> Content]]
<1>1. files \in [FileNames -> [Ids -> Content]]
  BY DEF SysInv, TypeOK
<1>2. CASE OpenApp(h) \/ OpenCode(h)
  <2>1. \/ UNCHANGED files
        \/ \E f \in {"app", "code"} : files' = [files EXCEPT ![f][req[h].id] = Empty]
    BY <1>2 DEF OpenApp, OpenCode, OpenFile, Truncated
  <2> QED BY <1>1, <2>1 DEF Content, FileNames
<1>3. CASE WriteApp(h) \/ WriteCode(h)
  <2>1. PICK f \in FileNames : Closed(f, req[h].id, h) \/ NotClosed(f, req[h].id)
    BY <1>3 DEF WriteApp, WriteCode, CloseFile, FileNames
  <2>2. PICK c \in {h, Torn, files[f][req[h].id]} :
           files' = [files EXCEPT ![f][req[h].id] = c]
    BY <2>1 DEF Closed, NotClosed
  <2>3. c \in Content
    BY <1>1, HandlerMoves DEF Content
  <2> QED BY <1>1, <2>2, <2>3
<1>4. CASE ~(OpenApp(h) \/ WriteApp(h) \/ OpenCode(h) \/ WriteCode(h))
  <2>1. UNCHANGED files
    BY <1>4 DEF HandlerStep, Lock, ReadList, OpenList, WriteList, DaprStop,
                StopApp, RunApp, Serve, Reply, Fail, Unlock
  <2> QED BY <1>1, <2>1
<1> QED BY <1>2, <1>3, <1>4

(* The rest of what a handler changes.                                     *)
LEMMA HandlerTypes ==
    ASSUME SysInv, NEW h \in Handlers, HandlerStep(h)
    PROVE  TypeOK'
<1>1. digitalAutoPrototypeMutex' \in Handlers \cup {None}
  BY DEF HandlerStep, Lock, OpenApp, WriteApp, OpenCode, WriteCode, OpenFile,
         CloseFile, ReadList, OpenList, WriteList, DaprStop, StopApp, RunApp,
         Serve, Reply, Fail, Unlock, SysInv, TypeOK
<1>2. container' \in [Ids -> Content \cup {Booting, Exited}]
  BY DEF HandlerStep, Lock, OpenApp, WriteApp, OpenCode, WriteCode, OpenFile,
         CloseFile, ReadList, OpenList, WriteList, DaprStop, StopApp, RunApp,
         Serve, Reply, Fail, Unlock, SysInv, TypeOK, Content
<1>3. result' \in [Handlers -> {None, "success", "fail", "sent"}]
  BY DEF HandlerStep, Lock, OpenApp, WriteApp, OpenCode, WriteCode, OpenFile,
         CloseFile, ReadList, OpenList, WriteList, DaprStop, StopApp, RunApp,
         Serve, Reply, Fail, Unlock, SysInv, TypeOK
<1>4. shown' \in [Handlers -> Seq(Ids)]
  BY EmptyList DEF HandlerStep, Lock, OpenApp, WriteApp, OpenCode, WriteCode, OpenFile,
         CloseFile, ReadList, OpenList, WriteList, DaprStop, StopApp, RunApp,
         Serve, Reply, Fail, Unlock, SysInv, TypeOK
<1>5. \/ UNCHANGED <<faults, missed>>
      \/ \E what \in Slips : Missing(h, what)
  BY DEF HandlerStep, Lock, OpenApp, WriteApp, OpenCode, WriteCode, OpenFile,
         CloseFile, ReadList, OpenList, WriteList, DaprStop, StopApp, RunApp,
         Serve, Reply, Fail, Unlock, Slips
<1>6. req' \in [Handlers -> Messages \cup {NoRequest}]
  BY HandlerMoves DEF SysInv, TypeOK
<1>7. faults' \in 0..MaxFaults /\ missed' \subseteq Handlers \X Slips
  BY <1>5, FaultsAssumption DEF SysInv, TypeOK, Missing, Fault
<1> QED BY <1>1, <1>2, <1>3, <1>4, <1>6, <1>7, HandlerMoves, HandlerLists, HandlerFiles
        DEF TypeOK

LEMMA StoreStepTypes ==
    ASSUME SysInv, Next
    PROVE  /\ TypeOK' /\ Served'
           /\ IsInjective(list')
           /\ \A h \in Handlers : IsInjective(pending'[h])
<1>1. ASSUME NEW h \in Handlers, HandlerStep(h)
      PROVE  /\ TypeOK' /\ Served' /\ IsInjective(list')
             /\ \A g \in Handlers : IsInjective(pending'[g])
  <2>1. Served'
    BY <1>1, HandlerMoves DEF SysInv, Served
  <2> QED BY <1>1, <2>1, HandlerTypes, HandlerLists
<1>2. ASSUME NEW h \in Handlers, NEW r \in Messages, Arrive(h, r)
      PROVE  /\ TypeOK' /\ Served' /\ IsInjective(list')
             /\ \A g \in Handlers : IsInjective(pending'[g])
  <2>1. FirstStage(r.kind) \in Stages
    BY RequestFields, FirstStageValue DEF Stages, AllKinds, LockedKinds
  <2>2. /\ UNCHANGED <<digitalAutoPrototypeMutex, list, pending, files, container,
                       result, shown, faults, missed>>
        /\ req' = [req EXCEPT ![h] = r]
        /\ pc' = [pc EXCEPT ![h] = FirstStage(r.kind)]
    BY <1>2 DEF Arrive, Goto
  <2>3. TypeOK'
    BY <2>1, <2>2 DEF SysInv, TypeOK
  <2>4. Served'
    BY <2>2 DEF SysInv, TypeOK, Served
  <2> QED BY <2>2, <2>3, <2>4 DEF SysInv, CopiesOnce
<1>3. ASSUME NEW i \in Ids, Boot(i) \/ Exit(i)
      PROVE  /\ TypeOK' /\ Served' /\ IsInjective(list')
             /\ \A g \in Handlers : IsInjective(pending'[g])
  <2>1. UNCHANGED <<digitalAutoPrototypeMutex, pc, req, list, pending, files,
                    result, shown, faults, missed>>
    BY <1>3 DEF Boot, Exit
  <2>2. container' \in [Ids -> Content \cup {Booting, Exited}]
    BY <1>3 DEF Boot, Exit, SysInv, TypeOK, FileNames
  <2> QED BY <2>1, <2>2 DEF SysInv, TypeOK, Served, CopiesOnce
<1>4. ASSUME Restart
      PROVE  /\ TypeOK' /\ Served' /\ IsInjective(list')
             /\ \A g \in Handlers : IsInjective(pending'[g])
  <2>1. /\ UNCHANGED <<req, list, pending, files, container, result, shown, missed>>
        /\ digitalAutoPrototypeMutex' = None
        /\ pc' \in [Handlers -> Stages]
        /\ \A h \in Handlers : pc'[h] # "idle" => pc[h] # "idle"
    BY <1>4 DEF Restart, SysInv, TypeOK, Stages
  <2>2. faults' \in 0..MaxFaults
    BY <1>4, FaultsAssumption DEF Restart, Fault, SysInv, TypeOK
  <2> QED BY <2>1, <2>2 DEF SysInv, TypeOK, Served, CopiesOnce
<1> QED BY <1>1, <1>2, <1>3, <1>4 DEF Next

LEMMA StoreStepInv ==
    ASSUME SysInv, StoreStep
    PROVE  SysInv'
<1>1. /\ TypeOK' /\ Served' /\ IsInjective(list')
      /\ \A h \in Handlers : IsInjective(pending'[h])
  BY StoreStepTypes DEF StoreStep
<1>2. UNCHANGED <<view, info, current, dialog, busy, gui, read, reload, trigger,
                  worker, results, kills, asked, clicks>>
  BY DEF StoreStep, pageUnwatched
<1>3. changed' \in BOOLEAN
  BY DEF StoreStep, SysInv, SysTypeOK
<1>4. SysTypeOK'
  BY <1>1, <1>2, <1>3 DEF SysInv, SysTypeOK, TypeOK
<1>5. CopiesOnce'
  BY <1>1, <1>2 DEF SysInv, CopiesOnce, Page!IdsOf
<1>6. Remembered'
  BY <1>2 DEF SysInv, Remembered
<1> QED BY <1>1, <1>4, <1>5, <1>6 DEF SysInv
-----------------------------------------------------------------------------
(* The steps of the page.  Each leaves dk-manager's own state alone.       *)
LEMMA PageKeepsStore ==
    ASSUME SysInv, UNCHANGED storeOnly, list' \in Seq(Ids),
           container' \in [Ids -> Content \cup {Booting, Exited}]
    PROVE  TypeOK' /\ Served'
  BY DEF storeOnly, SysInv, TypeOK, Served

(* What is left of a page step to show: types, no repetition in the copies *)
(* the page touches, and what it remembers.                                *)
LEMMA PageStepFrom ==
    ASSUME SysInv, UNCHANGED storeOnly, SysTypeOK', Remembered',
           IsInjective(list'), IsInjective(read'),
           IsInjective(Page!IdsOf(view')), IsInjective(Page!IdsOf(info'))
    PROVE  SysInv'
<1>1. TypeOK' /\ Served'
  BY PageKeepsStore DEF SysTypeOK
<1>2. UNCHANGED pending
  BY DEF storeOnly
<1>3. CopiesOnce'
  BY <1>2 DEF SysInv, CopiesOnce
<1> QED BY <1>1, <1>3 DEF SysInv

(* A step that touches no copy of the list.                                *)
LEMMA PageStepBeside ==
    ASSUME SysInv, UNCHANGED storeOnly, UNCHANGED <<list, view, info, read>>,
           SysTypeOK', Remembered'
    PROVE  SysInv'
<1>1. /\ IsInjective(list') /\ IsInjective(read')
      /\ IsInjective(Page!IdsOf(view')) /\ IsInjective(Page!IdsOf(info'))
  BY DEF SysInv, CopiesOnce, Page!IdsOf
<1> QED BY <1>1, PageStepFrom

(* The watcher's signal only sets the timer.                               *)
LEMMA FileChangedInv ==
    ASSUME SysInv, UNCHANGED storeOnly, Page!FileChanged
    PROVE  SysInv'
<1>1. /\ changed' = FALSE /\ reload' = "due"
      /\ UNCHANGED <<list, container, view, info, current, dialog, busy, gui, read,
                     asked, trigger, worker, results, kills, clicks>>
  BY DEF Page!FileChanged, Page!workerVars
<1>2. SysTypeOK'
  BY <1>1 DEF SysInv, SysTypeOK
<1>3. Remembered'
  BY <1>1 DEF SysInv, Remembered
<1> QED BY <1>1, <1>2, <1>3, PageStepBeside

(* The rows are made of the list, so they name nobody twice.               *)
LEMMA ReloadInv ==
    ASSUME SysInv, UNCHANGED storeOnly, Page!Reload
    PROVE  SysInv'
<1>1. /\ gui = [at |-> "idle", app |-> None]
      /\ reload' = "shown"
      /\ info' = [n \in DOMAIN list |->
                    [id |-> list[n], subscribed |-> Page!IsSubscribed(list[n])]]
      /\ view' = [n \in DOMAIN list |->
                    [id |-> list[n], checked |-> Page!IsSubscribed(list[n])]]
      /\ UNCHANGED <<list, container, dialog, busy, gui, read, changed, asked,
                     trigger, worker, results, kills, clicks>>
  BY DEF Page!Reload, Page!workerVars, Page!Free, Page!Idle
<1>2. /\ list \in Seq(Ids) /\ IsInjective(list) /\ IsInjective(read)
  BY DEF SysInv, SysTypeOK, CopiesOnce
<1>3. /\ view' \in Seq([id : Ids, checked : BOOLEAN]) /\ Len(view') = Len(list)
      /\ info' \in Seq([id : Ids, subscribed : BOOLEAN])
      /\ Page!IdsOf(view') = list /\ Page!IdsOf(info') = list
  BY <1>1, <1>2, ReloadedRows
<1>4. current' \in 0..Len(view')
  <2>1. list # <<>> => Len(list) > 0
    BY <1>2
  <2>2. current' \in {0} \cup (IF current # 0 /\ list # <<>> THEN {1} ELSE {})
    BY Zenon DEF Page!Reload
  <2>3. Len(list) \in Nat
    BY <1>2
  <2> QED BY <1>3, <2>1, <2>2, <2>3
<1>5. SysTypeOK'
  BY <1>1, <1>3, <1>4 DEF SysInv, SysTypeOK
<1>6. Remembered'
  BY <1>1 DEF SysInv, Remembered
<1> QED BY <1>1, <1>2, <1>3, <1>5, <1>6, PageStepFrom

(* A click on a toggle flips it; the dialog names the app of that row.     *)
LEMMA ClickToggleInv ==
    ASSUME SysInv, UNCHANGED storeOnly, NEW n \in DOMAIN view, Page!ClickToggle(n)
    PROVE  SysInv'
<1> DEFINE View == [id : Ids, checked : BOOLEAN]
<1>1. /\ view \in Seq(View) /\ DOMAIN view = 1..Len(view)
      /\ n \in 1..Len(view) /\ view[n] \in View
  <2>1. view \in Seq(View)
    BY DEF SysInv, SysTypeOK
  <2>2. DOMAIN view = 1..Len(view)
    BY <2>1
  <2>3. n \in 1..Len(view)
    BY <2>2
  <2> QED BY <2>1, <2>2, <2>3, ElementOfSeq
<1>2. /\ clicks < MaxClicks /\ clicks' = clicks + 1
      /\ gui = [at |-> "idle", app |-> None]
      /\ current' = n
      /\ view' = [view EXCEPT ![n].checked = ~@]
      /\ UNCHANGED <<list, container, info, read, changed, reload, asked,
                     trigger, worker, results, kills>>
  BY DEF Page!ClickToggle, Page!Click, Page!Free, Page!Idle, Page!workerVars
<1>3. /\ view' \in Seq(View) /\ Len(view') = Len(view)
      /\ Page!IdsOf(view') = Page!IdsOf(view)
  <2> DEFINE row(k) == IF k = n THEN [view[n] EXCEPT !.checked = ~@] ELSE view[k]
  <2>1. \A k \in 1..Len(view) : view[k] \in View
    BY <1>1, ElementOfSeq
  <2>2. \A k \in 1..Len(view) : row(k) \in View /\ row(k).id = view[k].id
    BY <2>1
  <2>3. view' = [k \in 1..Len(view) |-> row(k)]
    BY <1>1, <1>2
  <2> HIDE DEF row
  <2>4. view' \in Seq(View) /\ Len(view') = Len(view)
    BY <2>2, <2>3, IsASeq
  <2> QED BY <1>1, <2>2, <2>3, <2>4, SameIds
<1>4. /\ dialog' \in [kind : {"start", "stop"}, app : Ids] /\ busy' \in BOOLEAN
      /\ \/ UNCHANGED gui
         \/ gui' = [at |-> "look", app |-> view[n].id]
  <2>1. busy \in BOOLEAN
    BY DEF SysInv, SysTypeOK
  <2>2. CASE view[n].checked
    <3>1. busy' = TRUE
      BY <2>2 DEF Page!ClickToggle
    <3> QED BY <1>1, <2>2, <3>1 DEF Page!ClickToggle
  <2>3. CASE ~view[n].checked
    BY <1>1, <2>1, <2>3 DEF Page!ClickToggle
  <2> QED BY <2>2, <2>3
<1>5. SysTypeOK'
  <2>1. dialog' \in [kind : {"none", "start", "stop", "remove"}, app : Ids \cup {None}]
    BY <1>4
  <2>2. gui' \in [at : {"idle", "look", "launch", "remove", "crashed"},
                  app : Ids \cup {None}]
    BY <1>1, <1>4 DEF SysInv, SysTypeOK
  <2>3. clicks' \in 0..MaxClicks
    BY <1>2, ClicksAssumption DEF SysInv, SysTypeOK
  <2>4. current' \in 0..Len(view')
    BY <1>1, <1>2, <1>3
  <2> QED BY <1>2, <1>3, <1>4, <2>1, <2>2, <2>3, <2>4 DEF SysInv, SysTypeOK
<1>6. Remembered'
  BY <1>1, <1>2, <1>4 DEF SysInv, Remembered
<1>7. /\ IsInjective(list) /\ IsInjective(read)
      /\ IsInjective(Page!IdsOf(view)) /\ IsInjective(Page!IdsOf(info))
  BY DEF SysInv, CopiesOnce
<1> QED BY <1>2, <1>3, <1>5, <1>6, <1>7, PageStepFrom

(* docker ps decides whether there is anything to launch.                  *)
LEMMA LookAtDockerInv ==
    ASSUME SysInv, UNCHANGED storeOnly, Page!LookAtDocker
    PROVE  SysInv'
<1>1. /\ gui.at = "look"
      /\ \/ gui' = [at |-> "idle", app |-> None]
         \/ gui' = [gui EXCEPT !.at = "launch"]
      /\ UNCHANGED <<list, container, view, info, current, dialog, busy, read,
                     changed, reload, asked, trigger, worker, results, kills, clicks>>
  BY DEF Page!LookAtDocker, Page!Idle, Page!workerVars
<1>2. /\ gui' \in [at : {"idle", "look", "launch", "remove", "crashed"},
                   app : Ids \cup {None}]
      /\ gui'.at \in {"idle", "launch"}
      /\ gui'.at = "launch" => gui'.app \in Ids
  <2>1. /\ gui.app \in Ids
        /\ gui \in [at : {"idle", "look", "launch", "remove", "crashed"},
                   app : Ids \cup {None}]
    BY <1>1 DEF SysInv, SysTypeOK, Remembered
  <2> QED BY <1>1, <2>1
<1>3. SysTypeOK'
  BY <1>1, <1>2 DEF SysInv, SysTypeOK
<1>4. Remembered'
  BY <1>1, <1>2 DEF SysInv, Remembered
<1> QED BY <1>1, <1>3, <1>4, PageStepBeside

(* The app that was clicked is started and handed to the worker.           *)
LEMMA LaunchAppInv ==
    ASSUME SysInv, UNCHANGED storeOnly, Page!LaunchApp
    PROVE  SysInv'
<1>1. /\ gui.app \in Ids /\ trigger' = gui.app
      /\ gui' = [at |-> "idle", app |-> None]
      /\ UNCHANGED <<list, view, info, current, dialog, busy, read, changed, reload,
                     asked, worker, results, kills, clicks>>
  BY DEF Page!LaunchApp, Page!Idle, SysInv, Remembered
<1>2. container' \in [Ids -> Content \cup {Booting, Exited}]
  <2>1. PICK c \in {Booting, None} : container' = [container EXCEPT ![gui.app] = c]
    BY DEF Page!LaunchApp
  <2> QED BY <2>1 DEF SysInv, SysTypeOK, Content
<1>3. SysTypeOK'
  BY <1>1, <1>2 DEF SysInv, SysTypeOK
<1>4. Remembered'
  BY <1>1 DEF SysInv, Remembered
<1> QED BY <1>1, <1>3, <1>4, PageStepBeside

(* Closing a dialog names nobody.                                          *)
LEMMA AcceptStartInv ==
    ASSUME SysInv, UNCHANGED storeOnly, Page!AcceptStart
    PROVE  SysInv'
<1>1. /\ dialog' = [kind |-> "none", app |-> None]
      /\ UNCHANGED <<list, container, view, info, current, busy, gui, read, changed,
                     reload, asked, trigger, worker, results, kills, clicks>>
  BY DEF Page!AcceptStart, Page!NoDialog, Page!workerVars
<1>2. SysTypeOK'
  BY <1>1 DEF SysInv, SysTypeOK
<1>3. Remembered'
  BY <1>1 DEF SysInv, Remembered
<1> QED BY <1>1, <1>2, <1>3, PageStepBeside

(* The answer to the stop dialog closes it; what is killed is an app.      *)
LEMMA AnswerStopInv ==
    ASSUME SysInv, UNCHANGED storeOnly, NEW b \in BOOLEAN, Page!AnswerStop(b)
    PROVE  SysInv'
<1>1. /\ gui = [at |-> "idle", app |-> None]
      /\ dialog' = [kind |-> "none", app |-> None] /\ current' = 0
      /\ UNCHANGED <<list, container, view, busy, gui, read, changed, reload, asked,
                     trigger, worker, results, clicks>>
  BY DEF Page!AnswerStop, Page!NoDialog, Page!Free, Page!Idle, Page!workerVars
<1>2. dialog.app \in Ids
  BY DEF Page!AnswerStop, SysInv, Remembered
<1>3. kills' \in SUBSET Ids
  BY <1>2 DEF Page!AnswerStop, SysInv, SysTypeOK
<1>4. /\ info' \in Seq([id : Ids, subscribed : BOOLEAN])
      /\ Page!IdsOf(info') = Page!IdsOf(info)
  <2>1. info \in Seq([id : Ids, subscribed : BOOLEAN])
    BY DEF SysInv, SysTypeOK
  <2>2. UNCHANGED info \/ info' = Page!Subscribed(dialog.app, FALSE)
    BY DEF Page!AnswerStop
  <2> QED BY <2>1, <2>2, SubscribedRows
<1>5. SysTypeOK'
  <2>1. current' \in 0..Len(view')
    BY <1>1 DEF SysInv, SysTypeOK
  <2> QED BY <1>1, <1>3, <1>4, <2>1 DEF SysInv, SysTypeOK
<1>6. Remembered'
  BY <1>1 DEF SysInv, Remembered
<1>7. /\ IsInjective(list) /\ IsInjective(read)
      /\ IsInjective(Page!IdsOf(view)) /\ IsInjective(Page!IdsOf(info))
  BY DEF SysInv, CopiesOnce
<1> QED BY <1>1, <1>4, <1>5, <1>6, <1>7, PageStepFrom

(* The removal dialog names the app of the row that was clicked.           *)
LEMMA ClickRemoveInv ==
    ASSUME SysInv, UNCHANGED storeOnly, NEW n \in DOMAIN view, Page!ClickRemove(n)
    PROVE  SysInv'
<1>1. /\ view \in Seq([id : Ids, checked : BOOLEAN])
      /\ n \in 1..Len(view) /\ view[n].id \in Ids
  <2>1. view \in Seq([id : Ids, checked : BOOLEAN])
    BY DEF SysInv, SysTypeOK
  <2>2. DOMAIN view = 1..Len(view)
    BY <2>1
  <2>3. n \in 1..Len(view)
    BY <2>2
  <2>4. view[n] \in [id : Ids, checked : BOOLEAN]
    BY <2>1, <2>3, ElementOfSeq
  <2> QED BY <2>1, <2>3, <2>4
<1>2. /\ clicks < MaxClicks /\ clicks' = clicks + 1
      /\ gui = [at |-> "idle", app |-> None]
      /\ current' = n /\ dialog' = [kind |-> "remove", app |-> view[n].id]
      /\ UNCHANGED <<list, container, view, info, busy, gui, read, changed, reload,
                     asked, trigger, worker, results, kills>>
  BY DEF Page!ClickRemove, Page!Click, Page!Free, Page!Idle, Page!workerVars
<1>3. SysTypeOK'
  <2>1. clicks' \in 0..MaxClicks /\ current' \in 0..Len(view')
    BY <1>1, <1>2, ClicksAssumption DEF SysInv, SysTypeOK
  <2> QED BY <1>1, <1>2, <2>1 DEF SysInv, SysTypeOK
<1>4. Remembered'
  BY <1>1, <1>2 DEF SysInv, Remembered
<1> QED BY <1>2, <1>3, <1>4, PageStepBeside

(* A removal that is rejected closes the dialog.                           *)
LEMMA RejectRemoveInv ==
    ASSUME SysInv, UNCHANGED storeOnly, Page!RejectRemove
    PROVE  SysInv'
<1>1. /\ gui = [at |-> "idle", app |-> None]
      /\ dialog' = [kind |-> "none", app |-> None] /\ current' = 0
      /\ UNCHANGED <<list, container, view, info, busy, gui, read, changed, reload,
                     asked, trigger, worker, results, kills, clicks>>
  BY DEF Page!RejectRemove, Page!NoDialog, Page!Free, Page!Idle, Page!workerVars
<1>2. SysTypeOK'
  <2>1. current' \in 0..Len(view')
    BY <1>1 DEF SysInv, SysTypeOK
  <2> QED BY <1>1, <2>1 DEF SysInv, SysTypeOK
<1>3. Remembered'
  BY <1>1 DEF SysInv, Remembered
<1> QED BY <1>1, <1>2, <1>3, PageStepBeside

(* What is read for a removal is the list; the app is one of the page.     *)
LEMMA AcceptRemoveInv ==
    ASSUME SysInv, UNCHANGED storeOnly, Page!AcceptRemove
    PROVE  SysInv'
<1> DEFINE Info == [id : Ids, subscribed : BOOLEAN]
           Gui == [at : {"idle", "look", "launch", "remove", "crashed"},
                   app : Ids \cup {None}]
<1>1. /\ gui = [at |-> "idle", app |-> None]
      /\ dialog' = [kind |-> "none", app |-> None]
      /\ asked' = asked \cup {dialog.app} /\ dialog.app \in Ids
      /\ UNCHANGED <<list, container, view, busy, changed, reload,
                     trigger, worker, results, clicks>>
  BY DEF Page!AcceptRemove, Page!NoDialog, Page!Free, Page!Idle, Page!workerVars,
         SysInv, Remembered
<1>2. /\ info \in Seq(Info) /\ read \in Seq(Ids) /\ gui \in Gui
      /\ kills \in SUBSET Ids /\ current \in 0..Len(view) /\ list \in Seq(Ids)
  BY DEF SysInv, SysTypeOK
<1>3. /\ IsInjective(list) /\ IsInjective(read)
      /\ IsInjective(Page!IdsOf(view)) /\ IsInjective(Page!IdsOf(info))
  BY DEF SysInv, CopiesOnce
<1>4. current \in DOMAIN info => info[current] \in Info
  <2>1. DOMAIN info = 1..Len(info)
    BY <1>2
  <2> HIDE DEF Info
  <2> QED BY <1>2, <2>1, ElementOfSeq
<1>5. /\ info' \in Seq(Info) /\ DOMAIN info' = DOMAIN info
      /\ Page!IdsOf(info') = Page!IdsOf(info)
      /\ kills' \in SUBSET Ids
  <2>1. CASE UNCHANGED <<kills, info>>
    BY <1>2, <2>1
  <2>2. CASE /\ current \in DOMAIN info
             /\ kills' = kills \cup {info[current].id}
             /\ info' = Page!Subscribed(info[current].id, FALSE)
    <3>1. info[current] \in Info
      BY <1>4, <2>2
    <3>2. kills' \in SUBSET Ids
      BY <1>2, <2>2, <3>1
    <3> QED BY <1>2, <2>2, <3>2, SubscribedRows
  <2> QED BY <2>1, <2>2 DEF Page!AcceptRemove
<1>6. \/ /\ current \in DOMAIN info
         /\ gui' = [at |-> "remove", app |-> info[current].id]
         /\ read' = list /\ UNCHANGED current
      \/ current' = 0 /\ UNCHANGED <<gui, read>>
      \/ gui' = [at |-> "crashed", app |-> None] /\ UNCHANGED <<read, current>>
  BY DEF Page!AcceptRemove
<1>7. gui' \in Gui /\ read' \in Seq(Ids) /\ IsInjective(read')
      /\ current' \in 0..Len(view')
  BY <1>1, <1>2, <1>3, <1>4, <1>6
<1>8. SysTypeOK'
  <2>1. asked' \in SUBSET Ids
    BY <1>1 DEF SysInv, SysTypeOK
  <2> QED BY <1>1, <1>5, <1>7, <2>1 DEF SysInv, SysTypeOK
<1>9. Remembered'
  BY <1>1, <1>5, <1>6 DEF SysInv, Remembered
<1> QED BY <1>1, <1>3, <1>5, <1>7, <1>8, <1>9, PageStepFrom

(* The list that was read, without one entry, goes back into the file.     *)
LEMMA WriteRemovalInv ==
    ASSUME SysInv, UNCHANGED storeOnly, Page!WriteRemoval
    PROVE  SysInv'
<1> DEFINE Info == [id : Ids, subscribed : BOOLEAN]
<1>1. /\ list' = IF current \in DOMAIN read THEN Page!RemoveAt(read, current) ELSE read
      /\ info' = Page!RemoveAt(info, current)
      /\ current' = 0 /\ read' = <<>> /\ changed' = TRUE
      /\ gui' = [at |-> "idle", app |-> None]
      /\ UNCHANGED <<container, view, dialog, busy, reload, asked, trigger, worker,
                     results, kills, clicks>>
  BY DEF Page!WriteRemoval, Page!Idle, Page!workerVars
<1>2. /\ info \in Seq(Info) /\ read \in Seq(Ids) /\ current \in DOMAIN info
      /\ IsInjective(read)
      /\ IsInjective(Page!IdsOf(view)) /\ IsInjective(Page!IdsOf(info))
  BY DEF Page!WriteRemoval, SysInv, SysTypeOK, CopiesOnce, Remembered
<1>3. list' \in Seq(Ids) /\ IsInjective(list')
  <2>1. CASE current \in DOMAIN read
    <3>1. current \in 1..Len(read)
      BY <1>2, <2>1
    <3>2. Page!RemoveAt(read, current) = RemoveAt(read, current)
      BY DEF Page!RemoveAt, RemoveAt
    <3> QED BY <1>1, <1>2, <2>1, <3>1, <3>2, RemoveAtSeq
  <2>2. CASE current \notin DOMAIN read
    BY <1>1, <1>2, <2>2
  <2> QED BY <2>1, <2>2
<1>4. info' \in Seq(Info) /\ IsInjective(Page!IdsOf(info'))
  <2>1. current \in 1..Len(info) /\ \A x \in Info : x.id \in Ids
    BY <1>2
  <2> HIDE DEF Info
  <2> QED BY <1>1, <1>2, <2>1, RowRemoved
<1>5. read' \in Seq(Ids) /\ IsInjective(read')
  BY <1>1, EmptyRows
<1>6. SysTypeOK'
  <2>1. current' \in 0..Len(view')
    BY <1>1 DEF SysInv, SysTypeOK
  <2> QED BY <1>1, <1>3, <1>4, <1>5, <2>1 DEF SysInv, SysTypeOK
<1>7. Remembered'
  BY <1>1 DEF SysInv, Remembered
<1> QED BY <1>1, <1>2, <1>3, <1>4, <1>5, <1>6, <1>7, PageStepFrom

(* docker kill stops one container.                                        *)
LEMMA KilledInv ==
    ASSUME SysInv, UNCHANGED storeOnly, NEW i \in Ids, Page!Killed(i)
    PROVE  SysInv'
<1>1. /\ kills' = kills \ {i}
      /\ UNCHANGED <<list, view, info, current, dialog, busy, gui, read, changed,
                     reload, asked, trigger, worker, results, clicks>>
  BY DEF Page!Killed, Page!guiVars, Page!workerVars
<1>2. container' \in [Ids -> Content \cup {Booting, Exited}]
  <2>1. UNCHANGED container \/ container' = [container EXCEPT ![i] = Exited]
    BY DEF Page!Killed
  <2> QED BY <2>1 DEF SysInv, SysTypeOK
<1>3. SysTypeOK'
  BY <1>1, <1>2 DEF SysInv, SysTypeOK
<1>4. Remembered'
  BY <1>1 DEF SysInv, Remembered
<1> QED BY <1>1, <1>3, <1>4, PageStepBeside

(* The worker wakes only for an app.                                       *)
LEMMA WorkerWakesInv ==
    ASSUME SysInv, UNCHANGED storeOnly, Page!WorkerWakes
    PROVE  SysInv'
<1>1. /\ trigger # None /\ worker' = "sleeping"
      /\ UNCHANGED <<list, container, view, info, current, dialog, busy, gui, read,
                     changed, reload, asked, trigger, results, kills, clicks>>
  BY DEF Page!WorkerWakes, Page!guiVars
<1>2. SysTypeOK'
  BY <1>1 DEF SysInv, SysTypeOK
<1>3. Remembered'
  BY <1>1 DEF SysInv, SysTypeOK, Remembered
<1> QED BY <1>1, <1>2, <1>3, PageStepBeside

(* What it reports is the app that it is asked about by then.              *)
LEMMA WorkerChecksInv ==
    ASSUME SysInv, UNCHANGED storeOnly, Page!WorkerChecks
    PROVE  SysInv'
<1> DEFINE Result == [id : Ids, started : BOOLEAN]
           now == [id |-> trigger, started |-> trigger \in Page!DockerPs]
<1>1. /\ worker = "sleeping" /\ worker' = "clearing"
      /\ results' = Append(results, now)
      /\ UNCHANGED <<list, container, view, info, current, dialog, busy, gui, read,
                     changed, reload, asked, trigger, kills, clicks>>
  BY DEF Page!WorkerChecks, Page!guiVars
<1>2. now \in Result /\ results \in Seq(Result)
  BY <1>1 DEF SysInv, SysTypeOK, Remembered
<1>3. results' \in Seq(Result)
  <2> HIDE DEF now, Result
  <2> QED BY <1>1, <1>2
<1>4. SysTypeOK'
  BY <1>1, <1>3 DEF SysInv, SysTypeOK
<1>5. Remembered'
  BY <1>1 DEF SysInv, Remembered
<1> QED BY <1>1, <1>4, <1>5, PageStepBeside

(* The trigger is cleared whatever it holds by then.                       *)
LEMMA WorkerClearsInv ==
    ASSUME SysInv, UNCHANGED storeOnly, Page!WorkerClears
    PROVE  SysInv'
<1>1. /\ trigger' = None /\ worker' = "waiting"
      /\ UNCHANGED <<list, container, view, info, current, dialog, busy, gui, read,
                     changed, reload, asked, results, kills, clicks>>
  BY DEF Page!WorkerClears, Page!guiVars
<1>2. SysTypeOK'
  BY <1>1 DEF SysInv, SysTypeOK
<1>3. Remembered'
  BY <1>1 DEF SysInv, Remembered
<1> QED BY <1>1, <1>2, <1>3, PageStepBeside

(* A result marks an app of the page or none.                              *)
LEMMA HandleResultInv ==
    ASSUME SysInv, UNCHANGED storeOnly, Page!HandleResult
    PROVE  SysInv'
<1> DEFINE Info == [id : Ids, subscribed : BOOLEAN]
           Result == [id : Ids, started : BOOLEAN]
<1>1. /\ gui = [at |-> "idle", app |-> None]
      /\ results # <<>> /\ results' = Tail(results)
      /\ UNCHANGED <<list, container, view, dialog, gui, read, changed, reload,
                     asked, trigger, worker, kills, clicks>>
  BY DEF Page!HandleResult, Page!Free, Page!Idle
<1>2. \/ current' = 0 /\ busy' = FALSE
      \/ UNCHANGED <<current, busy>>
  BY DEF Page!HandleResult
<1>3. /\ info \in Seq(Info) /\ results \in Seq(Result)
      /\ current \in 0..Len(view) /\ busy \in BOOLEAN
  BY DEF SysInv, SysTypeOK
<1>4. results' \in Seq(Result)
  <2> HIDE DEF Result
  <2> QED BY <1>1, <1>3, HeadTailProperties
<1>5. /\ info' \in Seq(Info)
      /\ Page!IdsOf(info') = Page!IdsOf(info)
  <2>1. UNCHANGED info \/ info' = Page!Subscribed(Head(results).id, TRUE)
    BY DEF Page!HandleResult
  <2> QED BY <1>3, <2>1, SubscribedRows
<1>6. /\ IsInjective(list) /\ IsInjective(read)
      /\ IsInjective(Page!IdsOf(view)) /\ IsInjective(Page!IdsOf(info))
  BY DEF SysInv, CopiesOnce
<1>7. SysTypeOK'
  <2>1. busy' \in BOOLEAN
    BY <1>2, <1>3
  <2>2. current' \in 0..Len(view')
    BY <1>1, <1>2, <1>3
  <2> QED BY <1>1, <1>4, <1>5, <2>1, <2>2 DEF SysInv, SysTypeOK
<1>8. Remembered'
  BY <1>1 DEF SysInv, Remembered
<1> QED BY <1>1, <1>5, <1>6, <1>7, <1>8, PageStepFrom
-----------------------------------------------------------------------------
(* A step of nobody.                                                       *)
LEMMA SysStutterInv ==
    ASSUME SysInv, UNCHANGED sysVars
    PROVE  SysInv'
<1>1. UNCHANGED <<storeOnly, list, container, view, info, current, dialog, busy, gui,
                  read, changed, reload, trigger, worker, results, kills, asked,
                  clicks>>
  BY DEF sysVars, vars, storeOnly, pageUnwatched
<1>2. SysTypeOK'
  BY <1>1 DEF SysInv, SysTypeOK
<1>3. Remembered'
  BY <1>1 DEF SysInv, Remembered
<1> QED BY <1>1, <1>2, <1>3, PageStepBeside

(* Every step of the page keeps the invariant.                             *)
LEMMA PageStepInv ==
    ASSUME SysInv, PageStep
    PROVE  SysInv'
<1>1. UNCHANGED storeOnly
  BY DEF PageStep
<1>2. CASE Page!User
  BY <1>1, <1>2, ClickToggleInv, ClickRemoveInv, AcceptStartInv, RejectRemoveInv,
     AcceptRemoveInv, AnswerStopInv DEF Page!User
<1>3. CASE Page!GuiStep
  BY <1>1, <1>3, FileChangedInv, ReloadInv, LookAtDockerInv, LaunchAppInv,
     WriteRemovalInv, HandleResultInv DEF Page!GuiStep
<1>4. CASE Page!WorkerStep
  BY <1>1, <1>4, WorkerWakesInv, WorkerChecksInv, WorkerClearsInv DEF Page!WorkerStep
<1>5. CASE \E i \in Ids : Page!Killed(i)
  BY <1>1, <1>5, KilledInv
<1> QED BY <1>2, <1>3, <1>4, <1>5 DEF PageStep, Page!Next

(* dk-manager and the page, in any interleaving, with any failures of the  *)
(* files, restarts of dk-manager and clicks, keep the invariant.           *)
THEOREM SysInvariance == SysSpec => []SysInv
<1>1. SysInv /\ [SysNext]_sysVars => SysInv'
  BY StoreStepInv, PageStepInv, SysStutterInv DEF SysNext
<1> QED BY SysInitInv, <1>1, PTL DEF SysSpec

(* Every variable of the two programs keeps its type.                      *)
THEOREM SysTypeCorrect == SysSpec => []SysTypeOK
<1>1. SysInv => SysTypeOK
  BY DEF SysInv
<1> QED BY SysInvariance, <1>1, PTL

(* The page writes prototypes.json without dk-manager's lock and from an   *)
(* index of its own, and still no prototype is ever listed twice, neither  *)
(* in the file nor on the page.                                            *)
THEOREM NothingListedTwice == SysSpec => []ListedOnce
<1>1. SysInv => ListedOnce
  BY DEF SysInv, CopiesOnce, ListedOnce
<1> QED BY SysInvariance, <1>1, PTL
=============================================================================
