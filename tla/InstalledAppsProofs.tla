------------------------ MODULE InstalledAppsProofs ------------------------
(***************************************************************************)
(* Theorems about the pages of installed services and apps: nothing is     *)
(* listed twice, a container runs the image of the app it is named after,  *)
(* and the mutex is kept only by an empty page.  All of them follow from   *)
(* one invariant, IInv.  What makes it inductive is how the copies of the  *)
(* list hang together: the view and the list in memory name the same apps  *)
(* row by row, and whoever is about to write the file holds a list without *)
(* repetitions, too.                                                       *)
(***************************************************************************)
EXTENDS InstalledApps, ListLemmas
-----------------------------------------------------------------------------
(* A list without the first entry that has a given value, if there is one  *)
(* (removeObjectById).                                                     *)
LEMMA RemoveFirstKeepsList ==
    ASSUME NEW S, NEW s \in Seq(S), NEW e
    PROVE  /\ RemoveFirst(s, e) \in Seq(S)
           /\ IsInjective(s) => IsInjective(RemoveFirst(s, e))
<1>1. CASE \E i \in 1..Len(s) : s[i] = e
  <2> DEFINE I == {i \in 1..Len(s) : s[i] = e}
  <2>1. I \in SUBSET Nat /\ I # {}
    BY <1>1
  <2>2. Min(I) \in I
    BY <2>1, MinIn
  <2>3. RemoveFirst(s, e) = RemoveAt(s, Min(I))
    BY <1>1, <2>1 DEF RemoveFirst, SelectInSeq
  <2>4. Min(I) \in 1..Len(s)
    BY <2>2
  <2> HIDE DEF I
  <2> QED BY <2>3, <2>4, RemoveAtSeq
<1>2. CASE ~ \E i \in 1..Len(s) : s[i] = e
  BY <1>2 DEF RemoveFirst
<1> QED BY <1>1, <1>2

(* Adding an app that is not listed yet lists nothing twice                *)
(* (add_or_update_app).                                                    *)
LEMMA WithAppKeepsList ==
    ASSUME NEW list \in Seq(Ids), NEW i \in Ids
    PROVE  /\ WithApp(list, i) \in Seq(Ids)
           /\ IsInjective(list) => IsInjective(WithApp(list, i))
  BY DEF WithApp, IsInjective, Range

(* The rows made for a list name the apps of the list, in its order.       *)
LEMMA RowsIds ==
    ASSUME NEW ids \in Seq(Ids)
    PROVE  /\ Rows(ids) \in Seq([id : Ids, checked : BOOLEAN])
           /\ IdsOf(Rows(ids)) = ids
<1>1. Rows(ids) = [n \in 1 .. Len(ids) |-> [id |-> ids[n], checked |-> FALSE]]
  BY DEF Rows
<1>2. \A n \in 1 .. Len(ids) :
         [id |-> ids[n], checked |-> FALSE] \in [id : Ids, checked : BOOLEAN]
  OBVIOUS
<1>3. Rows(ids) \in Seq([id : Ids, checked : BOOLEAN])
  BY <1>1, <1>2, IsASeq
<1>4. IdsOf(Rows(ids)) = [n \in 1 .. Len(ids) |-> ids[n]]
  BY <1>1 DEF IdsOf
<1> QED BY <1>3, <1>4
-----------------------------------------------------------------------------
(* The view and the list in memory, filled one row at a time by the same   *)
(* loop, name the same apps in the same order, each once.                  *)
RowsAgree == IdsOf(view) = info /\ IsInjective(info)

(* No copy of the list file names an app twice: the file itself, what the  *)
(* GUI thread has read and what the installer outside is about to write.   *)
CopiesOnce ==
    /\ file # Broken => IsInjective(file)
    /\ IsInjective(read) /\ IsInjective(outside.read)

(* The rows are appended to an empty page, under the mutex.                *)
FillsEmptyPage == gui.at = "fill" => held /\ view = <<>> /\ info = <<>>

(* From the click on a toggle to docker run, the row is the app's.         *)
RowStaysValid ==
    gui.at \in {"look", "launch"} =>
        /\ gui.app \in Ids
        /\ gui.row \in DOMAIN info /\ info[gui.row] = gui.app

(* Whoever needs an app has one: an open dialog, the GUI thread that stops *)
(* what was removed, the worker that checks what was started.              *)
HasAnApp ==
    /\ dialog.kind # "none" => dialog.app \in Ids
    /\ gui.at \in {"truncate", "write", "stop"} => gui.app \in Ids
    /\ worker # "waiting" => trigger \in Ids

IInv ==
    /\ TypeOK
    /\ RowsAgree
    /\ CopiesOnce
    /\ FillsEmptyPage
    /\ RowStaysValid
    /\ HasAnApp
    /\ RunsItsOwnImage
    /\ KeptOnlyWhenEmpty
-----------------------------------------------------------------------------
(* What the GUI thread is in the middle of, and a row of the page.         *)
GuiState ==
    [at : {"idle", "load", "fill", "look", "launch", "truncate", "write", "stop",
           "openInstall", "saveInstall", "hung", "crashed"},
     app : Ids \cup {None}, row : Nat]

Row == [id : Ids, checked : BOOLEAN]

(* The empty list is a list of anything, and lists nothing twice.          *)
LEMMA EmptyList ==
    /\ \A S : <<>> \in Seq(S)
    /\ IsInjective(<<>>)
    /\ IdsOf(<<>>) = <<>>
  BY EmptySeq DEF IsInjective, IdsOf

(* Rows that differ at most in their switch name the same apps.            *)
LEMMA SameApps ==
    ASSUME NEW rows \in Seq(Row), NEW new,
           new = [n \in DOMAIN rows |-> new[n]],
           \A n \in DOMAIN rows : new[n] \in Row /\ new[n].id = rows[n].id
    PROVE  new \in Seq(Row) /\ IdsOf(new) = IdsOf(rows)
<1>1. DOMAIN rows = 1 .. Len(rows) /\ Len(rows) \in Nat
  OBVIOUS
<1>2. new = [n \in 1 .. Len(rows) |-> new[n]]
  BY <1>1
<1>3. new \in Seq(Row)
  BY <1>1, <1>2, IsASeq
<1>4. IdsOf(new) = IdsOf(rows)
  BY DEF IdsOf
<1> QED BY <1>3, <1>4

(* Setting one switch keeps the apps of the rows.                          *)
LEMMA CheckedKeepsApps ==
    ASSUME NEW rows \in Seq(Row), NEW n \in DOMAIN rows, NEW on \in BOOLEAN
    PROVE  /\ [rows EXCEPT ![n].checked = on] \in Seq(Row)
           /\ IdsOf([rows EXCEPT ![n].checked = on]) = IdsOf(rows)
<1> DEFINE new == [rows EXCEPT ![n].checked = on]
<1>1. new = [m \in DOMAIN rows |-> new[m]]
  OBVIOUS
<1>2. ASSUME NEW m \in DOMAIN rows
      PROVE  new[m] \in Row /\ new[m].id = rows[m].id
  <2>1. rows[m] \in Row
    BY ElementOfSeq
  <2>2. new[m] = IF m = n THEN [rows[m] EXCEPT !.checked = on] ELSE rows[m]
    OBVIOUS
  <2> QED BY <2>1, <2>2 DEF Row
<1> QED BY <1>1, <1>2, SameApps

(* A row of the page is a row of the list in memory, for the same app.     *)
LEMMA RowIsThere ==
    ASSUME IInv, NEW n \in DOMAIN view
    PROVE  /\ view[n].id \in Ids /\ view[n].checked \in BOOLEAN
           /\ n \in DOMAIN info /\ info[n] = view[n].id /\ n \in Nat
<1>1. view \in Seq([id : Ids, checked : BOOLEAN]) /\ IdsOf(view) = info
  BY DEF IInv, TypeOK, RowsAgree
<1>2. view[n] \in [id : Ids, checked : BOOLEAN] /\ n \in Nat
  <2>1. DOMAIN view = 1 .. Len(view) /\ Len(view) \in Nat
    BY <1>1
  <2>2. n \in 1 .. Len(view)
    BY <2>1
  <2>3. view[n] \in [id : Ids, checked : BOOLEAN]
    BY <1>1, <2>2, ElementOfSeq
  <2> QED BY <2>2, <2>3
<1> QED BY <1>1, <1>2 DEF IdsOf

(* One signal for each app of a list.                                      *)
LEMMA RowSignals ==
    ASSUME NEW seen \in Seq(Ids)
    PROVE  [n \in DOMAIN seen |-> [id |-> seen[n], on |-> seen[n] \in scan, row |-> n]]
              \in Seq([id : Ids, on : BOOLEAN, row : Nat])
<1>1. DOMAIN seen = 1 .. Len(seen) /\ Len(seen) \in Nat
  OBVIOUS
<1>2. \A n \in 1 .. Len(seen) : [id |-> seen[n], on |-> seen[n] \in scan, row |-> n]
                                  \in [id : Ids, on : BOOLEAN, row : Nat]
  BY ElementOfSeq
<1> QED BY <1>1, <1>2, IsASeq

(* A step that neither touches the mutex nor adds a row keeps the mutex    *)
(* only on an empty page.                                                  *)
LEMMA MutexFrame ==
    ASSUME IInv, UNCHANGED <<held, info>>, view = <<>> => view' = <<>>
    PROVE  KeptOnlyWhenEmpty'
<1>1. held => view = <<>> /\ info = <<>>
  <2>1. CASE gui.at = "fill"
    BY <2>1 DEF IInv, FillsEmptyPage
  <2>2. CASE gui.at # "fill"
    BY <2>2 DEF IInv, TypeOK, KeptOnlyWhenEmpty
  <2> QED BY <2>1, <2>2
<1> QED BY <1>1 DEF KeptOnlyWhenEmpty
-----------------------------------------------------------------------------
(* Only what the GUI thread is in the middle of changes.                   *)
LEMMA FileChangedStep ==
    ASSUME IInv, FileChanged
    PROVE  IInv'
<1>1. TypeOK'
  <2>1. gui' \in GuiState
    BY DEF FileChanged, At, GuiState
  <2>2. changed' \in BOOLEAN
    <3>1. changed' = FALSE
      BY DEF FileChanged
    <3> QED BY <3>1
  <2>3. UNCHANGED <<page, file, running, view, info, current, dialog, read, held,
                    threadVars, kills, outside, boundVars>>
    BY DEF FileChanged
  <2> QED BY <2>1, <2>2, <2>3 DEF IInv, TypeOK, GuiState, threadVars, boundVars
<1>2. FillsEmptyPage'
  BY DEF IInv, FillsEmptyPage, FileChanged, threadVars, boundVars, At, Free, Idle
<1>3. RowStaysValid'
  BY DEF IInv, RowStaysValid, FileChanged, threadVars, boundVars, At, Free, Idle
<1>4. HasAnApp'
  BY DEF IInv, HasAnApp, FileChanged, threadVars, boundVars, At, Free, Idle, TypeOK
<1>5. KeptOnlyWhenEmpty'
  BY MutexFrame DEF FileChanged
<1>6. RowsAgree' /\ CopiesOnce' /\ RunsItsOwnImage'
  BY DEF IInv, RowsAgree, CopiesOnce, RunsItsOwnImage, FileChanged,
         threadVars, boundVars, IdsOf
<1> QED BY <1>1, <1>2, <1>3, <1>4, <1>5, <1>6 DEF IInv

(* Load hangs, or empties the page and keeps the mutex; it has read a file *)
(* in which no app is listed twice.                                        *)
LEMMA LoadStep ==
    ASSUME IInv, Load
    PROVE  IInv'
<1>1. TypeOK'
  <2>1. CASE held
    BY <2>1 DEF IInv, TypeOK, Load, At, threadVars, boundVars
  <2>2. CASE ~held
    <3>1. view' \in Seq([id : Ids, checked : BOOLEAN]) /\ info' \in Seq(Ids)
      BY <2>2, EmptyList DEF Load
    <3>2. read' \in Seq(Ids)
      BY <2>2 DEF IInv, TypeOK, Load
    <3> QED BY <2>2, <3>1, <3>2
        DEF IInv, TypeOK, Load, Idle, At, threadVars, boundVars
  <2> QED BY <2>1, <2>2
<1>2. RowsAgree'
  <2>1. CASE held
    BY <2>1 DEF IInv, RowsAgree, Load, IdsOf
  <2>2. CASE ~held
    BY <2>2, EmptyList DEF RowsAgree, Load, IdsOf
  <2> QED BY <2>1, <2>2
<1>3. CopiesOnce'
  BY DEF IInv, CopiesOnce, Load, threadVars, boundVars, Idle, At
<1>4. FillsEmptyPage'
  BY DEF IInv, FillsEmptyPage, Load, threadVars, boundVars, Idle, At
<1>5. RowStaysValid'
  BY DEF IInv, RowStaysValid, Load, threadVars, boundVars, Idle, At
<1>6. HasAnApp'
  BY DEF IInv, HasAnApp, Load, threadVars, boundVars, Idle, At, TypeOK
<1>7. KeptOnlyWhenEmpty'
  <2>1. CASE held
    BY <2>1 DEF IInv, TypeOK, KeptOnlyWhenEmpty, Load, At
  <2>2. CASE ~held
    BY <2>2 DEF KeptOnlyWhenEmpty, Load
  <2> QED BY <2>1, <2>2
<1>8. RunsItsOwnImage'
  BY DEF IInv, RunsItsOwnImage, Load, threadVars, boundVars
<1> QED BY <1>1, <1>2, <1>3, <1>4, <1>5, <1>6, <1>7, <1>8 DEF IInv

(* The rows of an empty page are those of the list that was read.          *)
LEMMA FillStep ==
    ASSUME IInv, Fill
    PROVE  IInv'
<1>1. read \in Seq(Ids) /\ IsInjective(read) /\ view = <<>> /\ info = <<>>
  BY DEF IInv, TypeOK, CopiesOnce, FillsEmptyPage, Fill
<1>2. info' = read /\ view' = Rows(read)
  <2>1. Rows(read) \in Seq([id : Ids, checked : BOOLEAN])
    BY <1>1, RowsIds
  <2> QED BY <1>1, <2>1, ConcatEmptySeq DEF Fill
<1>3. TypeOK'
  <2>1. view' \in Seq([id : Ids, checked : BOOLEAN]) /\ info' \in Seq(Ids)
    BY <1>1, <1>2, RowsIds
  <2>2. read' \in Seq(Ids)
    BY EmptyList DEF Fill
  <2>3. current' \in Nat
    <3>1. current' \in {0, 1}
      BY DEF Fill
    <3> QED BY <3>1
  <2>4. held' \in BOOLEAN
    <3>1. held' = FALSE
      BY DEF Fill
    <3> QED BY <3>1
  <2>5. UNCHANGED <<page, file, running, dialog, changed, threadVars, kills, outside,
                    boundVars>>
    BY DEF Fill
  <2>6. gui' \in GuiState
    BY DEF Fill, Idle, At, GuiState
  <2> QED BY <2>1, <2>2, <2>3, <2>4, <2>5, <2>6
        DEF IInv, TypeOK, GuiState, threadVars, boundVars
<1>4. RowsAgree'
  <2>1. IdsOf(view') = info'
    BY <1>1, <1>2, RowsIds
  <2> QED BY <1>1, <1>2, <2>1 DEF RowsAgree, IdsOf
<1>5. CopiesOnce'
  BY EmptyList DEF IInv, CopiesOnce, Fill
<1>6. FillsEmptyPage'
  BY DEF IInv, FillsEmptyPage, Fill, threadVars, boundVars, Idle, At
<1>7. RowStaysValid'
  BY DEF IInv, RowStaysValid, Fill, threadVars, boundVars, Idle, At
<1>8. HasAnApp'
  BY DEF IInv, HasAnApp, Fill, threadVars, boundVars, Idle, At, TypeOK
<1>9. KeptOnlyWhenEmpty'
  BY DEF KeptOnlyWhenEmpty, Fill
<1>10. RunsItsOwnImage'
  BY DEF IInv, RunsItsOwnImage, Fill, threadVars, boundVars
<1> QED BY <1>3, <1>4, <1>5, <1>6, <1>7, <1>8, <1>9, <1>10 DEF IInv

(* The row clicked is there and is the row of that app in both lists; only *)
(* the switch of that row changes.                                         *)
LEMMA ClickToggleStep ==
    ASSUME IInv, NEW n \in DOMAIN view, ClickToggle(n)
    PROVE  IInv'
<1>1. /\ view[n].id \in Ids /\ view[n].checked \in BOOLEAN
      /\ n \in DOMAIN info /\ info[n] = view[n].id /\ n \in Nat
  BY RowIsThere
<1>2. /\ view' \in Seq([id : Ids, checked : BOOLEAN])
      /\ IdsOf(view') = IdsOf(view)
  <2>1. view \in Seq(Row) /\ (~ view[n].checked) \in BOOLEAN
    BY <1>1 DEF IInv, TypeOK, Row
  <2>2. view' = [view EXCEPT ![n].checked = ~ view[n].checked]
    BY DEF ClickToggle
  <2> QED BY <2>1, <2>2, CheckedKeepsApps DEF Row
<1>3. \/ gui' = gui
      \/ \E stage \in {"look", "launch"} : gui' = At(stage, view[n].id, n)
  BY DEF ClickToggle
<1>4. gui.at = "idle"
  BY DEF ClickToggle, Click, Free, Idle, At
<1>5. TypeOK'
  <2>1. dialog' \in [kind : {"none", "start", "stop", "remove"}, app : Ids \cup {None}]
    BY <1>1 DEF ClickToggle
  <2>2. clicks' \in 0 .. MaxClicks
    BY BoundsAssumption DEF IInv, TypeOK, ClickToggle, Click
  <2> QED BY <1>1, <1>2, <1>3, <2>1, <2>2
        DEF IInv, TypeOK, ClickToggle, At, threadVars
<1>6. RowsAgree'
  BY <1>2 DEF IInv, RowsAgree, ClickToggle, IdsOf
<1>7. FillsEmptyPage'
  BY <1>3, <1>4 DEF FillsEmptyPage, At
<1>8. RowStaysValid'
  BY <1>1, <1>3, <1>4 DEF RowStaysValid, ClickToggle, At
<1>9. HasAnApp'
  <2>1. dialog'.app \in Ids
    BY <1>1 DEF ClickToggle
  <2> QED BY <1>3, <1>4, <2>1 DEF IInv, HasAnApp, ClickToggle, threadVars, At
<1>10. KeptOnlyWhenEmpty'
  BY MutexFrame DEF ClickToggle
<1>11. CopiesOnce' /\ RunsItsOwnImage'
  BY DEF IInv, CopiesOnce, RunsItsOwnImage, ClickToggle, threadVars
<1> QED BY <1>5, <1>6, <1>7, <1>8, <1>9, <1>10, <1>11 DEF IInv

(* docker ps changes nothing but the step that is next.                    *)
LEMMA LookAtDockerStep ==
    ASSUME IInv, LookAtDocker
    PROVE  IInv'
<1>1. TypeOK'
  <2>1. gui' \in GuiState
    BY DEF IInv, TypeOK, LookAtDocker, Idle, At, GuiState
  <2> QED BY <2>1 DEF IInv, TypeOK, LookAtDocker, GuiState, threadVars, boundVars
<1>2. FillsEmptyPage'
  BY DEF IInv, FillsEmptyPage, LookAtDocker, threadVars, boundVars, Idle, At
<1>3. RowStaysValid'
  BY DEF IInv, RowStaysValid, LookAtDocker, threadVars, boundVars, Idle, At
<1>4. HasAnApp'
  BY DEF IInv, HasAnApp, LookAtDocker, threadVars, boundVars, Idle, At, TypeOK
<1>5. KeptOnlyWhenEmpty'
  BY MutexFrame DEF LookAtDocker
<1>6. RowsAgree' /\ CopiesOnce' /\ RunsItsOwnImage'
  BY DEF IInv, RowsAgree, CopiesOnce, RunsItsOwnImage, LookAtDocker,
         threadVars, boundVars, IdsOf
<1> QED BY <1>1, <1>2, <1>3, <1>4, <1>5, <1>6 DEF IInv

(* The row is there, so the image that is started is the one of the app    *)
(* that was clicked.                                                       *)
LEMMA LaunchStep ==
    ASSUME IInv, Launch
    PROVE  IInv'
<1>1. /\ gui.app \in Ids /\ gui.row \in DOMAIN info
      /\ info[gui.row] = gui.app
  BY DEF IInv, RowStaysValid, Launch
<1>2. TypeOK'
  <2>1. gui' = Idle
    BY <1>1 DEF Launch
  <2>2. running' \in [Ids -> Ids \cup {None}] /\ trigger' \in Ids \cup {None}
    BY <1>1 DEF IInv, TypeOK, Launch
  <2> QED BY <2>1, <2>2 DEF IInv, TypeOK, Launch, Idle, At, boundVars
<1>3. FillsEmptyPage'
  BY DEF IInv, FillsEmptyPage, Launch, boundVars, Idle, At
<1>4. RowStaysValid'
  BY DEF IInv, RowStaysValid, Launch, boundVars, Idle, At
<1>5. HasAnApp'
  BY <1>1 DEF IInv, HasAnApp, Launch, Idle, At
<1>6. RunsItsOwnImage'
  <2>1. running \in [Ids -> Ids \cup {None}]
    BY DEF IInv, TypeOK
  <2>2. \/ UNCHANGED running
        \/ \E image \in {None, gui.app} : running' = [running EXCEPT ![gui.app] = image]
    BY <1>1 DEF Launch
  <2> QED BY <1>1, <2>1, <2>2 DEF IInv, RunsItsOwnImage
<1>7. KeptOnlyWhenEmpty'
  BY MutexFrame DEF Launch
<1>8. RowsAgree' /\ CopiesOnce'
  BY DEF IInv, RowsAgree, CopiesOnce, Launch, boundVars, IdsOf
<1> QED BY <1>2, <1>3, <1>4, <1>5, <1>6, <1>7, <1>8 DEF IInv

(* Closing the dialog of a start changes nothing else.                     *)
LEMMA AcceptStartStep ==
    ASSUME IInv, AcceptStart
    PROVE  IInv'
<1>1. TypeOK'
  BY DEF IInv, TypeOK, AcceptStart, threadVars, boundVars, NoDialog, Free, Idle, At
<1>2. HasAnApp'
  BY DEF IInv, HasAnApp, AcceptStart, threadVars, boundVars, NoDialog,
         Free, Idle, At, TypeOK
<1>3. KeptOnlyWhenEmpty'
  BY MutexFrame DEF AcceptStart
<1>4. /\ RowsAgree'
      /\ CopiesOnce'
      /\ FillsEmptyPage'
      /\ RowStaysValid'
      /\ RunsItsOwnImage'
  BY DEF IInv, RowsAgree, CopiesOnce, FillsEmptyPage, RowStaysValid,
         RunsItsOwnImage, AcceptStart, threadVars, boundVars, IdsOf
<1> QED BY <1>1, <1>2, <1>3, <1>4 DEF IInv

(* An answer to the stop dialog closes it; what is killed is an app.       *)
LEMMA AnswerStopStep ==
    ASSUME IInv, NEW c \in BOOLEAN, AnswerStop(c)
    PROVE  IInv'
<1>1. TypeOK'
  BY DEF IInv, TypeOK, AnswerStop, threadVars, boundVars, At, NoDialog,
         Free, Idle, HasAnApp
<1>2. FillsEmptyPage'
  BY DEF IInv, FillsEmptyPage, AnswerStop, threadVars, boundVars, At,
         NoDialog, Free, Idle
<1>3. RowStaysValid'
  BY DEF IInv, RowStaysValid, AnswerStop, threadVars, boundVars, At,
         NoDialog, Free, Idle
<1>4. HasAnApp'
  BY DEF IInv, HasAnApp, AnswerStop, threadVars, boundVars, At, NoDialog,
         Free, Idle, TypeOK
<1>5. KeptOnlyWhenEmpty'
  BY MutexFrame DEF AnswerStop
<1>6. RowsAgree' /\ CopiesOnce' /\ RunsItsOwnImage'
  BY DEF IInv, RowsAgree, CopiesOnce, RunsItsOwnImage, AnswerStop,
         threadVars, boundVars, IdsOf
<1> QED BY <1>1, <1>2, <1>3, <1>4, <1>5, <1>6 DEF IInv

(* The removal dialog names the app of the row that was clicked.           *)
LEMMA ClickRemoveStep ==
    ASSUME IInv, NEW n \in DOMAIN view, ClickRemove(n)
    PROVE  IInv'
<1>1. view[n].id \in Ids /\ n \in Nat
  BY RowIsThere
<1>2. TypeOK'
  <2>1. dialog' \in [kind : {"none", "start", "stop", "remove"}, app : Ids \cup {None}]
    BY <1>1 DEF ClickRemove
  <2>2. clicks' \in 0 .. MaxClicks
    BY BoundsAssumption DEF IInv, TypeOK, ClickRemove, Click
  <2> QED BY <1>1, <2>1, <2>2 DEF IInv, TypeOK, ClickRemove, threadVars
<1>3. HasAnApp'
  BY <1>1 DEF IInv, HasAnApp, ClickRemove, threadVars
<1>4. KeptOnlyWhenEmpty'
  BY MutexFrame DEF ClickRemove
<1>5. /\ RowsAgree'
      /\ CopiesOnce'
      /\ FillsEmptyPage'
      /\ RowStaysValid'
      /\ RunsItsOwnImage'
  BY DEF IInv, RowsAgree, CopiesOnce, FillsEmptyPage, RowStaysValid,
         RunsItsOwnImage, ClickRemove, threadVars, IdsOf
<1> QED BY <1>2, <1>3, <1>4, <1>5 DEF IInv

(* A removal that is rejected closes the dialog.                           *)
LEMMA RejectRemoveStep ==
    ASSUME IInv, RejectRemove
    PROVE  IInv'
<1>1. TypeOK'
  BY DEF IInv, TypeOK, RejectRemove, threadVars, boundVars, NoDialog, Free, Idle, At
<1>2. HasAnApp'
  BY DEF IInv, HasAnApp, RejectRemove, threadVars, boundVars, NoDialog,
         Free, Idle, At, TypeOK
<1>3. KeptOnlyWhenEmpty'
  BY MutexFrame DEF RejectRemove
<1>4. /\ RowsAgree'
      /\ CopiesOnce'
      /\ FillsEmptyPage'
      /\ RowStaysValid'
      /\ RunsItsOwnImage'
  BY DEF IInv, RowsAgree, CopiesOnce, FillsEmptyPage, RowStaysValid,
         RunsItsOwnImage, RejectRemove, threadVars, boundVars, IdsOf
<1> QED BY <1>1, <1>2, <1>3, <1>4 DEF IInv

(* What is left of a list without its first entry for an app lists nothing *)
(* twice, and the app that is stopped was on the page.                     *)
LEMMA AcceptRemoveStep ==
    ASSUME IInv, AcceptRemove
    PROVE  IInv'
<1>1. /\ read' \in Seq(Ids) /\ IsInjective(read')
      /\ gui'.at \in {"stop", "truncate"} => gui'.app \in Ids
      /\ gui' \in {At("crashed", None, 0)} \cup
                  {At(stage, i, 0) : stage \in {"stop", "truncate"}, i \in Ids}
  <2>1. CASE current \in DOMAIN info
    <3> DEFINE i == info[current]
    <3>1. i \in Ids
      BY <2>1 DEF IInv, TypeOK
    <3>2. CASE file = Broken
      BY <2>1, <3>1, <3>2, EmptyList DEF AcceptRemove, At
    <3>3. CASE file # Broken
      <4>1. file \in Seq(Ids) /\ IsInjective(file)
        BY <3>3 DEF IInv, TypeOK, CopiesOnce
      <4>2. read' = RemoveFirst(file, i) /\ gui' = At("truncate", i, 0)
        BY <2>1, <3>3 DEF AcceptRemove
      <4> HIDE DEF i
      <4> QED BY <3>1, <4>1, <4>2, RemoveFirstKeepsList DEF At
    <3> QED BY <3>2, <3>3
  <2>2. CASE current \notin DOMAIN info
    BY <2>2 DEF IInv, TypeOK, CopiesOnce, AcceptRemove, At
  <2> QED BY <2>1, <2>2
<1>2. TypeOK'
  <2>1. gui' \in [at : {"stop", "truncate", "crashed"}, app : Ids \cup {None}, row : Nat]
    BY <1>1 DEF At
  <2>2. dialog' = NoDialog /\ current' = 0
    BY DEF AcceptRemove
  <2> QED BY <1>1, <2>1, <2>2
        DEF IInv, TypeOK, AcceptRemove, NoDialog, threadVars, boundVars
<1>3. CopiesOnce'
  BY <1>1 DEF IInv, CopiesOnce, AcceptRemove
<1>4. FillsEmptyPage'
  BY <1>1 DEF FillsEmptyPage, At
<1>5. RowStaysValid'
  BY <1>1 DEF RowStaysValid, At
<1>6. HasAnApp'
  BY <1>1 DEF IInv, HasAnApp, AcceptRemove, NoDialog, threadVars, At
<1>7. KeptOnlyWhenEmpty'
  BY MutexFrame DEF AcceptRemove
<1>8. RowsAgree' /\ RunsItsOwnImage'
  BY DEF IInv, RowsAgree, RunsItsOwnImage, AcceptRemove, threadVars,
         boundVars, IdsOf
<1> QED BY <1>2, <1>3, <1>4, <1>5, <1>6, <1>7, <1>8 DEF IInv

(* The file is truncated or not touched.                                   *)
LEMMA TruncateListStep ==
    ASSUME IInv, TruncateList
    PROVE  IInv'
<1>1. /\ file' \in {file, Broken} /\ read' \in {read, <<>>}
      /\ \E stage \in {"write", "stop"} : gui' = [gui EXCEPT !.at = stage]
      /\ changed' \in {changed, TRUE}
  BY DEF TruncateList
<1>2. TypeOK'
  <2>1. read' \in Seq(Ids) /\ file' \in Seq(Ids) \cup {Broken}
    <3>1. read \in Seq(Ids) /\ file \in Seq(Ids) \cup {Broken}
      BY DEF IInv, TypeOK
    <3> QED BY <1>1, <3>1, EmptyList
  <2>2. changed' \in BOOLEAN
    BY <1>1 DEF IInv, TypeOK
  <2>3. gui' \in GuiState
    BY <1>1 DEF IInv, TypeOK, GuiState
  <2> QED BY <2>1, <2>2, <2>3
        DEF IInv, TypeOK, TruncateList, GuiState, threadVars, boundVars
<1>3. CopiesOnce'
  BY <1>1, EmptyList DEF IInv, CopiesOnce, TruncateList
<1>4. FillsEmptyPage'
  BY DEF IInv, FillsEmptyPage, TruncateList, TypeOK
<1>5. RowStaysValid'
  BY DEF IInv, RowStaysValid, TruncateList, TypeOK
<1>6. HasAnApp'
  BY DEF IInv, HasAnApp, TruncateList, threadVars, boundVars, TypeOK
<1>7. KeptOnlyWhenEmpty'
  BY MutexFrame DEF TruncateList
<1>8. RowsAgree' /\ RunsItsOwnImage'
  BY DEF IInv, RowsAgree, RunsItsOwnImage, TruncateList, threadVars,
         boundVars, IdsOf
<1> QED BY <1>2, <1>3, <1>4, <1>5, <1>6, <1>7, <1>8 DEF IInv

(* The file holds what was left of the list, or two writers' text.         *)
LEMMA WriteListStep ==
    ASSUME IInv, WriteList
    PROVE  IInv'
<1>1. file' \in {read, Broken} /\ read' = <<>>
  BY DEF WriteList, Written
<1>2. TypeOK'
  <2>1. read' \in Seq(Ids) /\ file' \in Seq(Ids) \cup {Broken}
    BY <1>1, EmptyList DEF IInv, TypeOK
  <2> QED BY <2>1 DEF IInv, TypeOK, WriteList, threadVars, boundVars
<1>3. CopiesOnce'
  BY <1>1, EmptyList DEF IInv, CopiesOnce, WriteList
<1>4. FillsEmptyPage'
  BY DEF IInv, FillsEmptyPage, WriteList, threadVars, boundVars
<1>5. RowStaysValid'
  BY DEF IInv, RowStaysValid, WriteList, threadVars, boundVars
<1>6. HasAnApp'
  BY DEF IInv, HasAnApp, WriteList, threadVars, boundVars, TypeOK
<1>7. KeptOnlyWhenEmpty'
  BY MutexFrame DEF WriteList
<1>8. RowsAgree' /\ RunsItsOwnImage'
  BY DEF IInv, RowsAgree, RunsItsOwnImage, WriteList, threadVars, boundVars, IdsOf
<1> QED BY <1>2, <1>3, <1>4, <1>5, <1>6, <1>7, <1>8 DEF IInv

(* No container is left for an app that is removed.                        *)
LEMMA StopRemovedStep ==
    ASSUME IInv, StopRemoved
    PROVE  IInv'
<1>1. TypeOK'
  BY DEF IInv, TypeOK, StopRemoved, threadVars, boundVars, Idle, At, HasAnApp
<1>2. FillsEmptyPage'
  BY DEF IInv, FillsEmptyPage, StopRemoved, threadVars, boundVars, Idle, At
<1>3. RowStaysValid'
  BY DEF IInv, RowStaysValid, StopRemoved, threadVars, boundVars, Idle, At
<1>4. HasAnApp'
  BY DEF IInv, HasAnApp, StopRemoved, threadVars, boundVars, Idle, At, TypeOK
<1>5. RunsItsOwnImage'
  BY DEF IInv, RunsItsOwnImage, StopRemoved, threadVars, boundVars, Idle, At, TypeOK
<1>6. KeptOnlyWhenEmpty'
  BY MutexFrame DEF StopRemoved
<1>7. RowsAgree' /\ CopiesOnce'
  BY DEF IInv, RowsAgree, CopiesOnce, StopRemoved, threadVars, boundVars, IdsOf
<1> QED BY <1>1, <1>2, <1>3, <1>4, <1>5, <1>6, <1>7 DEF IInv

(* The list with the app that is installed lists nothing twice.            *)
LEMMA InstallStep ==
    ASSUME IInv, NEW i \in Ids, Install(i)
    PROVE  IInv'
<1>1. read' \in Seq(Ids) /\ IsInjective(read')
  <2> DEFINE list == IF file = Broken THEN <<>> ELSE file
  <2>1. list \in Seq(Ids) /\ IsInjective(list)
    BY EmptyList DEF IInv, TypeOK, CopiesOnce
  <2>2. read' = WithApp(list, i)
    BY DEF Install
  <2> HIDE DEF list
  <2> QED BY <2>1, <2>2, WithAppKeepsList
<1>2. TypeOK'
  <2>1. installs' \in 0 .. MaxInstalls
    BY BoundsAssumption DEF IInv, TypeOK, Install
  <2> QED BY <1>1, <2>1 DEF IInv, TypeOK, Install, At, threadVars
<1>3. CopiesOnce'
  BY <1>1 DEF IInv, CopiesOnce, Install
<1>4. FillsEmptyPage'
  BY DEF IInv, FillsEmptyPage, Install, threadVars, At, NoDialog, Free, Idle
<1>5. RowStaysValid'
  BY DEF IInv, RowStaysValid, Install, threadVars, At, NoDialog, Free, Idle
<1>6. HasAnApp'
  BY DEF IInv, HasAnApp, Install, threadVars, At, NoDialog, Free, Idle, TypeOK
<1>7. KeptOnlyWhenEmpty'
  BY MutexFrame DEF Install
<1>8. RowsAgree' /\ RunsItsOwnImage'
  BY DEF IInv, RowsAgree, RunsItsOwnImage, Install, threadVars, IdsOf
<1> QED BY <1>2, <1>3, <1>4, <1>5, <1>6, <1>7, <1>8 DEF IInv

(* The file is truncated or not touched.                                   *)
LEMMA OpenInstallStep ==
    ASSUME IInv, OpenInstall
    PROVE  IInv'
<1>1. /\ file' \in {file, Broken} /\ read' \in {read, <<>>}
      /\ gui' = Idle \/ gui' = [gui EXCEPT !.at = "saveInstall"]
      /\ changed' \in {changed, TRUE}
  BY DEF OpenInstall
<1>2. gui' = Idle \/ gui'.at = "saveInstall"
  BY <1>1 DEF IInv, TypeOK
<1>3. TypeOK'
  <2>1. read' \in Seq(Ids) /\ file' \in Seq(Ids) \cup {Broken}
    <3>1. read \in Seq(Ids) /\ file \in Seq(Ids) \cup {Broken}
      BY DEF IInv, TypeOK
    <3> QED BY <1>1, <3>1, EmptyList
  <2>2. changed' \in BOOLEAN
    BY <1>1 DEF IInv, TypeOK
  <2>3. gui' \in GuiState
    BY <1>1 DEF IInv, TypeOK, Idle, At, GuiState
  <2> QED BY <2>1, <2>2, <2>3
        DEF IInv, TypeOK, OpenInstall, GuiState, threadVars, boundVars
<1>4. CopiesOnce'
  BY <1>1, EmptyList DEF IInv, CopiesOnce, OpenInstall
<1>5. FillsEmptyPage'
  BY <1>2 DEF FillsEmptyPage, Idle, At
<1>6. RowStaysValid'
  BY <1>2 DEF RowStaysValid, Idle, At
<1>7. HasAnApp'
  BY <1>2 DEF IInv, HasAnApp, OpenInstall, threadVars, Idle, At
<1>8. KeptOnlyWhenEmpty'
  BY MutexFrame DEF OpenInstall
<1>9. RowsAgree' /\ RunsItsOwnImage'
  BY DEF IInv, RowsAgree, RunsItsOwnImage, OpenInstall, threadVars, boundVars, IdsOf
<1> QED BY <1>3, <1>4, <1>5, <1>6, <1>7, <1>8, <1>9 DEF IInv

(* The file holds the list with the new app, or two writers' text.         *)
LEMMA SaveInstallStep ==
    ASSUME IInv, SaveInstall
    PROVE  IInv'
<1>1. file' \in {read, Broken} /\ read' = <<>>
  BY DEF SaveInstall, Written
<1>2. TypeOK'
  <2>1. read' \in Seq(Ids) /\ file' \in Seq(Ids) \cup {Broken}
    BY <1>1, EmptyList DEF IInv, TypeOK
  <2> QED BY <2>1 DEF IInv, TypeOK, SaveInstall, Idle, At, threadVars, boundVars
<1>3. CopiesOnce'
  BY <1>1, EmptyList DEF IInv, CopiesOnce, SaveInstall
<1>4. FillsEmptyPage'
  BY DEF IInv, FillsEmptyPage, SaveInstall, threadVars, boundVars, Idle, At
<1>5. RowStaysValid'
  BY DEF IInv, RowStaysValid, SaveInstall, threadVars, boundVars, Idle, At
<1>6. HasAnApp'
  BY DEF IInv, HasAnApp, SaveInstall, threadVars, boundVars, Idle, At, TypeOK
<1>7. KeptOnlyWhenEmpty'
  BY MutexFrame DEF SaveInstall
<1>8. RowsAgree' /\ RunsItsOwnImage'
  BY DEF IInv, RowsAgree, RunsItsOwnImage, SaveInstall, threadVars, boundVars, IdsOf
<1> QED BY <1>2, <1>3, <1>4, <1>5, <1>6, <1>7, <1>8 DEF IInv

(* The installer outside, too, leaves a known app where it is.             *)
LEMMA OutsideLoadsStep ==
    ASSUME IInv, NEW i \in Ids, OutsideLoads(i)
    PROVE  IInv'
<1>1. outside'.read \in Seq(Ids) /\ IsInjective(outside'.read)
  <2>1. file \in Seq(Ids) /\ IsInjective(file)
    BY DEF IInv, TypeOK, CopiesOnce, OutsideLoads
  <2> QED BY <2>1, WithAppKeepsList DEF OutsideLoads
<1>2. TypeOK'
  <2>1. outside' \in [at : {"idle", "open", "save", "done"}, read : Seq(Ids)]
    BY <1>1 DEF OutsideLoads
  <2> QED BY <2>1 DEF IInv, TypeOK, OutsideLoads, guiVars, threadVars, boundVars
<1>3. CopiesOnce'
  BY <1>1 DEF IInv, CopiesOnce, OutsideLoads, guiVars
<1>4. KeptOnlyWhenEmpty'
  BY MutexFrame DEF OutsideLoads, guiVars
<1>5. /\ RowsAgree'
      /\ FillsEmptyPage'
      /\ RowStaysValid'
      /\ HasAnApp'
      /\ RunsItsOwnImage'
  BY DEF IInv, RowsAgree, FillsEmptyPage, RowStaysValid, HasAnApp,
         RunsItsOwnImage, OutsideLoads, guiVars, threadVars, boundVars, IdsOf
<1> QED BY <1>2, <1>3, <1>4, <1>5 DEF IInv

(* The file is truncated.                                                  *)
LEMMA OutsideOpensStep ==
    ASSUME IInv, OutsideOpens
    PROVE  IInv'
<1>1. TypeOK'
  <2>1. outside' \in [at : {"idle", "open", "save", "done"}, read : Seq(Ids)]
    BY DEF IInv, TypeOK, OutsideOpens
  <2> QED BY <2>1 DEF IInv, TypeOK, OutsideOpens, guiVars, threadVars, boundVars
<1>2. CopiesOnce'
  BY DEF IInv, CopiesOnce, OutsideOpens, guiVars, threadVars, boundVars
<1>3. KeptOnlyWhenEmpty'
  BY MutexFrame DEF OutsideOpens, guiVars
<1>4. /\ RowsAgree'
      /\ FillsEmptyPage'
      /\ RowStaysValid'
      /\ HasAnApp'
      /\ RunsItsOwnImage'
  BY DEF IInv, RowsAgree, FillsEmptyPage, RowStaysValid, HasAnApp,
         RunsItsOwnImage, OutsideOpens, guiVars, threadVars, boundVars, IdsOf
<1> QED BY <1>1, <1>2, <1>3, <1>4 DEF IInv

(* The file holds the list of the installer outside, or two writers' text. *)
LEMMA OutsideSavesStep ==
    ASSUME IInv, OutsideSaves
    PROVE  IInv'
<1>1. file' \in {outside.read, Broken} /\ outside' = [at |-> "done", read |-> <<>>]
  BY DEF OutsideSaves, Written
<1>2. TypeOK'
  <2>1. file' \in Seq(Ids) \cup {Broken}
    BY <1>1 DEF IInv, TypeOK
  <2>2. outside' \in [at : {"idle", "open", "save", "done"}, read : Seq(Ids)]
    BY <1>1, EmptyList
  <2> QED BY <2>1, <2>2
        DEF IInv, TypeOK, OutsideSaves, guiVars, threadVars, boundVars
<1>3. CopiesOnce'
  BY <1>1, EmptyList DEF IInv, CopiesOnce, OutsideSaves, guiVars
<1>4. KeptOnlyWhenEmpty'
  BY MutexFrame DEF OutsideSaves, guiVars
<1>5. /\ RowsAgree'
      /\ FillsEmptyPage'
      /\ RowStaysValid'
      /\ HasAnApp'
      /\ RunsItsOwnImage'
  BY DEF IInv, RowsAgree, FillsEmptyPage, RowStaysValid, HasAnApp,
         RunsItsOwnImage, OutsideSaves, guiVars, threadVars, boundVars, IdsOf
<1> QED BY <1>2, <1>3, <1>4, <1>5 DEF IInv

(* docker ps tells which apps have a container.                            *)
LEMMA ScanDockerStep ==
    ASSUME IInv, ScanDocker
    PROVE  IInv'
<1>1. TypeOK'
  <2>1. scan' \in SUBSET Ids
    BY DEF ScanDocker, DockerPs
  <2> QED BY <2>1 DEF IInv, TypeOK, ScanDocker, guiVars, boundVars
<1>2. KeptOnlyWhenEmpty'
  BY MutexFrame DEF ScanDocker, guiVars
<1>3. /\ RowsAgree'
      /\ CopiesOnce'
      /\ FillsEmptyPage'
      /\ RowStaysValid'
      /\ HasAnApp'
      /\ RunsItsOwnImage'
  BY DEF IInv, RowsAgree, CopiesOnce, FillsEmptyPage, RowStaysValid,
         HasAnApp, RunsItsOwnImage, ScanDocker, guiVars, boundVars, IdsOf
<1> QED BY <1>1, <1>2, <1>3 DEF IInv

(* The signals name apps of the list read so far; a crash leaves the page  *)
(* alone.                                                                  *)
LEMMA ScanRowsStep ==
    ASSUME IInv, ScanRows
    PROVE  IInv'
<1>1. gui' = gui \/ gui' = At("crashed", None, 0)
  BY DEF ScanRows
<1>2. TypeOK'
  <2>1. sts' \in Seq([id : Ids, on : BOOLEAN, row : Nat])
    <3>1. CASE UNCHANGED sts
      BY <3>1 DEF IInv, TypeOK
    <3>2. ASSUME NEW seen \in Seq(Ids),
                 sts' = [n \in DOMAIN seen |->
                            [id |-> seen[n], on |-> seen[n] \in scan, row |-> n]]
          PROVE  sts' \in Seq([id : Ids, on : BOOLEAN, row : Nat])
      BY <3>2, RowSignals
    <3>3. \/ UNCHANGED sts
          \/ \E seen \in Seq(Ids) :
                sts' = [n \in DOMAIN seen |->
                            [id |-> seen[n], on |-> seen[n] \in scan, row |-> n]]
      <4>1. info \in Seq(Ids) /\ \A n \in 0 .. Len(read) : SubSeq(read, 1, n) \in Seq(Ids)
        <5>1. info \in Seq(Ids) /\ read \in Seq(Ids)
          BY DEF IInv, TypeOK
        <5>2. \A n \in 0 .. Len(read) : \A k \in 1 .. n : read[k] \in Ids
          BY <5>1, ElementOfSeq
        <5> QED BY <5>1, <5>2, SubSeqProperties
      <4> QED BY <4>1 DEF ScanRows
    <3> QED BY <3>1, <3>2, <3>3
  <2>2. gui' \in GuiState
    BY <1>1 DEF IInv, TypeOK, At, GuiState
  <2>3. scan' = None
    BY DEF ScanRows
  <2>4. UNCHANGED <<page, file, running, view, info, current, dialog, read, held,
                    changed, trigger, worker, results, kills, outside, boundVars>>
    BY DEF ScanRows
  <2> QED BY <2>1, <2>2, <2>3, <2>4 DEF IInv, TypeOK, GuiState, boundVars
<1>3. FillsEmptyPage'
  BY <1>1 DEF IInv, FillsEmptyPage, ScanRows, At
<1>4. RowStaysValid'
  BY <1>1 DEF IInv, RowStaysValid, ScanRows, At
<1>5. HasAnApp'
  BY <1>1 DEF IInv, HasAnApp, ScanRows, At
<1>6. KeptOnlyWhenEmpty'
  BY MutexFrame DEF ScanRows
<1>7. RowsAgree' /\ CopiesOnce' /\ RunsItsOwnImage'
  BY DEF IInv, RowsAgree, CopiesOnce, RunsItsOwnImage, ScanRows, boundVars, IdsOf
<1> QED BY <1>2, <1>3, <1>4, <1>5, <1>6, <1>7 DEF IInv

(* A status signal sets the switch of one row or none.                     *)
LEMMA ShowStatusStep ==
    ASSUME IInv, ShowStatus
    PROVE  IInv'
<1>1. Head(sts).on \in BOOLEAN /\ sts' \in Seq([id : Ids, on : BOOLEAN, row : Nat])
  <2>1. sts \in Seq([id : Ids, on : BOOLEAN, row : Nat]) /\ sts # <<>>
    BY DEF IInv, TypeOK, ShowStatus
  <2>2. Head(sts) \in [id : Ids, on : BOOLEAN, row : Nat]
    BY <2>1, HeadTailProperties
  <2> QED BY <2>1, <2>2, HeadTailProperties DEF ShowStatus
<1>2. /\ view' \in Seq([id : Ids, checked : BOOLEAN])
      /\ IdsOf(view') = IdsOf(view)
  <2>1. view \in Seq(Row)
    BY DEF IInv, TypeOK, Row
  <2>2. \/ UNCHANGED view
        \/ \E n \in DOMAIN view : view' = [view EXCEPT ![n].checked = Head(sts).on]
    BY DEF ShowStatus
  <2>3. CASE UNCHANGED view
    BY <2>1, <2>3 DEF Row
  <2>4. ASSUME NEW n \in DOMAIN view,
               view' = [view EXCEPT ![n].checked = Head(sts).on]
        PROVE  view' \in Seq(Row) /\ IdsOf(view') = IdsOf(view)
    BY <1>1, <2>1, <2>4, CheckedKeepsApps
  <2> QED BY <2>2, <2>3, <2>4 DEF Row
<1>3. TypeOK'
  BY <1>1, <1>2 DEF IInv, TypeOK, ShowStatus, boundVars
<1>4. RowsAgree'
  BY <1>2 DEF IInv, RowsAgree, ShowStatus, IdsOf
<1>5. FillsEmptyPage'
  BY DEF IInv, FillsEmptyPage, ShowStatus, boundVars, Free, Idle, At
<1>6. RowStaysValid'
  BY DEF IInv, RowStaysValid, ShowStatus, boundVars, Free, Idle, At
<1>7. KeptOnlyWhenEmpty'
  BY MutexFrame DEF ShowStatus
<1>8. CopiesOnce' /\ HasAnApp' /\ RunsItsOwnImage'
  BY DEF IInv, CopiesOnce, HasAnApp, RunsItsOwnImage, ShowStatus, boundVars
<1> QED BY <1>3, <1>4, <1>5, <1>6, <1>7, <1>8 DEF IInv

(* The timer sets every switch, and nothing else of a row.                 *)
LEMMA CheckRunningStep ==
    ASSUME IInv, CheckRunning
    PROVE  IInv'
<1>1. /\ view' \in Seq([id : Ids, checked : BOOLEAN])
      /\ IdsOf(view') = IdsOf(view)
  <2>1. view \in Seq(Row)
    BY DEF IInv, TypeOK, Row
  <2>2. view' = [n \in DOMAIN view |-> [view[n] EXCEPT !.checked =
                                            n \in DOMAIN info /\ info[n] \in DockerPs]]
    BY DEF CheckRunning
  <2>3. ASSUME NEW n \in DOMAIN view
        PROVE  view'[n] \in Row /\ view'[n].id = view[n].id
    <3>1. view[n] \in Row
      BY <2>1
    <3> QED BY <2>2, <3>1 DEF Row
  <2>4. view' = [n \in DOMAIN view |-> view'[n]]
    BY <2>2
  <2> QED BY <2>1, <2>3, <2>4, SameApps DEF Row
<1>2. TypeOK'
  BY <1>1 DEF IInv, TypeOK, CheckRunning, threadVars, boundVars
<1>3. RowsAgree'
  BY <1>1 DEF IInv, RowsAgree, CheckRunning, IdsOf
<1>4. FillsEmptyPage'
  BY DEF IInv, FillsEmptyPage, CheckRunning, threadVars, boundVars, Free, Idle, At
<1>5. RowStaysValid'
  BY DEF IInv, RowStaysValid, CheckRunning, threadVars, boundVars, Free, Idle, At
<1>6. KeptOnlyWhenEmpty'
  BY MutexFrame DEF CheckRunning
<1>7. CopiesOnce' /\ HasAnApp' /\ RunsItsOwnImage'
  BY DEF IInv, CopiesOnce, HasAnApp, RunsItsOwnImage, CheckRunning,
         threadVars, boundVars
<1> QED BY <1>2, <1>3, <1>4, <1>5, <1>6, <1>7 DEF IInv

(* The worker wakes for an app that was started.                           *)
LEMMA WorkerWakesStep ==
    ASSUME IInv, WorkerWakes
    PROVE  IInv'
<1>1. TypeOK'
  BY DEF IInv, TypeOK, WorkerWakes, guiVars, boundVars
<1>2. HasAnApp'
  BY DEF IInv, HasAnApp, WorkerWakes, guiVars, boundVars, TypeOK
<1>3. KeptOnlyWhenEmpty'
  BY MutexFrame DEF WorkerWakes, guiVars
<1>4. /\ RowsAgree'
      /\ CopiesOnce'
      /\ FillsEmptyPage'
      /\ RowStaysValid'
      /\ RunsItsOwnImage'
  BY DEF IInv, RowsAgree, CopiesOnce, FillsEmptyPage, RowStaysValid,
         RunsItsOwnImage, WorkerWakes, guiVars, boundVars, IdsOf
<1> QED BY <1>1, <1>2, <1>3, <1>4 DEF IInv

(* The result is the one of the app in the trigger.                        *)
LEMMA WorkerChecksStep ==
    ASSUME IInv, WorkerChecks
    PROVE  IInv'
<1>1. TypeOK'
  BY DEF IInv, TypeOK, WorkerChecks, guiVars, boundVars, HasAnApp
<1>2. HasAnApp'
  BY DEF IInv, HasAnApp, WorkerChecks, guiVars, boundVars, TypeOK
<1>3. KeptOnlyWhenEmpty'
  BY MutexFrame DEF WorkerChecks, guiVars
<1>4. /\ RowsAgree'
      /\ CopiesOnce'
      /\ FillsEmptyPage'
      /\ RowStaysValid'
      /\ RunsItsOwnImage'
  BY DEF IInv, RowsAgree, CopiesOnce, FillsEmptyPage, RowStaysValid,
         RunsItsOwnImage, WorkerChecks, guiVars, boundVars, IdsOf
<1> QED BY <1>1, <1>2, <1>3, <1>4 DEF IInv

(* The trigger is cleared while nobody checks.                             *)
LEMMA WorkerClearsStep ==
    ASSUME IInv, WorkerClears
    PROVE  IInv'
<1>1. TypeOK'
  BY DEF IInv, TypeOK, WorkerClears, guiVars, boundVars
<1>2. HasAnApp'
  BY DEF IInv, HasAnApp, WorkerClears, guiVars, boundVars, TypeOK
<1>3. KeptOnlyWhenEmpty'
  BY MutexFrame DEF WorkerClears, guiVars
<1>4. /\ RowsAgree'
      /\ CopiesOnce'
      /\ FillsEmptyPage'
      /\ RowStaysValid'
      /\ RunsItsOwnImage'
  BY DEF IInv, RowsAgree, CopiesOnce, FillsEmptyPage, RowStaysValid,
         RunsItsOwnImage, WorkerClears, guiVars, boundVars, IdsOf
<1> QED BY <1>1, <1>2, <1>3, <1>4 DEF IInv

(* A result switches rows off and changes nothing else of them.            *)
LEMMA HandleResultStep ==
    ASSUME IInv, HandleResult
    PROVE  IInv'
<1>1. results' \in Seq([id : Ids, started : BOOLEAN])
  <2>1. results \in Seq([id : Ids, started : BOOLEAN]) /\ results # <<>>
    BY DEF IInv, TypeOK, HandleResult
  <2> QED BY <2>1, HeadTailProperties DEF HandleResult
<1>2. /\ view' \in Seq([id : Ids, checked : BOOLEAN])
      /\ IdsOf(view') = IdsOf(view)
  <2>1. view \in Seq(Row)
    BY DEF IInv, TypeOK, Row
  <2>2. CASE UNCHANGED view
    BY <2>1, <2>2 DEF Row
  <2>3. CASE view' = Show(Head(results).id, FALSE)
    <3>1. ASSUME NEW n \in DOMAIN view
          PROVE  view'[n] \in Row /\ view'[n].id = view[n].id
      <4>1. view[n] \in Row
        BY <2>1
      <4> QED BY <2>3, <4>1 DEF Row, Show
    <3>2. view' = [n \in DOMAIN view |-> view'[n]]
      BY <2>3 DEF Show
    <3> QED BY <2>1, <3>1, <3>2, SameApps DEF Row
  <2> QED BY <2>2, <2>3 DEF HandleResult
<1>3. TypeOK'
  <2>1. current' = 0 /\ UNCHANGED <<page, file, running, info, dialog, gui, read, held,
                    changed, trigger, worker, scan, sts, kills, outside, boundVars>>
    BY DEF HandleResult
  <2> QED BY <1>1, <1>2, <2>1 DEF IInv, TypeOK, boundVars
<1>4. RowsAgree'
  BY <1>2 DEF IInv, RowsAgree, HandleResult, IdsOf
<1>5. FillsEmptyPage'
  BY DEF IInv, FillsEmptyPage, HandleResult, boundVars, Free, Idle, At
<1>6. RowStaysValid'
  BY DEF IInv, RowStaysValid, HandleResult, boundVars, Free, Idle, At
<1>7. KeptOnlyWhenEmpty'
  BY MutexFrame DEF HandleResult, Show
<1>8. CopiesOnce' /\ HasAnApp' /\ RunsItsOwnImage'
  BY DEF IInv, CopiesOnce, HasAnApp, RunsItsOwnImage, HandleResult, boundVars
<1> QED BY <1>3, <1>4, <1>5, <1>6, <1>7, <1>8 DEF IInv

(* A container that is gone runs no image.                                 *)
LEMMA KilledStep ==
    ASSUME IInv, NEW i \in Ids, Killed(i)
    PROVE  IInv'
<1>1. TypeOK'
  BY DEF IInv, TypeOK, Killed, guiVars, threadVars, boundVars
<1>2. RunsItsOwnImage'
  BY DEF IInv, RunsItsOwnImage, Killed, guiVars, threadVars, boundVars, TypeOK
<1>3. KeptOnlyWhenEmpty'
  BY MutexFrame DEF Killed, guiVars
<1>4. RowsAgree' /\ CopiesOnce' /\ FillsEmptyPage' /\ RowStaysValid' /\ HasAnApp'
  BY DEF IInv, RowsAgree, CopiesOnce, FillsEmptyPage, RowStaysValid,
         HasAnApp, Killed, guiVars, threadVars, boundVars, IdsOf
<1> QED BY <1>1, <1>2, <1>3, <1>4 DEF IInv

(* A container that is gone runs no image.                                 *)
LEMMA ExitsStep ==
    ASSUME IInv, NEW i \in Ids, Exits(i)
    PROVE  IInv'
<1>1. TypeOK'
  BY DEF IInv, TypeOK, Exits, guiVars, threadVars, boundVars
<1>2. RunsItsOwnImage'
  BY DEF IInv, RunsItsOwnImage, Exits, guiVars, threadVars, boundVars, TypeOK
<1>3. KeptOnlyWhenEmpty'
  BY MutexFrame DEF Exits, guiVars
<1>4. RowsAgree' /\ CopiesOnce' /\ FillsEmptyPage' /\ RowStaysValid' /\ HasAnApp'
  BY DEF IInv, RowsAgree, CopiesOnce, FillsEmptyPage, RowStaysValid,
         HasAnApp, Exits, guiVars, threadVars, boundVars, IdsOf
<1> QED BY <1>1, <1>2, <1>3, <1>4 DEF IInv

(* A new session starts with an empty page; the file and the containers    *)
(* stay.                                                                   *)
LEMMA RestartStep ==
    ASSUME IInv, Restart
    PROVE  IInv'
<1>1. TypeOK'
  <2>1. /\ view' \in Seq([id : Ids, checked : BOOLEAN]) /\ info' \in Seq(Ids)
        /\ read' \in Seq(Ids) /\ results' \in Seq([id : Ids, started : BOOLEAN])
        /\ sts' \in Seq([id : Ids, on : BOOLEAN, row : Nat])
    BY EmptyList DEF Restart
  <2>2. restarts' \in 0 .. MaxRestarts
    BY BoundsAssumption DEF IInv, TypeOK, Restart
  <2>3. /\ held' = FALSE /\ changed' = FALSE /\ current' = 0
        /\ dialog' = NoDialog /\ gui' = At("load", None, 0)
        /\ trigger' = None /\ worker' = "waiting" /\ scan' = None
    BY DEF Restart
  <2>4. UNCHANGED <<page, file, running, kills, outside, clicks, installs>>
    BY DEF Restart
  <2> QED BY <2>1, <2>2, <2>3, <2>4 DEF IInv, TypeOK, NoDialog, At
<1>2. RowsAgree'
  BY EmptyList DEF RowsAgree, Restart, IdsOf
<1>3. CopiesOnce'
  BY EmptyList DEF IInv, CopiesOnce, Restart
<1>4. FillsEmptyPage'
  BY DEF IInv, FillsEmptyPage, Restart, At, NoDialog
<1>5. RowStaysValid'
  BY DEF IInv, RowStaysValid, Restart, At, NoDialog
<1>6. HasAnApp'
  BY DEF IInv, HasAnApp, Restart, At, NoDialog, TypeOK
<1>7. KeptOnlyWhenEmpty'
  BY DEF KeptOnlyWhenEmpty, Restart
<1>8. RunsItsOwnImage'
  BY DEF IInv, RunsItsOwnImage, Restart
<1> QED BY <1>1, <1>2, <1>3, <1>4, <1>5, <1>6, <1>7, <1>8 DEF IInv
-----------------------------------------------------------------------------
(* Every step of the page, of its threads and of the installers keeps the  *)
(* invariant.                                                              *)
LEMMA NextKeepsIInv ==
    ASSUME IInv, [Next]_vars
    PROVE  IInv'
<1>1. CASE UNCHANGED vars
  BY <1>1 DEF IInv, TypeOK, RowsAgree, CopiesOnce, FillsEmptyPage, RowStaysValid,
              HasAnApp, RunsItsOwnImage, KeptOnlyWhenEmpty, IdsOf,
              vars, guiVars, threadVars, boundVars
<1>2. CASE User
  BY <1>2, ClickToggleStep, ClickRemoveStep, AcceptStartStep, RejectRemoveStep,
     AcceptRemoveStep, AnswerStopStep, InstallStep DEF User
<1>3. CASE GuiWork
  BY <1>3, LoadStep, FillStep, LookAtDockerStep, LaunchStep, TruncateListStep,
     WriteListStep, StopRemovedStep, OpenInstallStep, SaveInstallStep DEF GuiWork
<1>4. CASE FileChanged \/ ShowStatus \/ CheckRunning \/ HandleResult
  BY <1>4, FileChangedStep, ShowStatusStep, CheckRunningStep, HandleResultStep
<1>5. CASE WorkerStep \/ ScanDocker \/ ScanRows
  BY <1>5, WorkerWakesStep, WorkerChecksStep, WorkerClearsStep, ScanDockerStep,
     ScanRowsStep DEF WorkerStep
<1>6. CASE (\E i \in Ids : OutsideLoads(i) \/ Killed(i) \/ Exits(i)) \/ OutsideStep
  BY <1>6, OutsideLoadsStep, KilledStep, ExitsStep, OutsideOpensStep,
     OutsideSavesStep DEF OutsideStep
<1>7. CASE Restart
  BY <1>7, RestartStep
<1> QED BY <1>1, <1>2, <1>3, <1>4, <1>5, <1>6, <1>7 DEF Next

(* A list file that lists nothing twice, an empty page about to load it,   *)
(* containers left over from an earlier session.                           *)
LEMMA InitIInv ==
    ASSUME Init
    PROVE  IInv
<1>1. TypeOK
  <2>1. /\ view \in Seq([id : Ids, checked : BOOLEAN]) /\ info \in Seq(Ids)
        /\ read \in Seq(Ids) /\ results \in Seq([id : Ids, started : BOOLEAN])
        /\ sts \in Seq([id : Ids, on : BOOLEAN, row : Nat])
        /\ outside \in [at : {"idle", "open", "save", "done"}, read : Seq(Ids)]
    BY EmptyList DEF Init
  <2>2. running \in [Ids -> Ids \cup {None}]
    BY DEF Init
  <2>3. /\ 0 \in 0 .. MaxClicks /\ 0 \in 0 .. MaxInstalls
        /\ 0 \in 0 .. MaxRestarts
    BY BoundsAssumption
  <2>4. file \in Seq(Ids) /\ gui \in GuiState
    BY PreinstalledAssumption DEF Init, At, GuiState
  <2> QED BY <2>1, <2>2, <2>3, <2>4 DEF Init, TypeOK, NoDialog, GuiState
<1>2. RowsAgree /\ CopiesOnce
  BY EmptyList, PreinstalledAssumption DEF Init, RowsAgree, CopiesOnce
<1>3. FillsEmptyPage /\ RowStaysValid /\ HasAnApp /\ RunsItsOwnImage
  BY DEF Init, FillsEmptyPage, RowStaysValid, HasAnApp, RunsItsOwnImage, At, NoDialog
<1>4. KeptOnlyWhenEmpty
  BY DEF Init, KeptOnlyWhenEmpty
<1> QED BY <1>1, <1>2, <1>3, <1>4 DEF IInv

(* The invariant above holds in every state, whatever the list file holds  *)
(* at the start and however many apps there are.                           *)
THEOREM Invariant == Spec => []IInv
<1>1. Init => IInv
  BY InitIInv
<1>2. IInv /\ [Next]_vars => IInv'
  BY NextKeepsIInv
<1> QED BY <1>1, <1>2, PTL DEF Spec

(* Every variable of the two pages keeps its type.                         *)
THEOREM TypeCorrect == Spec => []TypeOK
<1>1. IInv => TypeOK
  BY DEF IInv
<1> QED BY <1>1, Invariant, PTL

(* Removals, the marketplace and an installation from outside rewrite the  *)
(* list without a lock: it may get lost or garbled, but no app is ever     *)
(* listed twice, in the file or on the page.                               *)
THEOREM NothingListedTwice == Spec => []EachAppOnce
<1>1. IInv => EachAppOnce
  BY DEF IInv, RowsAgree, CopiesOnce, EachAppOnce
<1> QED BY <1>1, Invariant, PTL

(* executeServices names the container after the app of the row clicked    *)
(* and takes the image from the row of the list in memory: it is the same  *)
(* app's, although the list is loaded again whenever the file changes.     *)
THEOREM ContainersRunTheirImage == Spec => []RunsItsOwnImage
<1>1. IInv => RunsItsOwnImage
  BY DEF IInv
<1> QED BY <1>1, Invariant, PTL

(* initInstalledServicesFromDB may return without releasing its mutex, but *)
(* then the page shows nothing.                                            *)
THEOREM MutexKeptOnEmptyPage == Spec => []KeptOnlyWhenEmpty
<1>1. IInv => KeptOnlyWhenEmpty
  BY DEF IInv
<1> QED BY <1>1, Invariant, PTL

(* The index that the toggle hands to executeServices is never out of the  *)
(* range of the list in memory, and the row is the clicked app's.          *)
THEOREM LaunchFindsItsRow == Spec => []RowStaysValid
<1>1. IInv => RowStaysValid
  BY DEF IInv
<1> QED BY <1>1, Invariant, PTL
=============================================================================
