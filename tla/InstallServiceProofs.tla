------------------------- MODULE InstallServiceProofs -------------------------
(***************************************************************************)
(* Proofs about InstallService, for any apps, APIs and number of           *)
(* installations, failures and kills.                                      *)
(***************************************************************************)
EXTENDS InstallService, TLAPS

-----------------------------------------------------------------------------
(* The inductive invariant.                                                *)

\* What the overlay holds, or held before it was truncated, and what it will
\* hold; the same of a list of installed apps and of the CAN defaults.
OverlayText  == IF pc = "overlayOpen" THEN text ELSE overlay
OverlayNext  == IF pc = "overlayOpen" THEN text \cup signal ELSE overlay
DefaultsText == IF pc = "defaultsOpen" THEN text ELSE defaults
ListText(k)  == IF pc = "listOpen" /\ k = kind THEN text ELSE listed[k]

\* The stages at which the list of supported APIs is in memory and on disk.
Looping == {"signal", "overlayOpen", "default", "defaultsOpen", "save"}
Loaded  == Looping \cup {"supportedOpen"}
Service == kind = "vehicle-service" /\ ~embedded

\* What an open file held has the type of that file, and the JSON lists do not
\* parse while they are open.
Texts ==
  /\ pc \in {"overlayOpen", "defaultsOpen"} => text \subseteq Apis
  /\ pc = "listOpen" => text \subseteq Apps /\ listed[kind] = Garbled
  /\ pc = "supportedOpen" => supported = Garbled

\* How far the loop over the signals is.
Loop ==
  /\ pc \in {"pull", "config", "configOpen", "download", "supported"} => todo = ApisOf[app]
  /\ pc \in {"save", "supportedOpen"} => todo = {}
  /\ pc \in Loaded => ApisOf[app] \ todo \subseteq known \cap OverlayNext
  /\ (pc \in Loaded /\ app \in WithDbc \cap unpacked) =>
       ApisOf[app] \ (todo \cup (IF pc \in {"overlayOpen", "default", "defaultsOpen"}
                                 THEN signal ELSE {})) \subseteq DefaultsText

\* The list in memory has everything of the one on disk, and nothing that the
\* overlay will not have, unless the overlay was torn.
Offered ==
  /\ pc \in Looping => supported # Garbled /\ supported \subseteq known
  /\ "overlayOpen" \notin torn =>
       /\ pc \in Loaded => known \subseteq OverlayNext
       /\ supported # Garbled => supported \subseteq OverlayText

\* The mapping of the app is complete, and the broker serves it.
MappingDone ==
  /\ Mapped(app) /\ Supported(app)
  /\ app \in WithDbc \cap unpacked => ApisOf[app] \subseteq defaults

BrokerDone == served # Down /\ (hasty \/ ApisOf[app] \subseteq served)

\* What the stages that are behind the installation have done.
Progress ==
  /\ pc \notin {"idle", "pull"} => app \in pulled
  /\ pc \notin {"idle", "pull", "config", "configOpen"} => app \in configured
  /\ pc \in {"vssgen", "stopBroker", "startBroker", "restart"} => MappingDone
  /\ pc \in {"stopBroker", "startBroker"} => generating \/ ApisOf[app] \subseteq vss
  /\ pc = "startBroker" => served = Down
  /\ pc = "restart" => BrokerDone
  /\ (pc \in {"register", "listOpen"} /\ Service) => MappingDone /\ BrokerDone

\* App a, listed as of kind k, has what no torn file took from it.
Keeps(k, a) ==
  /\ a \in pulled
  /\ "configOpen" \notin torn => a \in configured \/ (pc = "configOpen" /\ a = app)
  /\ (k = "vehicle-service" /\ ~embedded) =>
       /\ "overlayOpen" \notin torn => ApisOf[a] \subseteq OverlayText
       /\ "supportedOpen" \notin torn =>
            IF pc = "supportedOpen" THEN ApisOf[a] \subseteq known
            ELSE supported # Garbled /\ ApisOf[a] \subseteq supported

ListKept == \A k \in Kinds : ListText(k) # Garbled => \A a \in ListText(k) : Keeps(k, a)

IInv ==
  /\ TypeOK /\ Texts /\ Loop /\ Offered /\ Progress /\ ListKept
  /\ SuccessMeansInstalled

-----------------------------------------------------------------------------
(* The invariant holds initially and is kept by every step.                *)

\* Nothing is installed, listed or offered at the start.
LEMMA InitInv == Init => IInv
<1> SUFFICES ASSUME Init PROVE IInv
  OBVIOUS
<1>1. TypeOK
  <2>1. listed = [k \in Kinds |-> {}] /\ installs \in 0..MaxInstalls
    BY InstallAssumption DEF Init
  <2>2. embedded \in BOOLEAN /\ generating \in BOOLEAN /\ hasty \in BOOLEAN
    BY Zenon DEF Init
  <2> QED BY <2>1, <2>2 DEF Init, TypeOK
<1>2. Texts /\ Loop /\ Offered /\ Progress /\ SuccessMeansInstalled
  BY DEF Init, Texts, Loop, Offered, Progress, SuccessMeansInstalled, Looping, Loaded,
     OverlayText
<1>3. ListKept
  BY DEF Init, ListKept, ListText
<1> QED BY <1>1, <1>2, <1>3 DEF IInv

\* A new installation starts: nothing it needs is done, and what is listed stays.
LEMMA BeginStep ==
  ASSUME NEW a \in Apps, IInv, Begin(a)
  PROVE  IInv'
<1>1. TypeOK'
  BY InstallAssumption DEF Begin, files, broker, IInv, TypeOK, Stages
<1>2. Texts'
  BY DEF Begin, Texts
<1>3. Loop'
  BY DEF Begin, Loop
<1>4. Offered'
  BY DEF Begin, files, IInv, Offered, OverlayText, Looping
<1>5. Progress'
  BY DEF Begin, Progress
<1>6. ListKept'
  BY DEF Begin, files, IInv, ListKept, Keeps, OverlayText, ListText
<1>7. SuccessMeansInstalled'
  BY DEF Begin, SuccessMeansInstalled
<1> QED BY <1>1, <1>2, <1>3, <1>4, <1>5, <1>6, <1>7 DEF IInv

\* A kill leaves a truncated file, which `torn' remembers.
LEMMA KillStep ==
  ASSUME IInv, Kill
  PROVE  IInv'
<1>1. TypeOK'
  BY DEF Kill, memory, files, broker, IInv, TypeOK
<1>2. Texts'
  BY DEF Kill, Texts
<1>3. Loop'
  BY DEF Kill, Loop, Looping, Loaded
<1>4. Offered'
  BY DEF Kill, files, IInv, Offered, OverlayText, Looping, Loaded, Open
<1>5. Progress'
  BY DEF Kill, Progress
<1>6. ListKept'
  BY DEF Kill, files, IInv, Texts, ListKept, Keeps, OverlayText, ListText, Open
<1>7. SuccessMeansInstalled'
  BY DEF Kill, SuccessMeansInstalled
<1> QED BY <1>1, <1>2, <1>3, <1>4, <1>5, <1>6, <1>7 DEF IInv

\* No file is open at a stage that can fail.
LEMMA GiveUpStep ==
  ASSUME IInv, GiveUp
  PROVE  IInv'
<1>1. TypeOK'
  BY DEF GiveUp, Fail, memory, files, broker, IInv, TypeOK
<1>2. Texts'
  BY DEF GiveUp, Fail, Texts
<1>3. Loop'
  BY DEF GiveUp, Fail, Loop, Looping, Loaded
<1>4. Offered'
  BY DEF GiveUp, MayFail, Fail, files, IInv, Offered, OverlayText, Looping, Loaded
<1>5. Progress'
  BY DEF GiveUp, Fail, Progress
<1>6. ListKept'
  BY DEF GiveUp, MayFail, Fail, files, IInv, ListKept, Keeps, OverlayText, ListText
<1>7. SuccessMeansInstalled'
  BY DEF GiveUp, Fail, SuccessMeansInstalled
<1> QED BY <1>1, <1>2, <1>3, <1>4, <1>5, <1>6, <1>7 DEF IInv

\* The image is there from now on.
LEMMA PullStep ==
  ASSUME IInv, Pull
  PROVE  IInv'
<1>1. TypeOK'
  BY DEF Pull, Goto, memory, mapping, broker, IInv, TypeOK, Stages
<1>2. Texts'
  BY DEF Pull, Goto, Texts
<1>3. Loop'
  BY DEF Pull, Goto, memory, IInv, Loop
<1>4. Offered'
  BY DEF Pull, Goto, mapping, IInv, Offered, OverlayText, Looping, Loaded
<1>5. Progress'
  BY DEF Pull, Goto, memory, Progress
<1>6. ListKept'
  BY DEF Pull, Goto, mapping, IInv, ListKept, Keeps, OverlayText, ListText
<1>7. SuccessMeansInstalled'
  BY DEF Pull, Goto, SuccessMeansInstalled
<1> QED BY <1>1, <1>2, <1>3, <1>4, <1>5, <1>6, <1>7 DEF IInv

\* Only the configuration of the app itself is truncated.
LEMMA OpenConfigStep ==
  ASSUME IInv, OpenConfig
  PROVE  IInv'
<1>1. TypeOK'
  BY DEF OpenConfig, Goto, memory, mapping, broker, IInv, TypeOK, Stages
<1>2. Texts'
  BY DEF OpenConfig, Goto, Texts
<1>3. Loop'
  BY DEF OpenConfig, Goto, memory, IInv, Loop
<1>4. Offered'
  BY DEF OpenConfig, Goto, mapping, IInv, Offered, OverlayText, Looping, Loaded
<1>5. Progress'
  BY DEF OpenConfig, Goto, memory, IInv, Progress
<1>6. ListKept'
  BY DEF OpenConfig, Goto, memory, mapping, IInv, ListKept, Keeps, OverlayText, ListText
<1>7. SuccessMeansInstalled'
  BY DEF OpenConfig, Goto, SuccessMeansInstalled
<1> QED BY <1>1, <1>2, <1>3, <1>4, <1>5, <1>6, <1>7 DEF IInv

\* A vehicle app has nothing to be mapped.
LEMMA SaveConfigStep ==
  ASSUME IInv, SaveConfig
  PROVE  IInv'
<1>1. TypeOK'
  BY DEF SaveConfig, Goto, memory, mapping, broker, IInv, TypeOK, Stages
<1>2. Texts'
  BY DEF SaveConfig, Goto, Texts
<1>3. Loop'
  BY DEF SaveConfig, Goto, memory, IInv, Loop
<1>4. Offered'
  BY DEF SaveConfig, Goto, mapping, IInv, Offered, OverlayText, Looping, Loaded
<1>5. Progress'
  BY DEF SaveConfig, Goto, memory, kind, IInv, Progress, Service
<1>6. ListKept'
  BY DEF SaveConfig, Goto, mapping, IInv, ListKept, Keeps, OverlayText, ListText
<1>7. SuccessMeansInstalled'
  BY DEF SaveConfig, Goto, SuccessMeansInstalled
<1> QED BY <1>1, <1>2, <1>3, <1>4, <1>5, <1>6, <1>7 DEF IInv

\* In embedded mode nothing is mapped.
LEMMA DownloadStep ==
  ASSUME IInv, Download
  PROVE  IInv'
<1>1. TypeOK'
  BY DEF Download, Goto, memory, mapping, broker, IInv, TypeOK, Stages
<1>2. Texts'
  BY DEF Download, Goto, Texts
<1>3. Loop'
  BY DEF Download, Goto, memory, IInv, Loop
<1>4. Offered'
  BY DEF Download, Goto, mapping, IInv, Offered, OverlayText, Looping, Loaded
<1>5. Progress'
  BY DEF Download, Goto, memory, IInv, Progress, Service
<1>6. ListKept'
  BY DEF Download, Goto, mapping, IInv, ListKept, Keeps, OverlayText, ListText
<1>7. SuccessMeansInstalled'
  BY DEF Download, Goto, SuccessMeansInstalled
<1> QED BY <1>1, <1>2, <1>3, <1>4, <1>5, <1>6, <1>7 DEF IInv

\* The list in memory is the one on disk.
LEMMA LoadSupportedStep ==
  ASSUME IInv, LoadSupported
  PROVE  IInv'
<1>1. TypeOK'
  BY DEF LoadSupported, Goto, files, broker, IInv, TypeOK, Stages
<1>2. Texts'
  BY DEF LoadSupported, Goto, Texts
<1>3. Loop'
  BY DEF LoadSupported, Goto, IInv, Loop
<1>4. Offered'
  BY DEF LoadSupported, Goto, files, IInv, Offered, OverlayText, OverlayNext
<1>5. Progress'
  BY DEF LoadSupported, Goto, files, IInv, Loop, Progress, MappingDone, Mapped, Supported
<1>6. ListKept'
  BY DEF LoadSupported, Goto, files, IInv, ListKept, Keeps, OverlayText, ListText
<1>7. SuccessMeansInstalled'
  BY DEF LoadSupported, Goto, SuccessMeansInstalled
<1> QED BY <1>1, <1>2, <1>3, <1>4, <1>5, <1>6, <1>7 DEF IInv

\* The overlay is in memory while it is truncated.
LEMMA OpenOverlayStep ==
  ASSUME IInv, OpenOverlay
  PROVE  IInv'
<1>1. TypeOK'
  BY InstallAssumption DEF OpenOverlay, Goto, broker, IInv, TypeOK, Stages
<1>2. Texts'
  BY DEF OpenOverlay, Goto, IInv, TypeOK, Texts
<1>3. Loop'
  BY DEF OpenOverlay, Goto, IInv, Loop, OverlayNext, DefaultsText, Looping, Loaded
<1>4. Offered'
  BY DEF OpenOverlay, Goto, IInv, Offered, OverlayText, OverlayNext, Looping, Loaded
<1>5. Progress'
  BY DEF OpenOverlay, Goto, IInv, Progress
<1>6. ListKept'
  BY DEF OpenOverlay, Goto, IInv, ListKept, Keeps, OverlayText, ListText
<1>7. SuccessMeansInstalled'
  BY DEF OpenOverlay, Goto, SuccessMeansInstalled
<1> QED BY <1>1, <1>2, <1>3, <1>4, <1>5, <1>6, <1>7 DEF IInv

\* The overlay has one API more than before.
LEMMA SaveOverlayStep ==
  ASSUME IInv, SaveOverlay
  PROVE  IInv'
<1>1. TypeOK'
  BY InstallAssumption DEF SaveOverlay, NextSignal, Goto, memory, broker, IInv, TypeOK,
     Texts, Stages
<1>2. Texts'
  BY DEF SaveOverlay, NextSignal, Goto, Texts
<1>3. Loop'
  BY DEF SaveOverlay, NextSignal, Goto, memory, IInv, Loop, OverlayNext, DefaultsText,
     Looping, Loaded
<1>4. Offered'
  BY DEF SaveOverlay, Goto, memory, IInv, Offered, OverlayText, OverlayNext, Looping, Loaded
<1>5. Progress'
  BY DEF SaveOverlay, NextSignal, Goto, memory, IInv, Progress
<1>6. ListKept'
  BY DEF SaveOverlay, NextSignal, Goto, IInv, ListKept, Keeps, OverlayText, ListText
<1>7. SuccessMeansInstalled'
  BY DEF SaveOverlay, NextSignal, Goto, SuccessMeansInstalled
<1> QED BY <1>1, <1>2, <1>3, <1>4, <1>5, <1>6, <1>7 DEF IInv

\* The CAN defaults are in memory while they are truncated.
LEMMA OpenDefaultsStep ==
  ASSUME IInv, OpenDefaults
  PROVE  IInv'
<1>1. TypeOK'
  BY DEF OpenDefaults, Goto, broker, IInv, TypeOK, Stages
<1>2. Texts'
  BY DEF OpenDefaults, Goto, IInv, TypeOK, Texts
<1>3. Loop'
  BY DEF OpenDefaults, Goto, IInv, Loop, OverlayNext, DefaultsText, Looping, Loaded
<1>4. Offered'
  BY DEF OpenDefaults, Goto, IInv, Offered, OverlayText, OverlayNext, Looping, Loaded
<1>5. Progress'
  BY DEF OpenDefaults, Goto, IInv, Progress
<1>6. ListKept'
  BY DEF OpenDefaults, Goto, IInv, ListKept, Keeps, OverlayText, ListText
<1>7. SuccessMeansInstalled'
  BY DEF OpenDefaults, Goto, SuccessMeansInstalled
<1> QED BY <1>1, <1>2, <1>3, <1>4, <1>5, <1>6, <1>7 DEF IInv

\* The CAN defaults have the signal as well.
LEMMA SaveDefaultsStep ==
  ASSUME IInv, SaveDefaults
  PROVE  IInv'
<1>1. TypeOK'
  BY InstallAssumption DEF SaveDefaults, NextSignal, Goto, memory, broker, IInv, TypeOK,
     Texts, Stages
<1>2. Texts'
  BY DEF SaveDefaults, NextSignal, Goto, Texts
<1>3. Loop'
  BY DEF SaveDefaults, NextSignal, Goto, memory, IInv, Loop, OverlayNext, DefaultsText,
     Looping, Loaded
<1>4. Offered'
  BY DEF SaveDefaults, NextSignal, Goto, memory, IInv, Offered, OverlayText, OverlayNext,
     Looping, Loaded
<1>5. Progress'
  BY DEF SaveDefaults, NextSignal, Goto, memory, IInv, Progress
<1>6. ListKept'
  BY DEF SaveDefaults, NextSignal, Goto, IInv, ListKept, Keeps, OverlayText, ListText
<1>7. SuccessMeansInstalled'
  BY DEF SaveDefaults, NextSignal, Goto, SuccessMeansInstalled
<1> QED BY <1>1, <1>2, <1>3, <1>4, <1>5, <1>6, <1>7 DEF IInv

\* The list in memory has all that was on disk.
LEMMA OpenSupportedStep ==
  ASSUME IInv, OpenSupported
  PROVE  IInv'
<1>1. TypeOK'
  BY DEF OpenSupported, Goto, memory, broker, IInv, TypeOK, Stages
<1>2. Texts'
  BY DEF OpenSupported, Goto, Texts
<1>3. Loop'
  BY DEF OpenSupported, Goto, memory, IInv, Loop, OverlayNext, DefaultsText, Looping, Loaded
<1>4. Offered'
  BY DEF OpenSupported, Goto, memory, IInv, Offered, OverlayNext, Looping, Loaded
<1>5. Progress'
  BY DEF OpenSupported, Goto, memory, IInv, Progress
<1>6. ListKept'
  BY DEF OpenSupported, Goto, memory, IInv, Offered, ListKept, Keeps, OverlayText,
     ListText, Looping
<1>7. SuccessMeansInstalled'
  BY DEF OpenSupported, Goto, SuccessMeansInstalled
<1> QED BY <1>1, <1>2, <1>3, <1>4, <1>5, <1>6, <1>7 DEF IInv

\* The list on disk is the one from memory, all of which is in the overlay.
LEMMA SaveSupportedStep ==
  ASSUME IInv, SaveSupported
  PROVE  IInv'
<1>1. TypeOK'
  BY DEF SaveSupported, Goto, memory, broker, IInv, TypeOK, Stages
<1>2. Texts'
  BY DEF SaveSupported, Goto, Texts
<1>3. Loop'
  BY DEF SaveSupported, Goto, Loop, Looping, Loaded
<1>4. Offered'
  BY DEF SaveSupported, Goto, IInv, Offered, OverlayText, OverlayNext, Looping, Loaded
<1>5. Progress'
  BY InstallAssumption DEF SaveSupported, Goto, memory, IInv, TypeOK, Loop, Progress,
     OverlayNext, DefaultsText, Loaded, MappingDone, Mapped, Supported
<1>6. ListKept'
  BY InstallAssumption DEF SaveSupported, Goto, IInv, TypeOK, ListKept, Keeps, OverlayText,
     ListText
<1>7. SuccessMeansInstalled'
  BY DEF SaveSupported, Goto, SuccessMeansInstalled
<1> QED BY <1>1, <1>2, <1>3, <1>4, <1>5, <1>6, <1>7 DEF IInv

\* vss.json will be written.
LEMMA RestartVssgenStep ==
  ASSUME IInv, RestartVssgen
  PROVE  IInv'
<1>1. TypeOK'
  BY DEF RestartVssgen, Goto, memory, files, IInv, TypeOK, Stages
<1>2. Texts'
  BY DEF RestartVssgen, Goto, Texts
<1>3. Loop'
  BY DEF RestartVssgen, Goto, Loop, Looping, Loaded
<1>4. Offered'
  BY DEF RestartVssgen, Goto, files, IInv, Offered, OverlayText, Looping, Loaded
<1>5. Progress'
  BY DEF RestartVssgen, Goto, memory, files, IInv, Progress, MappingDone, Mapped, Supported
<1>6. ListKept'
  BY DEF RestartVssgen, Goto, files, IInv, ListKept, Keeps, OverlayText, ListText
<1>7. SuccessMeansInstalled'
  BY DEF RestartVssgen, Goto, SuccessMeansInstalled
<1> QED BY <1>1, <1>2, <1>3, <1>4, <1>5, <1>6, <1>7 DEF IInv

\* vss.json has the whole overlay.
LEMMA GenerateStep ==
  ASSUME IInv, Generate
  PROVE  IInv'
<1>0. /\ generating' = FALSE /\ vss' = overlay
      /\ UNCHANGED <<embedded, pc, memory, files, served, hasty, result, installs, torn>>
  BY Zenon DEF Generate
<1>1. TypeOK'
  BY <1>0 DEF memory, files, IInv, TypeOK
<1>2. Texts'
  BY <1>0 DEF memory, files, kind, IInv, Texts
<1>3. Loop'
  BY <1>0 DEF memory, files, kind, IInv, Loop, OverlayNext, DefaultsText
<1>4. Offered'
  BY <1>0 DEF memory, files, IInv, Offered, OverlayNext, OverlayText
<1>5. Progress'
  BY <1>0 DEF memory, files, kind, IInv, Progress, Service, MappingDone, BrokerDone,
     Mapped, Supported
<1>6. ListKept'
  BY <1>0 DEF memory, files, kind, IInv, ListKept, Keeps, OverlayText, ListText
<1>7. SuccessMeansInstalled'
  BY <1>0 DEF memory, files, kind, IInv, SuccessMeansInstalled, Mapped, Supported
<1> QED BY <1>1, <1>2, <1>3, <1>4, <1>5, <1>6, <1>7 DEF IInv

\* The databroker is down.
LEMMA StopBrokerStep ==
  ASSUME IInv, StopBroker
  PROVE  IInv'
<1>1. TypeOK'
  BY DEF StopBroker, Goto, memory, files, IInv, TypeOK, Stages
<1>2. Texts'
  BY DEF StopBroker, Goto, Texts
<1>3. Loop'
  BY DEF StopBroker, Goto, Loop, Looping, Loaded
<1>4. Offered'
  BY DEF StopBroker, Goto, files, IInv, Offered, OverlayText, Looping, Loaded
<1>5. Progress'
  BY DEF StopBroker, Goto, memory, files, IInv, Progress, MappingDone, Mapped, Supported
<1>6. ListKept'
  BY DEF StopBroker, Goto, files, IInv, ListKept, Keeps, OverlayText, ListText
<1>7. SuccessMeansInstalled'
  BY DEF StopBroker, Goto, SuccessMeansInstalled
<1> QED BY <1>1, <1>2, <1>3, <1>4, <1>5, <1>6, <1>7 DEF IInv

\* The databroker serves vss.json.
LEMMA StartBrokerStep ==
  ASSUME IInv, StartBroker
  PROVE  IInv'
<1>1. TypeOK'
  BY DEF StartBroker, Goto, memory, files, IInv, TypeOK, Stages
<1>2. Texts'
  BY DEF StartBroker, Goto, Texts
<1>3. Loop'
  BY DEF StartBroker, Goto, Loop, Looping, Loaded
<1>4. Offered'
  BY DEF StartBroker, Goto, files, IInv, Offered, OverlayText, Looping, Loaded
<1>5. Progress'
  BY InstallAssumption DEF StartBroker, Goto, memory, files, IInv, TypeOK, Progress,
     MappingDone, BrokerDone, Mapped, Supported
<1>6. ListKept'
  BY DEF StartBroker, Goto, files, IInv, ListKept, Keeps, OverlayText, ListText
<1>7. SuccessMeansInstalled'
  BY DEF StartBroker, Goto, SuccessMeansInstalled
<1> QED BY <1>1, <1>2, <1>3, <1>4, <1>5, <1>6, <1>7 DEF IInv

\* Nothing modelled changes.
LEMMA RestartUiStep ==
  ASSUME IInv, RestartUi
  PROVE  IInv'
<1>1. TypeOK'
  BY DEF RestartUi, Goto, memory, files, broker, IInv, TypeOK, Stages
<1>2. Texts'
  BY DEF RestartUi, Goto, Texts
<1>3. Loop'
  BY DEF RestartUi, Goto, Loop, Looping, Loaded
<1>4. Offered'
  BY DEF RestartUi, Goto, files, IInv, Offered, OverlayText, Looping, Loaded
<1>5. Progress'
  BY DEF RestartUi, Goto, memory, files, broker, IInv, Progress, MappingDone, BrokerDone,
     Mapped, Supported
<1>6. ListKept'
  BY DEF RestartUi, Goto, files, IInv, ListKept, Keeps, OverlayText, ListText
<1>7. SuccessMeansInstalled'
  BY DEF RestartUi, Goto, SuccessMeansInstalled
<1> QED BY <1>1, <1>2, <1>3, <1>4, <1>5, <1>6, <1>7 DEF IInv

\* The list is in memory while it is truncated.
LEMMA OpenListStep ==
  ASSUME IInv, OpenList
  PROVE  IInv'
<1>1. TypeOK'
  BY InstallAssumption DEF OpenList, Goto, mapping, broker, kind, IInv, TypeOK, Stages
<1>2. Texts'
  BY InstallAssumption DEF OpenList, Goto, kind, IInv, TypeOK, Texts
<1>3. Loop'
  BY DEF OpenList, Goto, Loop, Looping, Loaded
<1>4. Offered'
  BY DEF OpenList, Goto, mapping, IInv, Offered, OverlayText, Looping, Loaded
<1>5. Progress'
  BY DEF OpenList, Goto, mapping, broker, kind, IInv, Progress, Service, MappingDone,
     BrokerDone, Mapped, Supported
<1>6. ListKept'
  BY DEF OpenList, Goto, mapping, kind, IInv, ListKept, Keeps, OverlayText, ListText
<1>7. SuccessMeansInstalled'
  BY DEF OpenList, Goto, SuccessMeansInstalled
<1> QED BY <1>1, <1>2, <1>3, <1>4, <1>5, <1>6, <1>7 DEF IInv

\* The app is listed, and everything was done.
LEMMA SaveListStep ==
  ASSUME IInv, SaveList
  PROVE  IInv'
<1>1. TypeOK'
  BY DEF SaveList, memory, mapping, broker, IInv, TypeOK, Texts
<1>2. Texts'
  BY DEF SaveList, Texts
<1>3. Loop'
  BY DEF SaveList, Loop, Looping, Loaded
<1>4. Offered'
  BY DEF SaveList, mapping, IInv, Offered, OverlayText, Looping, Loaded
<1>5. Progress'
  BY DEF SaveList, Progress
<1>6. ListKept'
  BY InstallAssumption DEF SaveList, mapping, IInv, Texts, Progress, ListKept, Keeps,
     OverlayText, ListText, Service, MappingDone, Mapped, Supported
<1>7. SuccessMeansInstalled'
  BY InstallAssumption DEF SaveList, memory, mapping, broker, kind, IInv, TypeOK, Texts,
     Progress, SuccessMeansInstalled, Service, MappingDone, BrokerDone, Mapped, Supported
<1> QED BY <1>1, <1>2, <1>3, <1>4, <1>5, <1>6, <1>7 DEF IInv

\* A step that changes nothing.
LEMMA Stutter ==
  ASSUME IInv, UNCHANGED vars
  PROVE  IInv'
<1>1. TypeOK'
  BY DEF IInv, vars, memory, files, broker, TypeOK
<1>2. Texts'
  BY DEF IInv, vars, memory, files, broker, Texts, kind
<1>3. Loop'
  BY DEF IInv, vars, memory, files, broker, Loop, Loaded, Looping, OverlayNext, DefaultsText
<1>4. Offered'
  BY DEF IInv, vars, memory, files, broker, Offered, Loaded, Looping, OverlayNext,
     OverlayText
<1>5. Progress'
  BY DEF IInv, vars, memory, files, broker, Progress, MappingDone, Mapped, Supported,
     BrokerDone, Service, kind
<1>6. ListKept'
  BY DEF IInv, vars, memory, files, broker, ListKept, ListText, Keeps, OverlayText, kind
<1>7. SuccessMeansInstalled'
  BY DEF IInv, vars, memory, files, broker, SuccessMeansInstalled, Mapped, Supported, kind
<1> QED BY <1>1, <1>2, <1>3, <1>4, <1>5, <1>6, <1>7 DEF IInv

\* Every step keeps the invariant.
LEMMA StepInv == IInv /\ [Next]_vars => IInv'
<1> SUFFICES ASSUME IInv, [Next]_vars PROVE IInv'
  OBVIOUS
<1>1. CASE \E a \in Apps : Begin(a)
  BY <1>1, BeginStep
<1>2. CASE Kill \/ GiveUp
  BY <1>2, KillStep, GiveUpStep
<1>3. CASE Pull \/ OpenConfig \/ SaveConfig \/ Download
  BY <1>3, PullStep, OpenConfigStep, SaveConfigStep, DownloadStep
<1>4. CASE LoadSupported \/ OpenOverlay \/ SaveOverlay \/ OpenDefaults \/ SaveDefaults
  BY <1>4, LoadSupportedStep, OpenOverlayStep, SaveOverlayStep, OpenDefaultsStep,
     SaveDefaultsStep
<1>5. CASE OpenSupported \/ SaveSupported
  BY <1>5, OpenSupportedStep, SaveSupportedStep
<1>6. CASE RestartVssgen \/ Generate \/ StopBroker \/ StartBroker \/ RestartUi
  BY <1>6, RestartVssgenStep, GenerateStep, StopBrokerStep, StartBrokerStep, RestartUiStep
<1>7. CASE OpenList \/ SaveList
  BY <1>7, OpenListStep, SaveListStep
<1>8. CASE UNCHANGED vars
  BY <1>8, Stutter
<1> QED BY <1>1, <1>2, <1>3, <1>4, <1>5, <1>6, <1>7, <1>8 DEF Next

-----------------------------------------------------------------------------
(* The theorems.                                                           *)

\* The inductive invariant holds of every installation, failure and kill.
THEOREM Invariance == Spec => []IInv
  BY InitInv, StepInv, PTL DEF Spec

\* Every variable keeps its type (main.py and the scripts it runs).
THEOREM TypeCorrect == Spec => []TypeOK
<1>1. IInv => TypeOK
  BY DEF IInv
<1> QED BY <1>1, Invariance, PTL

\* An installation that ends with a success has done all of its work, whatever
\* earlier ones left behind (main.py to its last line).
THEOREM SuccessIsComplete == Spec => []SuccessMeansInstalled
<1>1. IInv => SuccessMeansInstalled
  BY DEF IInv
<1> QED BY <1>1, Invariance, PTL

\* A listed app keeps what it needs, but for a file that an installation was
\* killed with open (main.py, updateappmgrfile.py).
THEOREM ListedIsKept == Spec => []ListedStaysReady
<1>1. IInv => ListedStaysReady
  BY DEF IInv, Texts, ListKept, ListText, Keeps, OverlayText, ListedStaysReady, Mapped,
     Supported, Kinds
<1> QED BY <1>1, Invariance, PTL

\* No API is offered that the overlay lacks, unless the overlay was torn
\* (save_supported_vss_api after the loop over modify_vss_entry).
THEOREM OfferedIsMapped == Spec => []SupportedIsMapped
<1>1. IInv => SupportedIsMapped
  BY DEF IInv, Offered, OverlayText, SupportedIsMapped
<1> QED BY <1>1, Invariance, PTL
=============================================================================
