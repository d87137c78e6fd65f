----------------------------- MODULE IviMainProofs -----------------------------
(***************************************************************************)
(* Proofs about IviMain, for any signals, any values that other programs   *)
(* set, and any number of changes.                                         *)
(***************************************************************************)
EXTENDS IviMain, TLAPS

-----------------------------------------------------------------------------
(* The inductive invariant.                                                *)

\* What a light is set to, and is told of, is a truth value.
LightsTyped ==
  \A s \in Lights : target[s] \in {0, 1, Unset} /\ echoes[s] \in Seq({0, 1})

\* What Write changes has its type.
Written ==
  /\ current \in [Signals -> Values \cup {Unset}] /\ target \in [Signals -> Values \cup {Unset}]
  /\ echoes \in [Signals -> Seq(Values)]
  /\ missed \in [Signals -> BOOLEAN]
  /\ LightsTyped

ControlsInv == ControlsTypeOK /\ LightsTyped

\* What QProcess has seen of the child bounds what the child may be doing, and
\* what was reported of it.
Starting ==
  state = "Starting" => /\ child \in {"starting", "failed", "running", "ended"}
                        /\ started = 0 /\ stopped = 0 /\ errors <= 1
Running ==
  state = "Running" => /\ child \in {"running", "ended"}
                       /\ errors <= 1
                       /\ stopped = 0 \/ ui \in {"destroy", "over", "crashed"}
NotRunning ==
  state = "NotRunning" => child \in {"none", "failed", "ended"} /\ stopped >= started

\* Where main() is says what it has done.
Where ==
  /\ ui = "start" => state = "NotRunning" /\ child = "none"
                     /\ started = 0 /\ stopped = 0 /\ errors = 0
  /\ ui = "waitStarted" => state = "Starting" /\ errors = 0
  /\ ui \in {"terminating", "killing"} => state = "Running"
  /\ ui \in {"destroy", "over"} => stopped >= started

ProcessTyped ==
  /\ ui \in {"start", "waitStarted", "load", "loop", "over", "crashed"} \cup Leaving
  /\ child \in {"none", "starting", "failed", "running", "ended"}
  /\ crash \in BOOLEAN /\ killed \in BOOLEAN /\ (crash => child = "ended")
  /\ state \in {"NotRunning", "Starting", "Running"}
  /\ started \in 0..1 /\ stopped \in 0..2 /\ errors \in 0..3

ProcessInv ==
  /\ ProcessTyped
  /\ Starting /\ Running /\ NotRunning /\ Where
  /\ NoOrphan

IInv == ControlsInv /\ ProcessInv

-----------------------------------------------------------------------------
(* The values.                                                             *)

\* What a widget shows fits its kind.
LEMMA ShownFits ==
  ASSUME NEW s \in Signals, NEW v \in Values
  PROVE  /\ Shown(s, v) \in Values
         /\ s \in Fans => Shown(s, v) <= 100
         /\ s \in Lights /\ v \in {0, 1} => Shown(s, v) \in {0, 1}
  BY ControlsAssumption DEF Shown, Values

\* What is written for a slider is a multiple of ten that does not wrap.
LEMMA SettingFits ==
  ASSUME NEW s \in Signals, NEW v \in Values
  PROVE  /\ Setting(s, v) \in Values
         /\ s \in Fans /\ v <= 100 => Setting(s, v) \in {10 * n : n \in 0..10}
         /\ s \in Lights => Setting(s, v) = v
<1>1. ASSUME s \in Fans, v <= 100
      PROVE  Setting(s, v) \in {10 * n : n \in 0..10}
  <2>1. (v + 5) \div 10 \in 0..10
    BY <1>1 DEF Values
  <2>2. Setting(s, v) = 10 * ((v + 5) \div 10)
    BY <1>1, <2>1 DEF Setting
  <2> QED BY <2>1, <2>2
<1>2. Setting(s, v) \in Values
  BY DEF Setting, Values
<1>3. s \in Lights => Setting(s, v) = v
  BY ControlsAssumption DEF Setting
<1> QED BY <1>1, <1>2, <1>3

-----------------------------------------------------------------------------
(* The controls.                                                           *)

\* A write, failed or not, keeps the broker's values typed.
LEMMA WriteTyped ==
  ASSUME ControlsInv, NEW s \in Signals, NEW v \in Values, NEW queue \in Seq(Values),
         s \in Lights => v \in {0, 1} /\ queue \in Seq({0, 1}),
         Write(s, v, queue)
  PROVE  Written'
<1>1. ASSUME NEW q \in Told(s, v, queue)
      PROVE  q \in Seq(Values) /\ (s \in Lights => q \in Seq({0, 1}))
  BY <1>1 DEF Told
<1>2. PICK q \in Seq(Values) : /\ s \in Lights => q \in Seq({0, 1})
                              /\ echoes' = [echoes EXCEPT ![s] = q]
  <2>1. CASE echoes' = [echoes EXCEPT ![s] = queue]
    BY <2>1
  <2>2. CASE \E q \in Told(s, v, queue) : echoes' = [echoes EXCEPT ![s] = q]
    BY <2>2, <1>1
  <2> QED BY <2>1, <2>2 DEF Write
<1>3. current' \in {current, [current EXCEPT ![s] = v]}
  BY DEF Write
<1>4. target' \in {target, [target EXCEPT ![s] = v]}
  BY DEF Write
<1>5. missed' \in [Signals -> BOOLEAN]
  <2>1. missed' \in {missed, [missed EXCEPT ![s] = TRUE], [missed EXCEPT ![s] = FALSE]}
    BY DEF Write
  <2> QED BY <2>1 DEF ControlsInv, ControlsTypeOK
<1>6. /\ current' \in [Signals -> Values \cup {Unset}]
      /\ target' \in [Signals -> Values \cup {Unset}]
  BY <1>3, <1>4 DEF ControlsInv, ControlsTypeOK
<1>7. echoes' \in [Signals -> Seq(Values)]
  BY <1>2 DEF ControlsInv, ControlsTypeOK
<1>8. ASSUME NEW l \in Lights
      PROVE  target'[l] \in {0, 1, Unset} /\ echoes'[l] \in Seq({0, 1})
  <2>1. l \in Signals
    BY ControlsAssumption
  <2> QED BY <2>1, <1>2, <1>4 DEF ControlsInv, ControlsTypeOK, LightsTyped
<1> QED BY <1>5, <1>6, <1>7, <1>8 DEF Written, LightsTyped

\* The page's own state.
LEMMA InvFromWritten ==
  ASSUME Written', connected' \in BOOLEAN, subscribed' \subseteq Signals,
         pressed' \subseteq Fans, writes' \in 0..MaxWrites,
         shown' \in [Signals -> Values], \A s \in Fans : shown'[s] <= 100,
         \A s \in Lights : shown'[s] \in {0, 1}
  PROVE  ControlsInv'
  BY DEF Written, ControlsInv, ControlsTypeOK

\* A widget set to a value of its kind leaves all widgets typed.
LEMMA ShownTyped ==
  ASSUME ControlsInv, NEW s \in Signals, NEW v \in Values,
         s \in Fans => v <= 100, s \in Lights => v \in {0, 1},
         shown' = [shown EXCEPT ![s] = v]
  PROVE  /\ shown' \in [Signals -> Values]
         /\ \A f \in Fans : shown'[f] <= 100
         /\ \A l \in Lights : shown'[l] \in {0, 1}
<1>1. shown' \in [Signals -> Values]
  BY DEF ControlsInv, ControlsTypeOK
<1>2. Fans \subseteq Signals /\ Lights \subseteq Signals
  BY ControlsAssumption
<1>3. \A f \in Fans : shown'[f] <= 100
  BY <1>2 DEF ControlsInv, ControlsTypeOK
<1>4. \A l \in Lights : shown'[l] \in {0, 1}
  BY <1>2 DEF ControlsInv, ControlsTypeOK
<1> QED BY <1>1, <1>3, <1>4

\* A subscription begins with the target there is.
LEMMA SubscribeInv ==
  ASSUME ControlsInv, NEW s \in Signals, Subscribe(s)
  PROVE  ControlsInv'
<1>1. CASE target[s] = Unset
  BY <1>1 DEF Subscribe, ControlsInv, ControlsTypeOK, LightsTyped
<1>2. CASE target[s] # Unset
  <2>1. target[s] \in Values /\ (s \in Lights => target[s] \in {0, 1})
    BY <1>2 DEF ControlsInv, ControlsTypeOK, LightsTyped
  <2>2. /\ <<target[s]>> \in Seq(Values)
        /\ s \in Lights => <<target[s]>> \in Seq({0, 1})
    BY <2>1
  <2>3. echoes' = [echoes EXCEPT ![s] = <<target[s]>>]
    BY <1>2 DEF Subscribe
  <2>4. \A l \in Lights : echoes'[l] \in Seq({0, 1})
    <3> SUFFICES ASSUME NEW l \in Lights PROVE echoes'[l] \in Seq({0, 1})
      OBVIOUS
    <3>1. l \in Signals /\ echoes \in [Signals -> Seq(Values)]
      BY ControlsAssumption DEF ControlsInv, ControlsTypeOK
    <3>2. echoes'[l] = IF l = s THEN <<target[s]>> ELSE echoes[l]
      BY <2>3, <3>1
    <3> QED BY <2>2, <3>2 DEF ControlsInv, LightsTyped
  <2>5. echoes' \in [Signals -> Seq(Values)]
    BY <2>2, <2>3 DEF ControlsInv, ControlsTypeOK
  <2> QED BY <2>4, <2>5 DEF Subscribe, ControlsInv, ControlsTypeOK, LightsTyped
<1> QED BY <1>1, <1>2

\* Another program sets a value the signal can have.
LEMMA OtherWritesInv ==
  ASSUME ControlsInv, NEW s \in Signals, NEW v \in Others[s], OtherWrites(s, v)
  PROVE  ControlsInv'
<1>1. v \in Values /\ (s \in Lights => v \in {0, 1})
  BY ControlsAssumption DEF Values
<1>2. echoes[s] \in Seq(Values) /\ (s \in Lights => echoes[s] \in Seq({0, 1}))
  BY DEF ControlsInv, ControlsTypeOK, LightsTyped
<1>3. PICK q \in Told(s, v, echoes[s]) : echoes' = [echoes EXCEPT ![s] = q]
  BY DEF OtherWrites
<1>4. q \in Seq(Values) /\ (s \in Lights => q \in Seq({0, 1}))
  BY <1>1, <1>2 DEF Told
<1>5. echoes' \in [Signals -> Seq(Values)] /\ target' \in [Signals -> Values \cup {Unset}]
  BY <1>1, <1>3, <1>4 DEF OtherWrites, ControlsInv, ControlsTypeOK
<1>6. ASSUME NEW l \in Lights
      PROVE  target'[l] \in {0, 1, Unset} /\ echoes'[l] \in Seq({0, 1})
  <2>1. l \in Signals
    BY ControlsAssumption
  <2>2. target' = [target EXCEPT ![s] = v]
    BY DEF OtherWrites
  <2> QED BY <2>1, <2>2, <1>1, <1>3, <1>4 DEF ControlsInv, ControlsTypeOK, LightsTyped
<1>7. writes' \in 0..MaxWrites
  BY ControlsAssumption DEF OtherWrites, ControlsInv, ControlsTypeOK
<1> QED BY <1>5, <1>6, <1>7 DEF OtherWrites, ControlsInv, ControlsTypeOK, LightsTyped

\* A widget that is set at start shows a target of its kind.
LEMMA ReadTargetsInv ==
  ASSUME ControlsInv, ReadTargets
  PROVE  ControlsInv'
<1>1. PICK keeps \in BOOLEAN :
        shown' = [s \in Signals |->
          LET lights  == ValueRead(s, keeps) \cap Lights
              numbers == ValueRead(s, keeps) \ Lights
          IN CASE s \in Lights -> IF \E r \in lights : target[r] = 1 THEN 1 ELSE 0
               [] s \notin Lights /\ numbers # {} ->
                    Shown(s, target[CHOOSE r \in numbers : TRUE])
               [] OTHER -> shown[s]]
  BY DEF ReadTargets
<1>2. ASSUME NEW s \in Signals
      PROVE  /\ shown'[s] \in Values
             /\ s \in Fans => shown'[s] <= 100
             /\ s \in Lights => shown'[s] \in {0, 1}
  <2> DEFINE numbers == ValueRead(s, keeps) \ Lights
  <2>1. \A r \in numbers : target[r] \in Values
    <3>1. \A r \in numbers : r \in Signals /\ target[r] # Unset
      BY DEF ValueRead, Signals
    <3>2. \A r \in Signals : target[r] \in Values \cup {Unset}
      BY DEF ControlsInv, ControlsTypeOK
    <3> QED BY <3>1, <3>2
  <2>2. CASE s \in Lights
    <3>1. shown'[s] \in {0, 1}
      BY <1>1, <2>2
    <3>2. s \notin Fans
      BY <2>2, ControlsAssumption
    <3> QED BY <3>1, <3>2 DEF Values
  <2>3. CASE s \notin Lights /\ numbers # {}
    <3> DEFINE r == CHOOSE r \in numbers : TRUE
    <3>1. target[r] \in Values
      BY <2>1, <2>3
    <3>2. shown'[s] = Shown(s, target[r])
      BY <1>1, <2>3
    <3> HIDE DEF r
    <3> QED BY <2>3, <3>1, <3>2, ShownFits
  <2>4. CASE s \notin Lights /\ numbers = {}
    <3>1. shown'[s] = shown[s]
      BY <1>1, <2>4
    <3> QED BY <2>4, <3>1 DEF ControlsInv, ControlsTypeOK
  <2> QED BY <2>2, <2>3, <2>4
<1>3. DOMAIN shown' = Signals /\ shown' = [s \in Signals |-> shown'[s]]
  BY <1>1
<1>4. shown' \in [Signals -> Values]
  <2>1. \A s \in Signals : shown'[s] \in Values
    BY <1>2
  <2> QED BY <1>3, <2>1
<1>5. (\A f \in Fans : shown'[f] <= 100) /\ (\A l \in Lights : shown'[l] \in {0, 1})
  BY <1>2, ControlsAssumption
<1>6. UNCHANGED <<connected, subscribed, pressed, current, target, echoes, missed, writes>>
  BY DEF ReadTargets
<1> QED BY <1>4, <1>5, <1>6 DEF ControlsInv, ControlsTypeOK, LightsTyped
\* A change by the user is a change to a value of the widget's kind, and is
\* written as one.
LEMMA ChangeInv ==
  ASSUME ControlsInv, NEW s \in Signals, NEW v \in Values,
         s \in Fans => v <= 100, s \in Lights => v \in {0, 1},
         writes < MaxWrites, writes' = writes + 1,
         shown' = [shown EXCEPT ![s] = v],
         Write(s, Setting(s, v), echoes[s]),
         UNCHANGED <<connected, subscribed, pressed>>
  PROVE  ControlsInv'
<1>1. Setting(s, v) \in Values /\ (s \in Lights => Setting(s, v) \in {0, 1})
  BY SettingFits
<1>2. echoes[s] \in Seq(Values) /\ (s \in Lights => echoes[s] \in Seq({0, 1}))
  BY DEF ControlsInv, ControlsTypeOK, LightsTyped
<1>3. Written'
  BY <1>1, <1>2, WriteTyped
<1>4. /\ shown' \in [Signals -> Values]
      /\ \A f \in Fans : shown'[f] <= 100
      /\ \A l \in Lights : shown'[l] \in {0, 1}
  BY ShownTyped
<1>5. writes' \in 0..MaxWrites
  BY ControlsAssumption DEF ControlsInv, ControlsTypeOK
<1>6. connected' \in BOOLEAN /\ subscribed' \subseteq Signals /\ pressed' \subseteq Fans
  BY DEF ControlsInv, ControlsTypeOK
<1> QED BY <1>3, <1>4, <1>5, <1>6, InvFromWritten

\* Whatever the user does is a change as above, or a slider taken or let go.
LEMMA UserStepInv ==
  ASSUME ControlsInv, UserStep
  PROVE  ControlsInv'
<1>1. ASSUME NEW s \in Signals, NEW v \in 0..3, Click(s, v)
      PROVE  ControlsInv'
  <2>1. (s \in Lights /\ v = 1 - shown[s]) \/ s \in Seats
    BY <1>1 DEF Click
  <2>2. s \in Lights => shown[s] \in {0, 1}
    BY DEF ControlsInv, ControlsTypeOK
  <2>3. v \in Values
    BY DEF Values
  <2>4. s \notin Fans /\ (s \in Lights => v \in {0, 1})
    BY <2>1, <2>2, ControlsAssumption
  <2> QED BY <1>1, <2>3, <2>4, ChangeInv DEF Click
<1>2. ASSUME NEW s \in Signals, NEW v \in Drags, Drag(s, v)
      PROVE  ControlsInv'
  <2>1. v \in Values /\ v <= 100
    BY ControlsAssumption DEF Values
  <2>2. s \notin Lights
    BY <1>2, ControlsAssumption DEF Drag, ControlsInv, ControlsTypeOK
  <2> QED BY <1>2, <2>1, <2>2, ChangeInv DEF Drag
<1>3. ASSUME NEW s \in Signals, Press(s) \/ Release(s)
      PROVE  ControlsInv'
  BY <1>3 DEF Press, Release, ControlsInv, ControlsTypeOK, LightsTyped
<1> QED BY <1>1, <1>2, <1>3 DEF UserStep

\* What comes from the broker is shown, and written back while a slider is held.
LEMMA DeliverInv ==
  ASSUME ControlsInv, NEW s \in Signals, Deliver(s)
  PROVE  ControlsInv'
<1> DEFINE v == Shown(s, Head(echoes[s]))
<1>1. echoes[s] \in Seq(Values) /\ echoes[s] # <<>>
  BY DEF Deliver, ControlsInv, ControlsTypeOK
<1>2. Head(echoes[s]) \in Values /\ Tail(echoes[s]) \in Seq(Values)
  BY <1>1
<1>3. ASSUME s \in Lights
      PROVE  Head(echoes[s]) \in {0, 1} /\ Tail(echoes[s]) \in Seq({0, 1})
  <2>1. echoes[s] \in Seq({0, 1})
    BY <1>3 DEF ControlsInv, LightsTyped
  <2> QED BY <1>1, <2>1
<1>4. v \in Values /\ (s \in Fans => v <= 100) /\ (s \in Lights => v \in {0, 1})
  BY <1>2, <1>3, ShownFits
<1>5. shown' = [shown EXCEPT ![s] = v]
  BY DEF Deliver
<1>6. /\ shown' \in [Signals -> Values]
      /\ \A f \in Fans : shown'[f] <= 100
      /\ \A l \in Lights : shown'[l] \in {0, 1}
  <2> HIDE DEF v
  <2> QED BY <1>4, <1>5, ShownTyped
<1>7. Written'
  <2>1. CASE s \in pressed /\ v # shown[s]
    <3>1. Write(s, Setting(s, v), Tail(echoes[s]))
      BY <2>1 DEF Deliver
    <3>2. Setting(s, v) \in Values /\ (s \in Lights => Setting(s, v) \in {0, 1})
      <4> HIDE DEF v
      <4> QED BY <1>4, SettingFits
    <3> HIDE DEF v
    <3> QED BY <1>2, <1>3, <3>1, <3>2, WriteTyped
  <2>2. CASE ~(s \in pressed /\ v # shown[s])
    <3>1. /\ echoes' = [echoes EXCEPT ![s] = Tail(@)]
          /\ missed' = [missed EXCEPT ![s] = FALSE]
          /\ UNCHANGED <<current, target>>
      BY <2>2 DEF Deliver
    <3>2. ASSUME NEW l \in Lights
          PROVE  echoes'[l] \in Seq({0, 1})
      <4>1. l \in Signals
        BY ControlsAssumption
      <4> QED BY <1>3, <3>1, <4>1 DEF ControlsInv, ControlsTypeOK, LightsTyped
    <3>3. echoes' \in [Signals -> Seq(Values)]
      BY <1>2, <3>1 DEF ControlsInv, ControlsTypeOK
    <3> QED BY <3>1, <3>2, <3>3 DEF Written, ControlsInv, ControlsTypeOK, LightsTyped
  <2> QED BY <2>1, <2>2
<1>8. /\ connected' \in BOOLEAN /\ subscribed' \subseteq Signals /\ pressed' \subseteq Fans
      /\ writes' \in 0..MaxWrites
  BY DEF Deliver, ControlsInv, ControlsTypeOK
<1> QED BY <1>6, <1>7, <1>8, InvFromWritten

\* A thread of the client that the page has not outlived takes an echo away.
LEMMA LateCallbackInv ==
  ASSUME ControlsInv, LateCallback
  PROVE  ControlsInv'
<1>1. PICK s \in Signals : echoes[s] # <<>> /\ echoes' = [echoes EXCEPT ![s] = Tail(@)]
  BY DEF LateCallback
<1>2. echoes[s] \in Seq(Values)
  BY DEF ControlsInv, ControlsTypeOK
<1>3. Tail(echoes[s]) \in Seq(Values)
  BY <1>1, <1>2
<1>4. echoes' \in [Signals -> Seq(Values)]
  BY <1>1, <1>3 DEF ControlsInv, ControlsTypeOK
<1>5. ASSUME NEW l \in Lights
      PROVE  echoes'[l] \in Seq({0, 1})
  <2>1. l \in Signals
    BY ControlsAssumption
  <2>2. echoes[l] \in Seq({0, 1})
    BY DEF ControlsInv, LightsTyped
  <2>3. s = l => Tail(echoes[l]) \in Seq({0, 1})
    BY <1>1, <2>2
  <2> QED BY <1>1, <2>1, <2>2, <2>3 DEF ControlsInv, ControlsTypeOK
<1>6. UNCHANGED <<connected, subscribed, shown, pressed, current, target, missed, writes>>
  BY DEF LateCallback
<1> QED BY <1>4, <1>5, <1>6 DEF ControlsInv, ControlsTypeOK, LightsTyped

\* Nothing is set at first.
LEMMA ControlsAtInit == ControlsInit => ControlsInv
  BY ControlsAssumption DEF ControlsInit, ControlsInv, ControlsTypeOK, LightsTyped, Values

\* Every step of main() keeps the controls typed.
LEMMA ControlsNext ==
  ASSUME ControlsInv, [Next]_vars
  PROVE  ControlsInv'
<1>1. CASE UNCHANGED controls
  BY <1>1 DEF controls, ControlsInv, ControlsTypeOK, LightsTyped
<1>2. CASE Load
  BY <1>1, <1>2, ReadTargetsInv DEF Load
<1>3. CASE DeliverInLoop
  BY <1>3, DeliverInv DEF DeliverInLoop
<1>4. CASE InLoop
  BY <1>4, UserStepInv DEF InLoop
<1>5. CASE Broker
  BY <1>5, SubscribeInv, OtherWritesInv DEF Broker, BrokerStep
<1>6. CASE LateCallback
  BY <1>6, LateCallbackInv
<1>7. CASE ChildRuns \/ ChildEnds \/ StartManager \/ Started \/ NotStarted
           \/ LateStart \/ OnManagerFinished \/ Quit
  BY <1>1, <1>7 DEF ChildRuns, ChildEnds, StartManager, Started, NotStarted, LateStart,
                    OnManagerFinished, Quit
<1>8. CASE Leave
  BY <1>1, <1>8 DEF Leave, StopManager, Terminated, TerminateTimesOut, KillTimesOut, Destroy
<1>9. CASE UNCHANGED vars
  BY <1>1, <1>9 DEF vars
<1> QED BY <1>2, <1>3, <1>4, <1>5, <1>6, <1>7, <1>8, <1>9 DEF Next
-----------------------------------------------------------------------------
(* The process of dk-manager and what is reported of it.                   *)

\* Nothing is started and nothing reported at first.
LEMMA ProcessInit == Init => ProcessInv
<1> SUFFICES ASSUME Init PROVE ProcessInv
  OBVIOUS
<1>1. ProcessTyped
  <2>1. crash \in BOOLEAN /\ killed \in BOOLEAN /\ (crash => child = "ended")
    BY DEF Init
  <2>2. started \in 0..1 /\ stopped \in 0..2 /\ errors \in 0..3
    BY DEF Init
  <2> QED BY <2>1, <2>2 DEF Init, ProcessTyped
<1>2. Starting /\ Running /\ NotRunning /\ Where /\ NoOrphan
  BY DEF Init, Starting, Running, NotRunning, Where, NoOrphan
<1> QED BY <1>1, <1>2 DEF ProcessInv

\* The child starts, fails to, or ends, and QProcess has not noticed.
LEMMA ChildStep ==
  ASSUME ProcessInv, ChildRuns \/ ChildEnds
  PROVE  ProcessInv'
<1>1. CASE ChildRuns
  BY <1>1 DEF ChildRuns, reports, ProcessInv, ProcessTyped, Starting, Running, NotRunning,
              Where, NoOrphan, Leaving
<1>2. CASE ChildEnds
  BY <1>2 DEF ChildEnds, reports, ProcessInv, ProcessTyped, Starting, Running, NotRunning,
              Where, NoOrphan, Leaving
<1> QED BY <1>1, <1>2

\* Up to the event loop no stop is reported, and a start only with a child.
LEMMA StartStep ==
  ASSUME ProcessInv, StartManager \/ Started \/ NotStarted \/ Load
  PROVE  ProcessInv'
<1>1. CASE StartManager
  BY <1>1 DEF StartManager, ProcessInv, ProcessTyped, Starting, Running, NotRunning, Where,
              NoOrphan, Leaving
<1>2. CASE Started
  BY <1>2 DEF Started, process, ProcessInv, ProcessTyped, Starting, Running, NotRunning,
              Where, NoOrphan, Leaving
<1>3. CASE NotStarted
  BY <1>3 DEF NotStarted, process, ProcessInv, ProcessTyped, Starting, Running, NotRunning,
              Where, NoOrphan, Leaving
<1>4. CASE Load
  BY <1>4 DEF Load, process, reports, ProcessInv, ProcessTyped, Starting, Running,
     NotRunning,
              Where, NoOrphan, Leaving
<1> QED BY <1>1, <1>2, <1>3, <1>4

\* In the event loop QProcess catches up with the child.
LEMMA LoopStep ==
  ASSUME ProcessInv, LateStart \/ OnManagerFinished
  PROVE  ProcessInv'
<1>1. CASE LateStart
  BY <1>1 DEF LateStart, process, ProcessInv, ProcessTyped, Starting, Running, NotRunning,
              Where, NoOrphan, Leaving
<1>2. CASE OnManagerFinished
  BY <1>2 DEF OnManagerFinished, Finished, process, ProcessInv, ProcessTyped, Starting,
     Running,
              NotRunning, Where, NoOrphan, Leaving
<1> QED BY <1>1, <1>2

\* On the way out a child that was started is reported stopped, and is gone.
LEMMA LeaveStep ==
  ASSUME ProcessInv, Leave
  PROVE  ProcessInv'
<1>1. CASE StopManager
  BY <1>1 DEF StopManager, process, reports, ProcessInv, ProcessTyped, Starting, Running,
              NotRunning, Where, NoOrphan, Leaving
<1>2. CASE Terminated
  BY <1>2 DEF Terminated, Finished, process, ProcessInv, ProcessTyped, Starting, Running,
              NotRunning, Where, NoOrphan, Leaving
<1>3. CASE TerminateTimesOut
  BY <1>3 DEF TerminateTimesOut, reports, ProcessInv, ProcessTyped, Starting, Running,
              NotRunning, Where, NoOrphan, Leaving
<1>4. CASE KillTimesOut
  BY <1>4 DEF KillTimesOut, process, ProcessInv, ProcessTyped, Starting, Running,
              NotRunning, Where, NoOrphan, Leaving
<1>5. CASE Destroy
  BY <1>5 DEF Destroy, reports, ProcessInv, ProcessTyped, Starting, Running,
              NotRunning, Where, NoOrphan, Leaving
<1> QED BY <1>1, <1>2, <1>3, <1>4, <1>5 DEF Leave

\* What is left does not touch the process.
LEMMA OtherStep ==
  ASSUME ProcessInv,
         DeliverInLoop \/ InLoop \/ Quit \/ Broker \/ LateCallback \/ UNCHANGED vars
  PROVE  ProcessInv'
<1>1. UNCHANGED <<process, state, reports>>
  BY DEF DeliverInLoop, InLoop, Quit, Broker, LateCallback, vars
<1>2. ui' = ui \/ (ui = "loop" /\ ui' = "stop") \/ ui' = "crashed"
  BY DEF DeliverInLoop, InLoop, Quit, Broker, LateCallback, vars
<1> QED BY <1>1, <1>2 DEF process, reports, ProcessInv, ProcessTyped, Starting, Running,
                          NotRunning, Where, NoOrphan, Leaving

\* Every step keeps what is known of the child.
LEMMA ProcessNext ==
  ASSUME ProcessInv, [Next]_vars
  PROVE  ProcessInv'
  BY ChildStep, StartStep, LoopStep, LeaveStep, OtherStep DEF Next

-----------------------------------------------------------------------------
(* The theorems.                                                           *)

(* What QProcess knows of the child and what the broker and the widgets    *)
(* hold stay consistent, in every behaviour of main().                     *)
THEOREM Invariance == Spec => []IInv
<1>1. Init => IInv
  BY ControlsAtInit, ProcessInit DEF Init, IInv
<1>2. IInv /\ [Next]_vars => IInv'
  BY ControlsNext, ProcessNext DEF IInv
<1> QED BY <1>1, <1>2, PTL DEF Spec

(* The state of the UI keeps its types for any signals and values.         *)
THEOREM TypeCorrect == Spec => []TypeOK
<1>1. IInv => TypeOK
  BY DEF IInv, ControlsInv, ProcessInv, ProcessTyped, Running, TypeOK
<1> QED BY <1>1, Invariance, PTL

(* dk-manager does not outlive the UI (dkmanager_subprocess.cpp:26): QProcess *)
(* knows enough of the child for its destructor to do the rest.            *)
THEOREM NoChildSurvives == Spec => []NoOrphan
<1>1. IInv => NoOrphan
  BY DEF IInv, ProcessInv
<1> QED BY <1>1, Invariance, PTL

(* Every reported start is followed by the report of a stop.               *)
THEOREM StopsAreReported == Spec => []StartsAreStopped
<1>1. IInv => StartsAreStopped
  BY DEF IInv, ProcessInv, Where, StartsAreStopped
<1> QED BY <1>1, Invariance, PTL

\* What a write leaves in a fan's current value.
LEMMA WriteInRange ==
  ASSUME ControlsInv, NEW s \in Signals, NEW v \in Values, NEW queue, NEW f \in Fans,
         s \in Fans => v <= 100,
         Write(s, Setting(s, v), queue), current'[f] # current[f]
  PROVE  current'[f] \in {10 * n : n \in 0..10}
<1>1. current' = [current EXCEPT ![s] = Setting(s, v)]
  BY DEF Write
<1>2. f = s /\ current'[f] = Setting(s, v)
  BY <1>1 DEF ControlsInv, ControlsTypeOK
<1> QED BY <1>2, SettingFits

(* No write of a fan speed wraps in its eight bits, for any slider position *)
(* and anything other programs set.                                        *)
THEOREM FanSpeedsFit == Spec => WrittenInRange
<1>1. ASSUME IInv, [Next]_vars, NEW f \in Fans, current'[f] # current[f]
      PROVE  current'[f] \in {10 * n : n \in 0..10}
  <2>1. ASSUME NEW s \in Signals, NEW v \in 0..3, Click(s, v)
        PROVE  current'[f] \in {10 * n : n \in 0..10}
    <3>1. v \in Values /\ v <= 100
      BY DEF Values
    <3> QED BY <1>1, <2>1, <3>1, WriteInRange DEF Click, IInv
  <2>2. ASSUME NEW s \in Signals, NEW v \in Drags, Drag(s, v)
        PROVE  current'[f] \in {10 * n : n \in 0..10}
    <3>1. v \in Values /\ v <= 100
      BY ControlsAssumption DEF Values
    <3> QED BY <1>1, <2>2, <3>1, WriteInRange DEF Drag, IInv
  <2>3. ASSUME NEW s \in Signals, Deliver(s)
        PROVE  current'[f] \in {10 * n : n \in 0..10}
    <3> DEFINE v == Shown(s, Head(echoes[s]))
    <3>1. Head(echoes[s]) \in Values
      BY <1>1, <2>3 DEF Deliver, IInv, ControlsInv, ControlsTypeOK
    <3>2. v \in Values /\ (s \in Fans => v <= 100)
      BY <3>1, ShownFits
    <3>3. Write(s, Setting(s, v), Tail(echoes[s]))
      BY <1>1, <2>3 DEF Deliver
    <3> HIDE DEF v
    <3> QED BY <1>1, <3>2, <3>3, WriteInRange DEF IInv
  <2>4. \/ \E s \in Signals, v \in 0..3 : Click(s, v)
        \/ \E s \in Signals, v \in Drags : Drag(s, v)
        \/ \E s \in Signals : Deliver(s)
    <3>1. current' # current
      BY <1>1
    <3>2. DeliverInLoop \/ InLoop
      BY <1>1, <3>1
      DEF Next, vars, controls, ChildRuns, ChildEnds, StartManager, Started, NotStarted,
        Load,
          ReadTargets, LateStart, OnManagerFinished, Quit, Broker, BrokerStep, Subscribe,
          OtherWrites, LateCallback, Leave, StopManager, Terminated, TerminateTimesOut,
          KillTimesOut, Destroy
    <3> QED BY <3>1, <3>2 DEF DeliverInLoop, InLoop, UserStep, Press, Release
  <2> QED BY <2>1, <2>2, <2>3, <2>4
<1>2. IInv /\ [Next]_vars =>
        [\A s \in Fans : current'[s] # current[s] => current'[s] \in {10 * n : n \in 0..10}]_vars
  BY <1>1
<1> QED BY <1>2, Invariance, PTL DEF Spec, WrittenInRange
=============================================================================
