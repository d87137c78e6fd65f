------------------------------- MODULE Controls -------------------------------
(***************************************************************************)
(* The vehicle controls of the in-vehicle UI (controls.cpp, controls.qml)  *)
(* over the databroker client (vapiclient.cpp): buttons for lights, three  *)
(* buttons for the seat, sliders for the fans.  A widget is written to the *)
(* broker when the user changes it and is set again by the subscription to *)
(* the target value: the broker tells a thread of the client, which posts  *)
(* an event to the GUI thread.  `echoes' is what is under way of a signal. *)
(*                                                                         *)
(* Truth values are 0 and 1.  A slider is 0..100, a fan's signal one byte. *)
(***************************************************************************)
EXTENDS Naturals, Sequences

CONSTANTS Order,       \* the signals, in the order init() reads them
          Lights, Seats, Fans,
          Drags,       \* where a slider is dragged to
          Others,      \* [Signals -> sets of values]: what other programs set
          Unset,       \* the target of a signal nobody has set
          MaxWrites    \* bound: changes by the user and by other programs

Signals == {Order[i] : i \in DOMAIN Order}

ASSUME ControlsAssumption ==
  /\ Signals = Lights \cup Seats \cup Fans
  /\ Lights \cap (Seats \cup Fans) = {} /\ Seats \cap Fans = {}
  /\ Drags \subseteq 0..100
  /\ Others \in [Signals -> SUBSET (0..255)] /\ \A s \in Lights : Others[s] \subseteq {0, 1}
  /\ \A v \in 0..255 : v # Unset
  /\ MaxWrites \in Nat

VARIABLES
  connected,  \* the endpoint configured is the one the page asks for
  subscribed, \* signals whose subscription has begun
  shown,      \* the state of each widget
  pressed,    \* sliders the user holds
  current, target, \* the broker's values
  echoes,     \* [Signals -> Seq(0..255)]: target values on the way to the page
  missed,     \* history: the last write of the signal failed and nothing came since
  writes

controls == <<connected, subscribed, shown, pressed, current, target, echoes, missed,
  writes>>

Values == 0..255

ControlsTypeOK ==
  /\ connected \in BOOLEAN /\ subscribed \subseteq Signals /\ pressed \subseteq Fans
  /\ shown \in [Signals -> Values] /\ \A s \in Fans : shown[s] <= 100
  /\ \A s \in Lights : shown[s] \in {0, 1}
  /\ current \in [Signals -> Values \cup {Unset}] /\ target \in [Signals -> Values \cup {Unset}]
  /\ echoes \in [Signals -> Seq(Values)]
  /\ missed \in [Signals -> BOOLEAN] /\ writes \in 0..MaxWrites

ControlsInit ==
  /\ connected \in BOOLEAN /\ subscribed = {} /\ pressed = {}
  /\ shown = [s \in Signals |-> 0]
  /\ current = [s \in Signals |-> Unset] /\ target = [s \in Signals |-> Unset]
  /\ echoes = [s \in Signals |-> <<>>] /\ missed = [s \in Signals |-> FALSE]
  /\ writes = 0

\* Mutant: a slider that takes any value.
ShownAny(s, v) == IF s \in Fans THEN 10 * (v \div 10) ELSE v

\* How a widget shows a value; a slider keeps within its ends.
Shown(s, v) ==
  IF s \notin Fans THEN v
  ELSE IF v > 100 THEN 100 ELSE 10 * (v \div 10)

\* What is written for a widget that shows v: Math.round(v / 10), then times
\* ten in eight bits.
Setting(s, v) == IF s \in Fans THEN (10 * ((v + 5) \div 10)) % 256 ELSE v

\* The new queue of a signal whose target is set to v; the broker tells of a
\* change, and may or may not tell of a value that is the same.
Told(s, v, queue) ==
  IF s \notin subscribed THEN {queue}
  ELSE {Append(queue, v)} \cup (IF v = target[s] THEN {queue} ELSE {})

-----------------------------------------------------------------------------
\* setCurrentValue and setTargetValue, each of which may fail unnoticed.
Write(s, v, queue) ==
  IF ~connected
  THEN UNCHANGED <<current, target, missed>> /\ echoes' = [echoes EXCEPT ![s] = queue]
  ELSE /\ current' \in {current, [current EXCEPT ![s] = v]}
       /\ \/ /\ target' = [target EXCEPT ![s] = v]
             /\ \E q \in Told(s, v, queue) : echoes' = [echoes EXCEPT ![s] = q]
             /\ missed' = [missed EXCEPT ![s] = FALSE]
          \/ /\ missed' = [missed EXCEPT ![s] = TRUE]
             /\ echoes' = [echoes EXCEPT ![s] = queue]
             /\ UNCHANGED target

\* A call that found no client, or a thread of it, begins: the broker tells
\* it the target there is.
Subscribe(s) ==
  /\ connected /\ s \notin subscribed
  /\ subscribed' = subscribed \cup {s}
  /\ echoes' = IF target[s] = Unset THEN echoes ELSE [echoes EXCEPT ![s] = <<target[s]>>]
  /\ UNCHANGED <<connected, shown, pressed, current, target, missed, writes>>

\* Another program sets the target.
OtherWrites(s, v) ==
  /\ writes < MaxWrites /\ writes' = writes + 1
  /\ target' = [target EXCEPT ![s] = v]
  /\ \E q \in Told(s, v, echoes[s]) : echoes' = [echoes EXCEPT ![s] = q]
  /\ UNCHANGED <<connected, subscribed, shown, pressed, current, missed>>

-----------------------------------------------------------------------------
(* The GUI thread.                                                         *)

Position(s) == CHOOSE i \in DOMAIN Order : Order[i] = s

\* init() reads all targets into one string `val'; a read that fails leaves
\* what the one before it left, or, with keeps = FALSE, nothing.  The signal, if
\* any, that `val' is of when s is set.
ValueRead(s, keeps) ==
  LET from == {i \in DOMAIN Order :
                 /\ connected /\ target[Order[i]] # Unset
                 /\ i = Position(s) \/ (keeps /\ i < Position(s))}
  IN {Order[i] : i \in {j \in from : \A k \in from : k <= j}}

\* A light is on if the string is "true"; std::stoi throws for an empty string
\* and for a truth value, and the widget stays as it is.
ReadTargets ==
  \E keeps \in BOOLEAN :
    /\ shown' = [s \in Signals |->
         LET lights  == ValueRead(s, keeps) \cap Lights
             numbers == ValueRead(s, keeps) \ Lights
         IN CASE s \in Lights -> IF \E r \in lights : target[r] = 1 THEN 1 ELSE 0
              [] s \notin Lights /\ numbers # {} ->
                   Shown(s, target[CHOOSE r \in numbers : TRUE])
              [] OTHER -> shown[s]]
    /\ UNCHANGED <<connected, subscribed, pressed, current, target, echoes, missed, writes>>

\* A click on a light, or on one of the three buttons of the seat.
Click(s, v) ==
  /\ writes < MaxWrites /\ writes' = writes + 1
  /\ \/ s \in Lights /\ v = 1 - shown[s]
     \/ s \in Seats /\ v \in 1..3
  /\ shown' = [shown EXCEPT ![s] = v]
  /\ Write(s, Setting(s, v), echoes[s])
  /\ UNCHANGED <<connected, subscribed, pressed>>

Press(s) ==
  /\ s \in Fans \ pressed /\ pressed' = pressed \cup {s}
  /\ UNCHANGED <<connected, subscribed, shown, current, target, echoes, missed, writes>>

Release(s) ==
  /\ s \in pressed /\ pressed' = pressed \ {s}
  /\ UNCHANGED <<connected, subscribed, shown, current, target, echoes, missed, writes>>

\* onValueChanged
Drag(s, v) ==
  /\ s \in pressed /\ v # shown[s]
  /\ writes < MaxWrites /\ writes' = writes + 1
  /\ shown' = [shown EXCEPT ![s] = v]
  /\ Write(s, Setting(s, v), echoes[s])
  /\ UNCHANGED <<connected, subscribed, pressed>>

\* Mutant: an echo is not looked at while the slider is held.
FaultDeliver(s) ==
  /\ echoes[s] # <<>>
  /\ shown' = IF s \in pressed THEN shown
              ELSE [shown EXCEPT ![s] = Shown(s, Head(echoes[s]))]
  /\ echoes' = [echoes EXCEPT ![s] = Tail(@)]
  /\ missed' = [missed EXCEPT ![s] = FALSE]
  /\ UNCHANGED <<connected, subscribed, pressed, current, target, writes>>

\* vssSubsribeCallback and the handler it is posted to.  Setting a slider that
\* is held fires onValueChanged, which writes the value back.
Deliver(s) ==
  /\ echoes[s] # <<>>
  /\ LET v == Shown(s, Head(echoes[s]))
     IN /\ shown' = [shown EXCEPT ![s] = v]
        /\ IF s \in pressed /\ v # shown[s]
           THEN Write(s, Setting(s, v), Tail(echoes[s]))
           ELSE /\ echoes' = [echoes EXCEPT ![s] = Tail(@)]
                /\ missed' = [missed EXCEPT ![s] = FALSE]
                /\ UNCHANGED <<current, target>>
  /\ UNCHANGED <<connected, subscribed, pressed, writes>>

UserStep == \E s \in Signals :
  \/ \E v \in 0..3 : Click(s, v)
  \/ Press(s) \/ Release(s)
  \/ \E v \in Drags : Drag(s, v)

BrokerStep == \E s \in Signals : Subscribe(s) \/ \E v \in Others[s] : OtherWrites(s, v)
=============================================================================
