------------------------------ MODULE DbcFeeder ------------------------------
(***************************************************************************)
(* The CAN provider (dbcfeeder.py, databrokerclientwrapper.py): the main   *)
(* thread that starts everything and serves SIGINT and SIGTERM, the        *)
(* receiver thread (CAN to databroker), the transmitter thread (databroker *)
(* to CAN), and gRPC's thread that reports the connectivity of the client  *)
(* and replaces the whole process when it is told IDLE.                    *)
(*                                                                         *)
(* Both directions are on, as start.sh and main.py start it.  The values   *)
(* that travel are left out: what matters is who runs, who is told to      *)
(* stop, and whether each direction is served.                             *)
(***************************************************************************)
EXTENDS Naturals

CONSTANTS MaxSignals,  \* SIGINT and SIGTERM sent to one feeder
          MaxOutages   \* times the databroker stops

ASSUME FeederAssumption == MaxSignals \in Nat /\ MaxOutages \in Nat

VARIABLES
  main,        \* where the main thread is in start()
  handler,     \* the signal handler's call of stop(), which suspends start()
  running,     \* Feeder._running
  transmit,    \* Feeder._transmit
  registered,  \* Feeder._registered
  client,      \* DatabrokerClientWrapper._grpc_client is not None
  connected,   \* DatabrokerClientWrapper._connected
  receiver,    \* where _run_receiver is
  sender,      \* where _run_transmitter is
  subscribed,  \* the task that holds the subscription is alive
  channel,     \* connectivity of the client's channel
  seen,        \* the connectivity last reported to the callback
  restarting,  \* the callback sleeps before os.execv
  up,          \* the databroker runs
  defined,     \* the databroker knows all datapoints of the mapping
  told,        \* signals sent so far
  outages,     \* stops of the databroker so far
  early,       \* history: a stop() was over before the sender set _transmit
  cut,         \* history: a second signal broke off the handler's stop()
  unseen       \* history: a subscription was lost, and no IDLE tells of it

threads   == <<main, handler, receiver, sender>>
flags     == <<running, transmit, registered, early, cut>>
link      == <<client, connected, seen, restarting>>
broker    == <<channel, subscribed, up, defined, outages, unseen>>
vars      == <<threads, flags, link, broker, told>>

MainAt     == {"new", "client", "receiver", "sender", "join", "exiting", "ended"}
StopAt     == {"no", "close", "rest"}   \* the rest of stop(): CAN bus, _transmit
ReceiverAt == {"none", "loop", "check", "take", "close", "rest", "done"}
SenderAt   == {"none", "begun", "loop", "done"}
Channel    == {"SHUTDOWN", "IDLE", "READY", "FAILURE"}

TypeOK ==
  /\ main \in MainAt /\ handler \in StopAt
  /\ receiver \in ReceiverAt /\ sender \in SenderAt
  /\ running \in BOOLEAN /\ transmit \in BOOLEAN /\ registered \in BOOLEAN
  /\ client \in BOOLEAN /\ connected \in BOOLEAN /\ restarting \in BOOLEAN
  /\ subscribed \in BOOLEAN /\ up \in BOOLEAN /\ defined \in BOOLEAN
  /\ early \in BOOLEAN /\ cut \in BOOLEAN /\ unseen \in BOOLEAN
  /\ channel \in Channel /\ seen \in Channel
  /\ client <=> channel # "SHUTDOWN"   \* the channel lives as long as the client
  /\ told \in 0..MaxSignals /\ outages \in 0..MaxOutages

\* A process that has just been started (Feeder.__init__).
Init ==
  /\ main = "new" /\ handler = "no" /\ receiver = "none" /\ sender = "none"
  /\ running = FALSE /\ transmit = FALSE /\ registered = FALSE
  /\ early = FALSE /\ cut = FALSE
  /\ client = FALSE /\ connected = FALSE /\ seen = "SHUTDOWN" /\ restarting = FALSE
  /\ channel = "SHUTDOWN" /\ subscribed = FALSE /\ unseen = FALSE
  /\ up \in BOOLEAN /\ defined \in BOOLEAN
  /\ told = 0 /\ outages = 0

alive == main # "ended"

-----------------------------------------------------------------------------
(* The main thread: Feeder.start.  It rests while a signal handler runs.   *)

MainSteps == alive /\ handler = "no"

Enter ==
  /\ MainSteps /\ main = "new"
  /\ running' = TRUE
  /\ main' = "client"
  /\ UNCHANGED <<handler, receiver, sender, transmit, registered, early, cut,
                 link, broker, told>>

\* DatabrokerClientWrapper.start: authorize() is a call of the databroker and
\* raises without one; main() does not catch it and the process ends.
OpenClient ==
  /\ MainSteps /\ main = "client"
  /\ IF up
     THEN /\ client' = TRUE /\ channel' = "READY" /\ main' = "receiver"
     ELSE /\ main' = "ended"
          /\ UNCHANGED <<client, channel>>
  /\ UNCHANGED <<handler, receiver, sender, flags, connected, seen, restarting,
                 subscribed, up, defined, outages, unseen, told>>

StartReceiver ==
  /\ MainSteps /\ main = "receiver"
  /\ receiver' = "loop"
  /\ main' = "sender"
  /\ UNCHANGED <<handler, sender, flags, link, broker, told>>

StartSender ==
  /\ MainSteps /\ main = "sender"
  /\ sender' = "begun"
  /\ main' = "join"
  /\ UNCHANGED <<handler, receiver, flags, link, broker, told>>

\* start() has joined both threads, or, after sys.exit, the interpreter waits
\* for those that were started: they are not daemons.
End ==
  /\ MainSteps
  /\ \/ main = "join" /\ receiver = "done" /\ sender = "done"
     \/ main = "exiting" /\ receiver \in {"none", "done"} /\ sender \in {"none", "done"}
  /\ main' = "ended"
  /\ UNCHANGED <<handler, receiver, sender, flags, link, broker, told>>

-----------------------------------------------------------------------------
(* Feeder.stop, called by the signal handler and by the receiver: it       *)
(* clears _running, then closes the client, and clears _transmit last.     *)

\* Fault: the client is forgotten and its connection left open.
FaultCloseClient == client' = FALSE /\ UNCHANGED channel

CloseClient ==
  /\ client' = FALSE
  /\ channel' = IF client THEN "SHUTDOWN" ELSE channel

\* The last lines of stop().  `early' remembers that the sender had not set
\* _transmit yet, so that it will overwrite what stop() has just cleared.
StopSending ==
  /\ transmit' = FALSE
  /\ early' = (early \/ sender \in {"none", "begun"})

\* signal_handler.  The first signal calls stop(); a signal that finds
\* _running cleared raises SystemExit in the main thread, also in the middle
\* of the handler's own stop(), whose last lines then never run (`cut'); one
\* that comes while the interpreter waits for the threads breaks off that wait.
Signal ==
  /\ alive /\ told < MaxSignals
  /\ told' = told + 1
  /\ \/ /\ running
        /\ running' = FALSE /\ handler' = "close"
        /\ UNCHANGED <<main, cut>>
     \/ /\ ~running
        /\ main' = IF main = "exiting" THEN "ended" ELSE "exiting"
        /\ handler' = "no"
        /\ cut' = (cut \/ handler # "no")
        /\ UNCHANGED running
  /\ UNCHANGED <<receiver, sender, transmit, registered, early, link, broker>>

HandlerCloses ==
  /\ alive /\ handler = "close"
  /\ handler' = "rest"
  /\ CloseClient
  /\ UNCHANGED <<main, receiver, sender, flags, connected, seen, restarting,
                 subscribed, up, defined, outages, unseen, told>>

HandlerReturns ==
  /\ alive /\ handler = "rest"
  /\ handler' = "no"
  /\ StopSending
  /\ UNCHANGED <<main, receiver, sender, running, registered, cut, link, broker, told>>

-----------------------------------------------------------------------------
(* The receiver thread: Feeder._run_receiver.                              *)

\* Fault: without a connection the loop does not look at _running.
FaultReceiverTurn ==
  /\ alive /\ receiver = "loop"
  /\ IF connected /\ ~running
     THEN receiver' = "done" /\ UNCHANGED registered
     ELSE IF ~connected
          THEN registered' = FALSE /\ UNCHANGED receiver
          ELSE /\ receiver' = IF registered THEN "take" ELSE "check"
               /\ UNCHANGED registered
  /\ UNCHANGED <<main, handler, sender, running, transmit, early, cut, link, broker, told>>

\* One turn of the loop: over, waiting for the connection, checking the
\* datapoints, or taking an observation from the queue.
ReceiverTurn ==
  /\ alive /\ receiver = "loop"
  /\ IF ~running
     THEN receiver' = "done" /\ UNCHANGED registered
     ELSE IF ~connected
          THEN registered' = FALSE /\ UNCHANGED receiver
          ELSE /\ receiver' = IF registered THEN "take" ELSE "check"
               /\ UNCHANGED registered
  /\ UNCHANGED <<main, handler, sender, running, transmit, early, cut, link, broker, told>>

\* A call of the databroker reconnects an idle channel.  If its IDLE was never
\* reported, nobody learns that the connection was lost.
Call ==
  IF channel = "IDLE" /\ up
  THEN /\ channel' = "READY"
       /\ unseen' = (unseen \/ seen # "IDLE")
  ELSE UNCHANGED <<channel, unseen>>

\* _register_datapoints: any failure, also of the call, stops the feeder; a
\* client closed while it is used raises and ends the thread.
Check ==
  /\ alive /\ receiver = "check"
  /\ \/ /\ client /\ up /\ defined
        /\ registered' = TRUE /\ receiver' = "take"
        /\ Call
        /\ UNCHANGED running
     \/ /\ ~(client /\ up /\ defined)
        /\ running' = FALSE /\ receiver' = "close"
        /\ IF client THEN Call ELSE UNCHANGED <<channel, unseen>>
        /\ UNCHANGED registered
     \/ /\ ~client
        /\ receiver' = "done"
        /\ UNCHANGED <<running, registered, channel, unseen>>
  /\ UNCHANGED <<main, handler, sender, transmit, early, cut, link,
                 subscribed, up, defined, outages, told>>

\* The observation taken, if there was one, is ignored or sent; a failure to
\* send it loses it.
Take ==
  /\ alive /\ receiver = "take"
  /\ receiver' = "loop"
  /\ (client /\ Call) \/ UNCHANGED <<channel, unseen>>
  /\ UNCHANGED <<main, handler, sender, flags, link,
                 subscribed, up, defined, outages, told>>

ReceiverCloses ==
  /\ alive /\ receiver = "close"
  /\ receiver' = "rest"
  /\ CloseClient
  /\ UNCHANGED <<main, handler, sender, flags, connected, seen, restarting,
                 subscribed, up, defined, outages, unseen, told>>

ReceiverStopped ==
  /\ alive /\ receiver = "rest"
  /\ receiver' = "loop"
  /\ StopSending
  /\ UNCHANGED <<main, handler, sender, running, registered, cut, link, broker, told>>

-----------------------------------------------------------------------------
(* The transmitter thread: Feeder._run_transmitter.                        *)

\* The thread sets its own flag and starts the task that subscribes, which dies
\* at once if there is no databroker, or if it refuses one of the paths of the
\* mapping: nobody starts it again.
SenderBegins ==
  /\ alive /\ sender = "begun"
  /\ transmit' = TRUE
  /\ \/ subscribed' = up /\ UNCHANGED unseen
     \/ up /\ subscribed' = FALSE /\ unseen' = TRUE
  /\ sender' = "loop"
  /\ UNCHANGED <<main, handler, receiver, running, registered, early, cut, link,
                 channel, up, defined, outages, told>>

\* The callback computes the CAN signals of an update outside its try: an
\* exception there ends the task and the subscription with it.
CallbackFails ==
  /\ alive /\ sender = "loop" /\ subscribed
  /\ subscribed' = FALSE /\ unseen' = TRUE
  /\ UNCHANGED <<threads, flags, link, channel, up, defined, outages, told>>

SenderEnds ==
  /\ alive /\ sender = "loop" /\ ~transmit
  /\ subscribed' = FALSE
  /\ sender' = "done"
  /\ UNCHANGED <<main, handler, receiver, flags, link,
                 channel, up, defined, outages, unseen, told>>

-----------------------------------------------------------------------------
(* gRPC's thread: on_broker_connectivity_change.                           *)

\* Fault: IDLE is taken for a connection, as before the restart was added.
FaultReport ==
  /\ alive /\ client /\ ~restarting /\ seen # channel
  /\ seen' = channel
  /\ connected' = (channel \in {"READY", "IDLE"})
  /\ UNCHANGED <<threads, flags, client, restarting, broker, told>>

\* Fault: only the first report of a connection is acted on.
FaultReportOnce ==
  /\ alive /\ client /\ ~restarting /\ seen # channel
  /\ seen' = channel
  /\ CASE channel = "IDLE"  -> restarting' = TRUE /\ UNCHANGED connected
       [] channel = "READY" -> /\ connected' = (connected \/ seen = "SHUTDOWN")
                               /\ UNCHANGED restarting
       [] OTHER             -> connected' = FALSE /\ UNCHANGED restarting
  /\ UNCHANGED <<threads, flags, client, broker, told>>

Report ==
  /\ alive /\ client /\ ~restarting /\ seen # channel
  /\ seen' = channel
  /\ CASE channel = "IDLE"  -> restarting' = TRUE /\ UNCHANGED connected
       [] channel = "READY" -> connected' = TRUE /\ UNCHANGED restarting
       [] OTHER             -> connected' = FALSE /\ UNCHANGED restarting
  /\ UNCHANGED <<threads, flags, client, broker, told>>

\* os.execv, two seconds after IDLE was reported, whatever else has happened.
Exec ==
  /\ alive /\ restarting
  /\ main' = "new" /\ handler' = "no" /\ receiver' = "none" /\ sender' = "none"
  /\ running' = FALSE /\ transmit' = FALSE /\ registered' = FALSE
  /\ early' = FALSE /\ cut' = FALSE
  /\ client' = FALSE /\ connected' = FALSE /\ seen' = "SHUTDOWN" /\ restarting' = FALSE
  /\ channel' = "SHUTDOWN" /\ subscribed' = FALSE /\ unseen' = FALSE
  /\ UNCHANGED <<up, defined, told, outages>>

-----------------------------------------------------------------------------
(* The databroker and its connections (external).                          *)

\* A lost connection shows as IDLE or as a failure to reconnect; the
\* subscription, which has a connection of its own, ends with an error.
BrokerStops ==
  /\ up /\ outages < MaxOutages
  /\ up' = FALSE /\ outages' = outages + 1
  /\ subscribed' = FALSE
  /\ IF channel = "READY"
     THEN /\ channel' \in {"IDLE", "FAILURE"}
          /\ unseen' = (unseen \/ channel' = "FAILURE")
     ELSE UNCHANGED <<channel, unseen>>
  /\ UNCHANGED <<threads, flags, link, defined, told>>

\* It may come back with another vss.json.
BrokerStarts ==
  /\ ~up
  /\ up' = TRUE /\ defined' \in BOOLEAN
  /\ channel' = IF channel = "FAILURE" THEN "READY" ELSE channel
  /\ UNCHANGED <<threads, flags, link, subscribed, outages, unseen, told>>

-----------------------------------------------------------------------------
Main     == Enter \/ OpenClient \/ StartReceiver \/ StartSender \/ End
Handler  == HandlerCloses \/ HandlerReturns
Receiver == ReceiverTurn \/ Check \/ Take \/ ReceiverCloses \/ ReceiverStopped
Sender   == SenderBegins \/ SenderEnds

Next == \/ Main \/ Handler \/ Receiver \/ Sender \/ Report \/ Exec
        \/ Signal \/ CallbackFails \/ BrokerStops \/ BrokerStarts

\* Every thread runs on; nobody has to send signals or restart the databroker,
\* and no callback has to fail.
Fairness ==
  /\ WF_vars(Main) /\ WF_vars(Handler) /\ WF_vars(Receiver) /\ WF_vars(Sender)
  /\ WF_vars(Report) /\ WF_vars(Exec)

Spec == Init /\ [][Next]_vars /\ Fairness

-----------------------------------------------------------------------------
(* Properties.                                                             *)

\* A transmitter that is served by no subscription while the feeder runs is about
\* to be replaced: its connection shows IDLE, or the restart is pending.  Excepted is
\* a subscription whose end no IDLE tells of: it was refused, its callback failed, or
\* the loss was reported otherwise (_run_transmitter, on_broker_connectivity_change).
LostSubscriptionNoticed ==
  sender = "loop" /\ running /\ ~unseen => subscribed \/ channel = "IDLE" \/ restarting

\* A feeder told to stop, by a signal or by itself, ends: both threads notice,
\* whatever they are doing, and start() returns.  Three things are excepted: a stop()
\* that was over before the transmitter set its own flag, a stop() of the signal
\* handler that a second signal broke off, and a restart that was pending
\* (dbcfeeder.py, stop, signal_handler, _run_receiver, _run_subscribe).
StopEnds ==
  (main # "new" /\ ~running /\ ~early /\ ~cut)
    ~> (main \in {"new", "ended"} \/ early \/ cut)

\* What dbcfeeder.py says of a second signal: "If we get told to shutdown a second
\* time. Just do it."  A feeder that shuts down now ends, or is replaced.  It need
\* not: sys.exit waits for the transmitter, whose flag stays set if the second signal
\* broke off stop(), or if stop() was over before the transmitter set it
\* (signal_handler, stop, _run_transmitter, _run_subscribe).
SecondSignalEnds == main = "exiting" ~> main \in {"new", "ended"}

\* While the databroker stays up and nobody sends a signal, the receiver ends
\* up registered again, after whatever outages, unless the feeder has stopped
\* (_run_receiver, on_broker_connectivity_change).
ReceiverServesAgain ==
  <>[](up /\ told = 0) => <>[](main = "ended" \/ ~running \/ registered)

\* ... and the transmitter subscribed, unless its subscription ended in a way that no
\* IDLE tells of: the restart is all that brings a lost subscription back.
SenderServesAgain ==
  <>[](up /\ told = 0) => <>[](main = "ended" \/ ~running \/ unseen \/ subscribed)

=============================================================================
