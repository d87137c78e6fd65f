--------------------------- MODULE DbcFeederProofs ---------------------------
(***************************************************************************)
(* Proofs about DbcFeeder, for any number of signals and of outages of the *)
(* databroker: type correctness, that a lost subscription is noticed, and  *)
(* that a feeder that has been told to stop sends nothing any more.  That  *)
(* it then ends, and that it serves again, is liveness, which TLC checks.  *)
(***************************************************************************)
EXTENDS DbcFeeder, TLAPS

-----------------------------------------------------------------------------
(* The inductive invariant.                                                *)

\* start() creates the threads one after the other.
Threads ==
  /\ main \in {"new", "client", "receiver", "sender"} => sender = "none" /\ ~transmit
  /\ main \in {"new", "client", "receiver"} => receiver = "none"

\* stop() begins with _running.
StopsFirst == handler # "no" \/ receiver \in {"close", "rest"} => ~running

\* No stop() is under way.
Quiet == handler = "no" /\ receiver \notin {"close", "rest"}

\* Once a stop() is over that did not come too early for the transmitter and was not
\* broken off, _transmit is cleared, and the transmitter will not set it again.
StoppedForGood ==
  main # "new" /\ ~running /\ ~early /\ ~cut /\ Quiet => ~transmit /\ sender # "begun"

\* A stop() that is over before the transmitter was started came too early.
Starts ==
  main \in {"client", "receiver", "sender"} /\ ~running /\ Quiet => early

\* What the connectivity says about the databroker and the client.
Connection ==
  /\ channel = "READY" => up
  /\ channel = "FAILURE" => unseen
  /\ seen = "IDLE" => restarting
  /\ running /\ main \in {"receiver", "sender", "join"} => client
  /\ running /\ sender # "none" => client

FeederInv ==
  /\ TypeOK /\ Threads /\ StopsFirst /\ StoppedForGood /\ Starts /\ Connection
  /\ LostSubscriptionNoticed

-----------------------------------------------------------------------------
(* Every step keeps it.                                                    *)

\* The main thread: a start that is on its way has not been told to stop.
LEMMA MainKeeps ==
  ASSUME FeederInv, Main
  PROVE  FeederInv'
<1> USE DEF FeederInv, threads, flags, link, broker, alive, Quiet
<1>1. CASE Enter
  <2>1. TypeOK'
    BY <1>1 DEF Enter, MainSteps, TypeOK, MainAt, StopAt, ReceiverAt, SenderAt, Channel
  <2>2. Threads' /\ StopsFirst' /\ Starts'
    BY <1>1 DEF Enter, MainSteps, TypeOK, Threads, StopsFirst, Starts
  <2>3. StoppedForGood'
    BY <1>1 DEF Enter, MainSteps, TypeOK, Threads, StopsFirst, Starts, StoppedForGood
  <2>4. Connection' /\ LostSubscriptionNoticed'
    BY <1>1 DEF Enter, MainSteps, TypeOK, Threads, StopsFirst, Connection,
       LostSubscriptionNoticed
  <2> QED BY <2>1, <2>2, <2>3, <2>4
<1>2. CASE OpenClient
  <2>1. TypeOK'
    <3>1. /\ main' \in MainAt /\ handler' \in StopAt
          /\ receiver' \in ReceiverAt /\ sender' \in SenderAt
          /\ channel' \in Channel /\ seen' \in Channel
      BY <1>2 DEF OpenClient, MainSteps, TypeOK, MainAt, StopAt, ReceiverAt, SenderAt,
         Channel
    <3>2. /\ running' \in BOOLEAN /\ transmit' \in BOOLEAN /\ registered' \in BOOLEAN
          /\ client' \in BOOLEAN /\ connected' \in BOOLEAN /\ restarting' \in BOOLEAN
          /\ subscribed' \in BOOLEAN /\ up' \in BOOLEAN /\ defined' \in BOOLEAN
          /\ early' \in BOOLEAN /\ cut' \in BOOLEAN /\ unseen' \in BOOLEAN
      BY <1>2 DEF OpenClient, MainSteps, TypeOK
    <3>3. client' <=> channel' # "SHUTDOWN"
      BY <1>2 DEF OpenClient, MainSteps, TypeOK
    <3>4. told' \in 0..MaxSignals /\ outages' \in 0..MaxOutages
      BY <1>2, FeederAssumption DEF OpenClient, MainSteps, TypeOK
    <3> QED BY <3>1, <3>2, <3>3, <3>4 DEF TypeOK
  <2>2. Threads' /\ StopsFirst' /\ Starts'
    BY <1>2 DEF OpenClient, MainSteps, TypeOK, Threads, StopsFirst, Starts
  <2>3. StoppedForGood'
    BY <1>2 DEF OpenClient, MainSteps, TypeOK, Threads, StopsFirst, Starts, StoppedForGood
  <2>4. Connection' /\ LostSubscriptionNoticed'
    BY <1>2 DEF OpenClient, MainSteps, TypeOK, Threads, StopsFirst, Connection,
       LostSubscriptionNoticed
  <2> QED BY <2>1, <2>2, <2>3, <2>4
<1>3. CASE StartReceiver
  <2>1. TypeOK'
    BY <1>3 DEF StartReceiver, MainSteps, TypeOK, MainAt, StopAt, ReceiverAt, SenderAt,
       Channel
  <2>2. Threads' /\ StopsFirst' /\ Starts'
    BY <1>3 DEF StartReceiver, MainSteps, TypeOK, Threads, StopsFirst, Starts
  <2>3. StoppedForGood'
    BY <1>3 DEF StartReceiver, MainSteps, TypeOK, Threads, StopsFirst, Starts,
       StoppedForGood
  <2>4. Connection' /\ LostSubscriptionNoticed'
    BY <1>3 DEF StartReceiver, MainSteps, TypeOK, Threads, StopsFirst, Connection,
       LostSubscriptionNoticed
  <2> QED BY <2>1, <2>2, <2>3, <2>4
<1>4. CASE StartSender
  <2>1. TypeOK'
    BY <1>4 DEF StartSender, MainSteps, TypeOK, MainAt, StopAt, ReceiverAt, SenderAt,
       Channel
  <2>2. Threads' /\ StopsFirst' /\ Starts'
    BY <1>4 DEF StartSender, MainSteps, TypeOK, Threads, StopsFirst, Starts
  <2>3. StoppedForGood'
    BY <1>4 DEF StartSender, MainSteps, TypeOK, Threads, StopsFirst, Starts, StoppedForGood
  <2>4. Connection' /\ LostSubscriptionNoticed'
    BY <1>4 DEF StartSender, MainSteps, TypeOK, Threads, StopsFirst, Connection,
       LostSubscriptionNoticed
  <2> QED BY <2>1, <2>2, <2>3, <2>4
<1>5. CASE End
  <2>1. TypeOK'
    BY <1>5 DEF End, MainSteps, TypeOK, MainAt, StopAt, ReceiverAt, SenderAt, Channel
  <2>2. Threads' /\ StopsFirst' /\ Starts'
    BY <1>5 DEF End, MainSteps, TypeOK, Threads, StopsFirst, Starts
  <2>3. StoppedForGood'
    BY <1>5 DEF End, MainSteps, TypeOK, Threads, StopsFirst, Starts, StoppedForGood
  <2>4. Connection' /\ LostSubscriptionNoticed'
    BY <1>5 DEF End, MainSteps, TypeOK, Threads, StopsFirst, Connection,
       LostSubscriptionNoticed
  <2> QED BY <2>1, <2>2, <2>3, <2>4
<1> QED BY <1>1, <1>2, <1>3, <1>4, <1>5 DEF Main

\* The signal handler: it clears _transmit last.
LEMMA HandlerKeeps ==
  ASSUME FeederInv, Handler
  PROVE  FeederInv'
<1> USE DEF FeederInv, threads, flags, link, broker, alive, Quiet
<1>1. CASE HandlerCloses
  <2>1. TypeOK'
    <3>1. /\ main' \in MainAt /\ handler' \in StopAt
          /\ receiver' \in ReceiverAt /\ sender' \in SenderAt
          /\ channel' \in Channel /\ seen' \in Channel
      BY <1>1 DEF HandlerCloses, CloseClient, TypeOK, MainAt, StopAt, ReceiverAt,
         SenderAt, Channel
    <3>2. /\ running' \in BOOLEAN /\ transmit' \in BOOLEAN /\ registered' \in BOOLEAN
          /\ client' \in BOOLEAN /\ connected' \in BOOLEAN /\ restarting' \in BOOLEAN
          /\ subscribed' \in BOOLEAN /\ up' \in BOOLEAN /\ defined' \in BOOLEAN
          /\ early' \in BOOLEAN /\ cut' \in BOOLEAN /\ unseen' \in BOOLEAN
      BY <1>1 DEF HandlerCloses, CloseClient, TypeOK
    <3>3. client' <=> channel' # "SHUTDOWN"
      BY <1>1 DEF HandlerCloses, CloseClient, TypeOK
    <3>4. told' \in 0..MaxSignals /\ outages' \in 0..MaxOutages
      BY <1>1, FeederAssumption DEF HandlerCloses, CloseClient, TypeOK
    <3> QED BY <3>1, <3>2, <3>3, <3>4 DEF TypeOK
  <2>2. Threads' /\ StopsFirst' /\ Starts'
    BY <1>1 DEF HandlerCloses, CloseClient, TypeOK, Threads, StopsFirst, Starts
  <2>3. StoppedForGood'
    BY <1>1 DEF HandlerCloses, CloseClient, TypeOK, Threads, StopsFirst, Starts,
       StoppedForGood
  <2>4. Connection' /\ LostSubscriptionNoticed'
    BY <1>1 DEF HandlerCloses, CloseClient, TypeOK, Threads, StopsFirst, Connection,
       LostSubscriptionNoticed
  <2> QED BY <2>1, <2>2, <2>3, <2>4
<1>2. CASE HandlerReturns
  <2>1. TypeOK'
    <3>1. /\ main' \in MainAt /\ handler' \in StopAt
          /\ receiver' \in ReceiverAt /\ sender' \in SenderAt
          /\ channel' \in Channel /\ seen' \in Channel
      BY <1>2 DEF HandlerReturns, StopSending, TypeOK, MainAt, StopAt, ReceiverAt,
         SenderAt, Channel
    <3>2. /\ running' \in BOOLEAN /\ transmit' \in BOOLEAN /\ registered' \in BOOLEAN
          /\ client' \in BOOLEAN /\ connected' \in BOOLEAN /\ restarting' \in BOOLEAN
          /\ subscribed' \in BOOLEAN /\ up' \in BOOLEAN /\ defined' \in BOOLEAN
          /\ early' \in BOOLEAN /\ cut' \in BOOLEAN /\ unseen' \in BOOLEAN
      BY <1>2 DEF HandlerReturns, StopSending, TypeOK
    <3>3. client' <=> channel' # "SHUTDOWN"
      BY <1>2 DEF HandlerReturns, StopSending, TypeOK
    <3>4. told' \in 0..MaxSignals /\ outages' \in 0..MaxOutages
      BY <1>2, FeederAssumption DEF HandlerReturns, StopSending, TypeOK
    <3> QED BY <3>1, <3>2, <3>3, <3>4 DEF TypeOK
  <2>2. Threads' /\ StopsFirst' /\ Starts'
    BY <1>2 DEF HandlerReturns, StopSending, TypeOK, Threads, StopsFirst, Starts
  <2>3. StoppedForGood'
    BY <1>2 DEF HandlerReturns, StopSending, TypeOK, Threads, StopsFirst, Starts,
       StoppedForGood
  <2>4. Connection' /\ LostSubscriptionNoticed'
    BY <1>2 DEF HandlerReturns, StopSending, TypeOK, Threads, StopsFirst, Connection,
       LostSubscriptionNoticed
  <2> QED BY <2>1, <2>2, <2>3, <2>4
<1> QED BY <1>1, <1>2 DEF Handler

\* The receiver: it may stop the feeder itself, and a call may reconnect the client.
LEMMA ReceiverKeeps ==
  ASSUME FeederInv, Receiver
  PROVE  FeederInv'
<1> USE DEF FeederInv, threads, flags, link, broker, alive, Quiet
<1>1. CASE ReceiverTurn
  <2>1. TypeOK'
    <3>1. /\ main' \in MainAt /\ handler' \in StopAt
          /\ receiver' \in ReceiverAt /\ sender' \in SenderAt
          /\ channel' \in Channel /\ seen' \in Channel
      BY <1>1 DEF ReceiverTurn, TypeOK, MainAt, StopAt, ReceiverAt, SenderAt, Channel
    <3>2. /\ running' \in BOOLEAN /\ transmit' \in BOOLEAN /\ registered' \in BOOLEAN
          /\ client' \in BOOLEAN /\ connected' \in BOOLEAN /\ restarting' \in BOOLEAN
          /\ subscribed' \in BOOLEAN /\ up' \in BOOLEAN /\ defined' \in BOOLEAN
          /\ early' \in BOOLEAN /\ cut' \in BOOLEAN /\ unseen' \in BOOLEAN
      BY <1>1 DEF ReceiverTurn, TypeOK
    <3>3. client' <=> channel' # "SHUTDOWN"
      BY <1>1 DEF ReceiverTurn, TypeOK
    <3>4. told' \in 0..MaxSignals /\ outages' \in 0..MaxOutages
      BY <1>1, FeederAssumption DEF ReceiverTurn, TypeOK
    <3> QED BY <3>1, <3>2, <3>3, <3>4 DEF TypeOK
  <2>2. Threads' /\ StopsFirst' /\ Starts'
    BY <1>1 DEF ReceiverTurn, TypeOK, Threads, StopsFirst, Starts
  <2>3. StoppedForGood'
    BY <1>1 DEF ReceiverTurn, TypeOK, Threads, StopsFirst, Starts, StoppedForGood
  <2>4. Connection' /\ LostSubscriptionNoticed'
    BY <1>1 DEF ReceiverTurn, TypeOK, Threads, StopsFirst, Connection,
       LostSubscriptionNoticed
  <2> QED BY <2>1, <2>2, <2>3, <2>4
<1>2. CASE Check
  <2>1. TypeOK'
    <3>1. /\ main' \in MainAt /\ handler' \in StopAt
          /\ receiver' \in ReceiverAt /\ sender' \in SenderAt
          /\ channel' \in Channel /\ seen' \in Channel
      BY <1>2 DEF Check, Call, TypeOK, MainAt, StopAt, ReceiverAt, SenderAt, Channel
    <3>2. /\ running' \in BOOLEAN /\ transmit' \in BOOLEAN /\ registered' \in BOOLEAN
          /\ client' \in BOOLEAN /\ connected' \in BOOLEAN /\ restarting' \in BOOLEAN
          /\ subscribed' \in BOOLEAN /\ up' \in BOOLEAN /\ defined' \in BOOLEAN
          /\ early' \in BOOLEAN /\ cut' \in BOOLEAN /\ unseen' \in BOOLEAN
      BY <1>2 DEF Check, Call, TypeOK
    <3>3. client' <=> channel' # "SHUTDOWN"
      BY <1>2 DEF Check, Call, TypeOK
    <3>4. told' \in 0..MaxSignals /\ outages' \in 0..MaxOutages
      BY <1>2, FeederAssumption DEF Check, Call, TypeOK
    <3> QED BY <3>1, <3>2, <3>3, <3>4 DEF TypeOK
  <2>2. Threads' /\ StopsFirst' /\ Starts'
    BY <1>2 DEF Check, Call, TypeOK, Threads, StopsFirst, Starts
  <2>3. StoppedForGood'
    BY <1>2 DEF Check, Call, TypeOK, Threads, StopsFirst, Starts, StoppedForGood
  <2>4. Connection' /\ LostSubscriptionNoticed'
    BY <1>2 DEF Check, Call, TypeOK, Threads, StopsFirst, Connection,
       LostSubscriptionNoticed
  <2> QED BY <2>1, <2>2, <2>3, <2>4
<1>3. CASE Take
  <2>1. TypeOK'
    BY <1>3 DEF Take, Call, TypeOK, MainAt, StopAt, ReceiverAt, SenderAt, Channel
  <2>2. Threads' /\ StopsFirst' /\ Starts'
    BY <1>3 DEF Take, Call, TypeOK, Threads, StopsFirst, Starts
  <2>3. StoppedForGood'
    BY <1>3 DEF Take, Call, TypeOK, Threads, StopsFirst, Starts, StoppedForGood
  <2>4. Connection' /\ LostSubscriptionNoticed'
    BY <1>3 DEF Take, Call, TypeOK, Threads, StopsFirst, Connection,
       LostSubscriptionNoticed
  <2> QED BY <2>1, <2>2, <2>3, <2>4
<1>4. CASE ReceiverCloses
  <2>1. TypeOK'
    <3>1. /\ main' \in MainAt /\ handler' \in StopAt
          /\ receiver' \in ReceiverAt /\ sender' \in SenderAt
          /\ channel' \in Channel /\ seen' \in Channel
      BY <1>4 DEF ReceiverCloses, CloseClient, TypeOK, MainAt, StopAt, ReceiverAt,
         SenderAt, Channel
    <3>2. /\ running' \in BOOLEAN /\ transmit' \in BOOLEAN /\ registered' \in BOOLEAN
          /\ client' \in BOOLEAN /\ connected' \in BOOLEAN /\ restarting' \in BOOLEAN
          /\ subscribed' \in BOOLEAN /\ up' \in BOOLEAN /\ defined' \in BOOLEAN
          /\ early' \in BOOLEAN /\ cut' \in BOOLEAN /\ unseen' \in BOOLEAN
      BY <1>4 DEF ReceiverCloses, CloseClient, TypeOK
    <3>3. client' <=> channel' # "SHUTDOWN"
      BY <1>4 DEF ReceiverCloses, CloseClient, TypeOK
    <3>4. told' \in 0..MaxSignals /\ outages' \in 0..MaxOutages
      BY <1>4, FeederAssumption DEF ReceiverCloses, CloseClient, TypeOK
    <3> QED BY <3>1, <3>2, <3>3, <3>4 DEF TypeOK
  <2>2. Threads' /\ StopsFirst' /\ Starts'
    BY <1>4 DEF ReceiverCloses, CloseClient, TypeOK, Threads, StopsFirst, Starts
  <2>3. StoppedForGood'
    BY <1>4 DEF ReceiverCloses, CloseClient, TypeOK, Threads, StopsFirst, Starts,
       StoppedForGood
  <2>4. Connection' /\ LostSubscriptionNoticed'
    BY <1>4 DEF ReceiverCloses, CloseClient, TypeOK, Threads, StopsFirst, Connection,
       LostSubscriptionNoticed
  <2> QED BY <2>1, <2>2, <2>3, <2>4
<1>5. CASE ReceiverStopped
  <2>1. TypeOK'
    <3>1. /\ main' \in MainAt /\ handler' \in StopAt
          /\ receiver' \in ReceiverAt /\ sender' \in SenderAt
          /\ channel' \in Channel /\ seen' \in Channel
      BY <1>5 DEF ReceiverStopped, StopSending, TypeOK, MainAt, StopAt, ReceiverAt,
         SenderAt, Channel
    <3>2. /\ running' \in BOOLEAN /\ transmit' \in BOOLEAN /\ registered' \in BOOLEAN
          /\ client' \in BOOLEAN /\ connected' \in BOOLEAN /\ restarting' \in BOOLEAN
          /\ subscribed' \in BOOLEAN /\ up' \in BOOLEAN /\ defined' \in BOOLEAN
          /\ early' \in BOOLEAN /\ cut' \in BOOLEAN /\ unseen' \in BOOLEAN
      BY <1>5 DEF ReceiverStopped, StopSending, TypeOK
    <3>3. client' <=> channel' # "SHUTDOWN"
      BY <1>5 DEF ReceiverStopped, StopSending, TypeOK
    <3>4. told' \in 0..MaxSignals /\ outages' \in 0..MaxOutages
      BY <1>5, FeederAssumption DEF ReceiverStopped, StopSending, TypeOK
    <3> QED BY <3>1, <3>2, <3>3, <3>4 DEF TypeOK
  <2>2. Threads' /\ StopsFirst' /\ Starts'
    BY <1>5 DEF ReceiverStopped, StopSending, TypeOK, Threads, StopsFirst, Starts
  <2>3. StoppedForGood'
    BY <1>5 DEF ReceiverStopped, StopSending, TypeOK, Threads, StopsFirst, Starts,
       StoppedForGood
  <2>4. Connection' /\ LostSubscriptionNoticed'
    BY <1>5 DEF ReceiverStopped, StopSending, TypeOK, Threads, StopsFirst, Connection,
       LostSubscriptionNoticed
  <2> QED BY <2>1, <2>2, <2>3, <2>4
<1> QED BY <1>1, <1>2, <1>3, <1>4, <1>5 DEF Receiver

\* The transmitter: it sets its own flag, and subscribes if it can.
LEMMA SenderKeeps ==
  ASSUME FeederInv, Sender
  PROVE  FeederInv'
<1> USE DEF FeederInv, threads, flags, link, broker, alive, Quiet
<1>1. CASE SenderBegins
  <2>1. TypeOK'
    <3>1. /\ main' \in MainAt /\ handler' \in StopAt
          /\ receiver' \in ReceiverAt /\ sender' \in SenderAt
          /\ channel' \in Channel /\ seen' \in Channel
      BY <1>1 DEF SenderBegins, TypeOK, MainAt, StopAt, ReceiverAt, SenderAt, Channel
    <3>2. /\ running' \in BOOLEAN /\ transmit' \in BOOLEAN /\ registered' \in BOOLEAN
          /\ client' \in BOOLEAN /\ connected' \in BOOLEAN /\ restarting' \in BOOLEAN
          /\ subscribed' \in BOOLEAN /\ up' \in BOOLEAN /\ defined' \in BOOLEAN
          /\ early' \in BOOLEAN /\ cut' \in BOOLEAN /\ unseen' \in BOOLEAN
      BY <1>1 DEF SenderBegins, TypeOK
    <3>3. client' <=> channel' # "SHUTDOWN"
      BY <1>1 DEF SenderBegins, TypeOK
    <3>4. told' \in 0..MaxSignals /\ outages' \in 0..MaxOutages
      BY <1>1, FeederAssumption DEF SenderBegins, TypeOK
    <3> QED BY <3>1, <3>2, <3>3, <3>4 DEF TypeOK
  <2>2. Threads' /\ StopsFirst' /\ Starts'
    BY <1>1 DEF SenderBegins, TypeOK, Threads, StopsFirst, Starts
  <2>3. StoppedForGood'
    BY <1>1 DEF SenderBegins, TypeOK, Threads, StopsFirst, Starts, StoppedForGood
  <2>4. Connection' /\ LostSubscriptionNoticed'
    <3>1. /\ sender = "begun" /\ sender' = "loop"
          /\ main' = main /\ running' = running /\ client' = client /\ channel' = channel
          /\ seen' = seen /\ restarting' = restarting /\ up' = up
          /\ (subscribed' = up /\ unseen' = unseen) \/ unseen'
      BY <1>1 DEF SenderBegins
    <3>2. Connection'
      BY <3>1 DEF Connection
    <3>3. running /\ ~unseen => up \/ channel = "IDLE"
      BY <3>1 DEF TypeOK, Connection, Channel
    <3> QED BY <3>1, <3>2, <3>3 DEF LostSubscriptionNoticed
  <2> QED BY <2>1, <2>2, <2>3, <2>4
<1>2. CASE SenderEnds
  <2>1. TypeOK'
    <3>1. /\ main' \in MainAt /\ handler' \in StopAt
          /\ receiver' \in ReceiverAt /\ sender' \in SenderAt
          /\ channel' \in Channel /\ seen' \in Channel
      BY <1>2 DEF SenderEnds, TypeOK, MainAt, StopAt, ReceiverAt, SenderAt, Channel
    <3>2. /\ running' \in BOOLEAN /\ transmit' \in BOOLEAN /\ registered' \in BOOLEAN
          /\ client' \in BOOLEAN /\ connected' \in BOOLEAN /\ restarting' \in BOOLEAN
          /\ subscribed' \in BOOLEAN /\ up' \in BOOLEAN /\ defined' \in BOOLEAN
          /\ early' \in BOOLEAN /\ cut' \in BOOLEAN /\ unseen' \in BOOLEAN
      BY <1>2 DEF SenderEnds, TypeOK
    <3>3. client' <=> channel' # "SHUTDOWN"
      BY <1>2 DEF SenderEnds, TypeOK
    <3>4. told' \in 0..MaxSignals /\ outages' \in 0..MaxOutages
      BY <1>2, FeederAssumption DEF SenderEnds, TypeOK
    <3> QED BY <3>1, <3>2, <3>3, <3>4 DEF TypeOK
  <2>2. Threads' /\ StopsFirst' /\ Starts'
    BY <1>2 DEF SenderEnds, TypeOK, Threads, StopsFirst, Starts
  <2>3. StoppedForGood'
    BY <1>2 DEF SenderEnds, TypeOK, Threads, StopsFirst, Starts, StoppedForGood
  <2>4. Connection' /\ LostSubscriptionNoticed'
    BY <1>2 DEF SenderEnds, TypeOK, Threads, StopsFirst, Connection,
       LostSubscriptionNoticed
  <2> QED BY <2>1, <2>2, <2>3, <2>4
<1> QED BY <1>1, <1>2 DEF Sender

\* Signals, gRPC's thread and the databroker.
LEMMA OutsideKeeps ==
  ASSUME FeederInv,
         Report \/ Exec \/ Signal \/ CallbackFails \/ BrokerStops \/ BrokerStarts
  PROVE  FeederInv'
<1> USE DEF FeederInv, threads, flags, link, broker, alive, Quiet
<1>1. CASE Report
  <2>1. TypeOK'
    <3>1. /\ main' \in MainAt /\ handler' \in StopAt
          /\ receiver' \in ReceiverAt /\ sender' \in SenderAt
          /\ channel' \in Channel /\ seen' \in Channel
      BY <1>1 DEF Report, TypeOK, MainAt, StopAt, ReceiverAt, SenderAt, Channel
    <3>2. /\ running' \in BOOLEAN /\ transmit' \in BOOLEAN /\ registered' \in BOOLEAN
          /\ client' \in BOOLEAN /\ connected' \in BOOLEAN /\ restarting' \in BOOLEAN
          /\ subscribed' \in BOOLEAN /\ up' \in BOOLEAN /\ defined' \in BOOLEAN
          /\ early' \in BOOLEAN /\ cut' \in BOOLEAN /\ unseen' \in BOOLEAN
      BY <1>1 DEF Report, TypeOK
    <3>3. client' <=> channel' # "SHUTDOWN"
      BY <1>1 DEF Report, TypeOK
    <3>4. told' \in 0..MaxSignals /\ outages' \in 0..MaxOutages
      BY <1>1, FeederAssumption DEF Report, TypeOK
    <3> QED BY <3>1, <3>2, <3>3, <3>4 DEF TypeOK
  <2>2. Threads' /\ StopsFirst' /\ Starts'
    BY <1>1 DEF Report, TypeOK, Threads, StopsFirst, Starts
  <2>3. StoppedForGood'
    BY <1>1 DEF Report, TypeOK, Threads, StopsFirst, Starts, StoppedForGood
  <2>4. Connection' /\ LostSubscriptionNoticed'
    BY <1>1 DEF Report, TypeOK, Threads, StopsFirst, Connection,
       LostSubscriptionNoticed
  <2> QED BY <2>1, <2>2, <2>3, <2>4
<1>2. CASE Exec
  <2>1. TypeOK'
    BY <1>2 DEF Exec, TypeOK, MainAt, StopAt, ReceiverAt, SenderAt, Channel
  <2>2. Threads' /\ StopsFirst' /\ Starts'
    BY <1>2 DEF Exec, TypeOK, Threads, StopsFirst, Starts
  <2>3. StoppedForGood'
    BY <1>2 DEF Exec, TypeOK, Threads, StopsFirst, Starts, StoppedForGood
  <2>4. Connection' /\ LostSubscriptionNoticed'
    BY <1>2 DEF Exec, TypeOK, Threads, StopsFirst, Connection,
       LostSubscriptionNoticed
  <2> QED BY <2>1, <2>2, <2>3, <2>4
<1>3. CASE Signal
  <2>1. TypeOK'
    <3>1. /\ main' \in MainAt /\ handler' \in StopAt
          /\ receiver' \in ReceiverAt /\ sender' \in SenderAt
          /\ channel' \in Channel /\ seen' \in Channel
      BY <1>3 DEF Signal, TypeOK, MainAt, StopAt, ReceiverAt, SenderAt, Channel
    <3>2. /\ running' \in BOOLEAN /\ transmit' \in BOOLEAN /\ registered' \in BOOLEAN
          /\ client' \in BOOLEAN /\ connected' \in BOOLEAN /\ restarting' \in BOOLEAN
          /\ subscribed' \in BOOLEAN /\ up' \in BOOLEAN /\ defined' \in BOOLEAN
          /\ early' \in BOOLEAN /\ cut' \in BOOLEAN /\ unseen' \in BOOLEAN
      BY <1>3 DEF Signal, TypeOK
    <3>3. client' <=> channel' # "SHUTDOWN"
      BY <1>3 DEF Signal, TypeOK
    <3>4. told' \in 0..MaxSignals /\ outages' \in 0..MaxOutages
      BY <1>3, FeederAssumption DEF Signal, TypeOK
    <3> QED BY <3>1, <3>2, <3>3, <3>4 DEF TypeOK
  <2>2. Threads' /\ StopsFirst' /\ Starts'
    BY <1>3 DEF Signal, TypeOK, Threads, StopsFirst, Starts
  <2>3. StoppedForGood'
    <3>1. receiver' = receiver /\ sender' = sender /\ transmit' = transmit
      BY <1>3 DEF Signal
    <3>2. CASE running
      BY <1>3, <3>1, <3>2 DEF Signal, StoppedForGood
    <3>3. CASE ~running
      <4>1. running' = running /\ handler' = "no"
        BY <1>3, <3>3 DEF Signal
      <4>2. ~early' /\ ~cut' => ~early /\ ~cut /\ handler = "no"
        BY <1>3, <3>3 DEF Signal, TypeOK
      <4>3. main = "new" => sender = "none" /\ ~transmit
        BY DEF Threads
      <4> QED BY <3>1, <4>1, <4>2, <4>3 DEF StoppedForGood
    <3> QED BY <3>2, <3>3
  <2>4. Connection' /\ LostSubscriptionNoticed'
    BY <1>3 DEF Signal, TypeOK, Threads, StopsFirst, Connection,
       LostSubscriptionNoticed
  <2> QED BY <2>1, <2>2, <2>3, <2>4
<1>4. CASE BrokerStops
  <2>1. TypeOK'
    <3>1. /\ main' \in MainAt /\ handler' \in StopAt
          /\ receiver' \in ReceiverAt /\ sender' \in SenderAt
          /\ channel' \in Channel /\ seen' \in Channel
      BY <1>4 DEF BrokerStops, TypeOK, MainAt, StopAt, ReceiverAt, SenderAt, Channel
    <3>2. /\ running' \in BOOLEAN /\ transmit' \in BOOLEAN /\ registered' \in BOOLEAN
          /\ client' \in BOOLEAN /\ connected' \in BOOLEAN /\ restarting' \in BOOLEAN
          /\ subscribed' \in BOOLEAN /\ up' \in BOOLEAN /\ defined' \in BOOLEAN
          /\ early' \in BOOLEAN /\ cut' \in BOOLEAN /\ unseen' \in BOOLEAN
      BY <1>4 DEF BrokerStops, TypeOK
    <3>3. client' <=> channel' # "SHUTDOWN"
      BY <1>4 DEF BrokerStops, TypeOK
    <3>4. told' \in 0..MaxSignals /\ outages' \in 0..MaxOutages
      BY <1>4, FeederAssumption DEF BrokerStops, TypeOK
    <3> QED BY <3>1, <3>2, <3>3, <3>4 DEF TypeOK
  <2>2. Threads' /\ StopsFirst' /\ Starts'
    BY <1>4 DEF BrokerStops, TypeOK, Threads, StopsFirst, Starts
  <2>3. StoppedForGood'
    BY <1>4 DEF BrokerStops, TypeOK, Threads, StopsFirst, Starts, StoppedForGood
  <2>4. Connection' /\ LostSubscriptionNoticed'
    <3>1. /\ main' = main /\ sender' = sender /\ running' = running /\ client' = client
          /\ seen' = seen /\ restarting' = restarting
      BY <1>4 DEF BrokerStops
    <3>2. CASE channel = "READY"
      <4>1. /\ channel' \in {"IDLE", "FAILURE"}
            /\ channel' = "FAILURE" => unseen'
        BY <1>4, <3>2 DEF BrokerStops, TypeOK
      <4> QED BY <3>1, <4>1 DEF Connection, LostSubscriptionNoticed
    <3>3. CASE channel # "READY"
      <4>1. channel' = channel /\ unseen' = unseen
        BY <1>4, <3>3 DEF BrokerStops
      <4>2. running /\ sender = "loop" => channel # "SHUTDOWN"
        BY DEF Connection, TypeOK
      <4> QED BY <3>1, <3>3, <4>1, <4>2 DEF Connection, LostSubscriptionNoticed, TypeOK,
         Channel
    <3> QED BY <3>2, <3>3
  <2> QED BY <2>1, <2>2, <2>3, <2>4
<1>5. CASE BrokerStarts
  <2>1. TypeOK'
    BY <1>5 DEF BrokerStarts, TypeOK, MainAt, StopAt, ReceiverAt, SenderAt, Channel
  <2>2. Threads' /\ StopsFirst' /\ Starts'
    BY <1>5 DEF BrokerStarts, TypeOK, Threads, StopsFirst, Starts
  <2>3. StoppedForGood'
    BY <1>5 DEF BrokerStarts, TypeOK, Threads, StopsFirst, Starts, StoppedForGood
  <2>4. Connection' /\ LostSubscriptionNoticed'
    BY <1>5 DEF BrokerStarts, TypeOK, Threads, StopsFirst, Connection,
       LostSubscriptionNoticed
  <2> QED BY <2>1, <2>2, <2>3, <2>4
<1>6. CASE CallbackFails
  <2>1. TypeOK'
    <3>1. /\ main' \in MainAt /\ handler' \in StopAt
          /\ receiver' \in ReceiverAt /\ sender' \in SenderAt
          /\ channel' \in Channel /\ seen' \in Channel
      BY <1>6 DEF CallbackFails, TypeOK, MainAt, StopAt, ReceiverAt, SenderAt, Channel
    <3>2. /\ running' \in BOOLEAN /\ transmit' \in BOOLEAN /\ registered' \in BOOLEAN
          /\ client' \in BOOLEAN /\ connected' \in BOOLEAN /\ restarting' \in BOOLEAN
          /\ subscribed' \in BOOLEAN /\ up' \in BOOLEAN /\ defined' \in BOOLEAN
          /\ early' \in BOOLEAN /\ cut' \in BOOLEAN /\ unseen' \in BOOLEAN
      BY <1>6 DEF CallbackFails, TypeOK
    <3>3. client' <=> channel' # "SHUTDOWN"
      BY <1>6 DEF CallbackFails, TypeOK
    <3>4. told' \in 0..MaxSignals /\ outages' \in 0..MaxOutages
      BY <1>6, FeederAssumption DEF CallbackFails, TypeOK
    <3> QED BY <3>1, <3>2, <3>3, <3>4 DEF TypeOK
  <2>2. Threads' /\ StopsFirst' /\ Starts'
    BY <1>6 DEF CallbackFails, TypeOK, Threads, StopsFirst, Starts
  <2>3. StoppedForGood'
    BY <1>6 DEF CallbackFails, TypeOK, Threads, StopsFirst, Starts, StoppedForGood
  <2>4. Connection' /\ LostSubscriptionNoticed'
    BY <1>6 DEF CallbackFails, TypeOK, Threads, StopsFirst, Connection,
       LostSubscriptionNoticed
  <2> QED BY <2>1, <2>2, <2>3, <2>4
<1> QED BY <1>1, <1>2, <1>3, <1>4, <1>5, <1>6

\* A process that has just been started.
LEMMA InitInv == Init => FeederInv
<1> SUFFICES ASSUME Init PROVE FeederInv
  OBVIOUS
<1>1. TypeOK
  <2>1. /\ main \in MainAt /\ handler \in StopAt
        /\ receiver \in ReceiverAt /\ sender \in SenderAt
        /\ channel \in Channel /\ seen \in Channel
    BY DEF Init, MainAt, StopAt, ReceiverAt, SenderAt, Channel
  <2>2. told \in 0..MaxSignals /\ outages \in 0..MaxOutages
    BY FeederAssumption DEF Init
  <2> QED BY <2>1, <2>2 DEF Init, TypeOK
<1>2. /\ Threads /\ StopsFirst /\ StoppedForGood /\ Starts /\ Connection
      /\ LostSubscriptionNoticed
  BY DEF Init, Threads, StopsFirst, StoppedForGood, Starts, Connection,
     LostSubscriptionNoticed
<1> QED BY <1>1, <1>2 DEF FeederInv

\* The inductive invariant holds in every reachable state.
THEOREM Invariance == Spec => []FeederInv
<1>1. ASSUME FeederInv, [Next]_vars PROVE FeederInv'
  <2>1. CASE Next
    BY <1>1, <2>1, MainKeeps, HandlerKeeps, ReceiverKeeps, SenderKeeps,
       OutsideKeeps DEF Next
  <2>2. CASE UNCHANGED vars
    BY <1>1, <2>2 DEF vars, threads, flags, link, broker, FeederInv, TypeOK, Threads,
       StopsFirst, StoppedForGood, Starts, Quiet, Connection, LostSubscriptionNoticed
  <2> QED BY <1>1, <2>1, <2>2
<1> QED BY InitInv, <1>1, PTL DEF Spec

\* Type correctness; besides, the channel lives exactly as long as the client.
THEOREM TypeCorrect == Spec => []TypeOK
<1>1. FeederInv => TypeOK
  BY DEF FeederInv
<1> QED BY Invariance, <1>1, PTL

\* A subscription that is lost while the feeder runs is followed by a restart, unless
\* no IDLE tells of the loss (on_broker_connectivity_change is the only way back:
\* nobody starts the task of _run_transmitter again).
THEOREM LossIsNoticed == Spec => []LostSubscriptionNoticed
<1>1. FeederInv => LostSubscriptionNoticed
  BY DEF FeederInv
<1> QED BY Invariance, <1>1, PTL

\* A feeder told to stop, by a signal, two of them or itself, ends up with _transmit
\* cleared for good, unless stop() was over before the transmitter set it or a second
\* signal cut it short: the safety half of StopEnds.
THEOREM StopIsLasting == Spec => []StoppedForGood
<1>1. FeederInv => StoppedForGood
  BY DEF FeederInv
<1> QED BY Invariance, <1>1, PTL

=============================================================================
