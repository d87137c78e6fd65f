\* The feeder through two outages of the databroker and two signals.
CONSTANTS
  MaxSignals = 2
  MaxOutages = 2

SPECIFICATION Spec

INVARIANT TypeOK
INVARIANT LostSubscriptionNoticed
PROPERTIES StopEnds ReceiverServesAgain SenderServesAgain

\* The feeder ends when it was told to.
CHECK_DEADLOCK FALSE
