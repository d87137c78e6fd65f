\* The feeder told to stop twice.
CONSTANTS
  MaxSignals = 2
  MaxOutages = 0

SPECIFICATION Spec

PROPERTY SecondSignalEnds

\* The feeder ends when it was told to.
CHECK_DEADLOCK FALSE
