SPECIFICATION SessionSpec
CONSTANTS
  NoSocket = NoSocket
  Channels = {c1, c2}
  MaxSockets = 2
INVARIANT StopCloses
\* After stop both threads are gone: the system really may stop.
CHECK_DEADLOCK FALSE
