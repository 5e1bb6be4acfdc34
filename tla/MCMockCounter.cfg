\* Two days of four ticks, about one round of the timeline and a half; restarts
\* at any moment, Redis and MySQL failing at any call, beats stretched over
\* midnight.
SPECIFICATION Spec
CONSTANTS
  Timeline <- ShortTimeline
  Interval = 1
  SyncInterval = 2
  DayLength = 4
  MaxTime = 5
  Rois = {r1}
  RoiInit = r1
  Faults = {"redis", "mysql"}
INVARIANTS
  StatusConsistent
  CleanStop
PROPERTIES
  ImplementsOccupancy
