\* Two days of four ticks, a grace of two: stays that begin and end on the same
\* day, stays over midnight, three events a day against a list of two, restarts
\* at any moment, MySQL failing at any sync.  The ROI does not change.
SPECIFICATION Spec
CONSTANTS
  EnterFrames = 2
  LeaveSeconds = 2
  SyncInterval = 2
  EventsKept = 2
  DayLength = 4
  MaxPeople = 1
  MaxTime = 6
  Rois = {r1}
  RoiInit = r1
  Faults = {"mysql"}
INVARIANTS
  TypeOK
  StaysOutlastGrace
  StayAccounting
  EventsAreTodays
PROPERTIES
  ImplementsOccupancy
