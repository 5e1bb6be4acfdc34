\* The interleavings of the worker with stop and update_roi, with a camera and a
\* detector that may fail at every call, in a short time, under fair threads.
SPECIFICATION FairSpec
CONSTANTS
  EnterFrames = 1
  LeaveSeconds = 1
  SyncInterval = 1
  EventsKept = 1
  DayLength = 1
  MaxPeople = 1
  MaxTime = 1
  Rois = {r1, r2}
  RoiInit = r1
  Faults = {"camera", "detector"}
INVARIANTS
  StatusFollowsOccupancy
  CleanStop
PROPERTIES
  StopIsObeyed
  RoiCatchesUp
