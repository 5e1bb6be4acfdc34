\* Two requests, nothing fails.
SPECIFICATION Spec
CONSTANTS
  Requests = {q1, q2}
  Submissions <- Payloads
  RoiInit <- Settings
  NoRegion = NoRegion
  Faults = {}
INVARIANT
  ServesStoredRoi
