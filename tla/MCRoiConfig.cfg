\* Three overlapping requests, any statement failing, the process ending.
SPECIFICATION FairSpec
CONSTANTS
  Requests = {q1, q2, q3}
  Submissions <- Payloads
  RoiInit <- Settings
  NoRegion = NoRegion
  Faults = {"mysql", "redis", "process"}
INVARIANTS
  RegionIsASubmission
  AppliedWasSaved
  ServesUnlessOvertaken
PROPERTIES
  RowIsReleased
