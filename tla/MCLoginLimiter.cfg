\* Three overlapping logins, a window longer than the lock as in the settings,
\* any of them aborted at any call.
SPECIFICATION FairSpec
CONSTANTS
  Requests = {r1, r2, r3}
  MaxAttempts = 2
  WindowSec = 4
  LockSec = 2
INVARIANTS
  OvershootBounded
PROPERTIES
  LimitEnds
  LimitNotProlonged
