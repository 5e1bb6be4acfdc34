\* One login after the other.
SPECIFICATION Spec
CONSTANTS
  Requests = {r1}
  MaxAttempts = 2
  WindowSec = 4
  LockSec = 2
PROPERTY
  RefusalEndsWithLock
