\* Two overlapping requests of any kind about two accounts, any call raising.
SPECIFICATION Spec
CONSTANTS
  Requests = {q1, q2}
  Usernames = {admin, ann}
  Bootstrap = admin
  SettingsPassword = p1
  Passwords = {p1, p2}
  TestAccounts = {ann}
  Tokens = {t1, t2}
  Operations <- Everything
  MaxRows = 3
  MayFail = TRUE
  admin = admin
  ann = ann
  p1 = p1
  p2 = p2
SYMMETRY Clients
INVARIANTS
  BootstrapStays
  ErrorsNeedADisturbance
PROPERTIES
  DeletedByAnotherAdmin
  ReplacedByTheEntitled
