\* Two overlapping registrations, nothing fails.
SPECIFICATION Spec
CONSTANTS
  Requests = {q1, q2}
  Usernames = {admin, ann}
  Bootstrap = admin
  SettingsPassword = p1
  Passwords = {p1, p2}
  TestAccounts = {ann}
  Tokens = {t1}
  Operations <- Registrations
  MaxRows = 3
  MayFail = FALSE
  admin = admin
  ann = ann
  p1 = p1
  p2 = p2
PROPERTY
  RegistrationIsIdempotent
