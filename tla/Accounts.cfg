CONSTANTS
  Processes = {p1, p2}
  SignIns = {r1, r2}
  Subjects = {s1, s2}
  Emails = {e1, e2}
  Configured = TRUE
  AdminEmail = e1
  NoSubject = NoSubject
  NoUser = NoUser
SPECIFICATION Spec
SYMMETRY Symmetry
INVARIANTS
  TypeOK
  SignInKeepsAccount
  TwinsOnlyWhenCrossed
  AdminlessOnlyWhenBotched
