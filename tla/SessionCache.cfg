CONSTANTS
  Users = {u1, u2}
  NoUser = NoUser
  Sessions = {1}
  Requests = {r1, r2}
  Deletes = {d1}
  TTL = 1
SPECIFICATION FairSpec
INVARIANTS
  TypeOK
  ClientMatchesSession
  StaleOnlyWhenOvertaken
PROPERTIES
  DeletedSessionFades
  DeletedClientsFade
  ImplementsAccess
