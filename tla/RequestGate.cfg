CONSTANTS
  alice = alice
  sam = sam
  t = t
  ja = ja
  js = js
  ss = ss
  Users = {alice, sam}
  SsoUsers = {sam}
  ApiTokens = {t}
  Jwts = {ja, js}
  Sessions = {ss}
  Holder <- MCHolder
  Initially <- MCInitially
  MaxChanges = 2
  None = None
SPECIFICATION Spec
INVARIANTS
  TypeOK
  ActsOnHeldAuthority
  CookieChangesConfirmed
  FirstSteadyWins
