CONSTANTS
  Savers = {h1, h2}
  Requests = {r1}
  Events = {e1, e2}
  Env = Env
  Unset = Unset
  None = None
SPECIFICATION Spec
SYMMETRY Alike
INVARIANTS
  TypeOK
  
  ReportedWithOwn
  ReplacedClosedOnce
