SPECIFICATION FairSpec
CONSTANTS
  Names = {p1, p2}
  Sockets = {p1, p2}
  Reachable = {p1}
  Procs = {"background"}
  Listeners = {"background"}
  Callers = {c1}
  Subscribers = {s1}
  Home <- OneHome
  Admins = {a1, a2}
  Pages = {a2}
  Start <- OnePrimaryRow
  Forms <- MakePrimary
  MaxChanges = 2
  MaxFaults = 1
  None = None
INVARIANTS TypeOK CacheCurrent OnePrimary
PROPERTY KeepsListening
CHECK_DEADLOCK FALSE
