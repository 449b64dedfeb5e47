\* One component at a time.
CONSTANTS
  c1 = c1  c2 = c2  c3 = c3  s1 = s1  s2 = s2  v1 = v1  v2 = v2  v3 = v3  r1 = r1  r2 = r2
  Rooms = {r1, r2}  Servers = {v1, v2, v3}  Channels = {c1, c2, c3}  Sessions = {s1, s2}
  SessionOf <- SessionOf_3  Newer = {v3}  Nobody = Nobody
  MaxWrites = 3  MaxLocks = 2  MaxClaims = 2  MaxScans = 1  MaxDeaths = 1
  Calls = {1, 2}  MaxCodes = 2  MaxCalls = 4  MaxAsks = 2
  Procs = {1, 2, 3}  Known <- OneOldBuild  NoProc = NoProc  MaxFaults = 2
  Takers = {1, 2, 3}  Tokens = {1, 2, 3, 4}  None = 0  Junk = 99
  Updaters = {1, 2}  MaxRelease = 3  MaxRuns = 3
  TabIds = {1, 2}  Pages = {0, 1}  FrontPage = 0
  Silence = 1  MaxNow = 3  MaxRequests = 3  MaxStarts = 2
  Callers = {1, 2}  Harnesses = {1}  MaxDirs = 2  MaxInstalls = 2  MaxChanges = 2
SPECIFICATION Spec
SYMMETRY Alike
INVARIANTS
  OneListenerUnlessUnlinked HeardUnlessRobbed ScanFindsTheSteady NoSecondWindow
  StaysSignedOut EachStepOnce OneTokenForAll WholeRelease OnlyItsOwn
CHECK_DEADLOCK FALSE
