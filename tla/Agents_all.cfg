\* pi: one Send, one turn, two serves, a tool call. Claude Code: two turns, two
\* starts, one crash, one prompt dropped, one report failed.
CONSTANTS
  PiSends = 1  PiTurns = 1  MaxServes = 2  OutCap = 1  ReportCap = 1  MaxCalls = 1
  ClaudeSends = 1  ClaudeTurns = 2
  MaxStarts = 2  MaxCrashes = 1  MaxDrops = 1  MaxFailures = 1
SPECIFICATION FairSpec
INVARIANTS
  AgentsTypeOK NeverAhead NothingTwice
PROPERTIES
  EndsAreTold ClaimsArrive ListensAgain
CHECK_DEADLOCK FALSE
