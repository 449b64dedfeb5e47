\* No serve is killed: one is told to stop, and two clients look meanwhile.
CONSTANTS
  alice = alice  bob = bob
  Clients <- Clients_2
  MaxServes = 3  MaxCalls = 4  MaxInstalls = 0  MaxKills = 0
SPECIFICATION Spec
INVARIANTS
  OneServe
CHECK_DEADLOCK FALSE
