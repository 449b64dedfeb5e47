\* Three serves, four calls by two clients, an install and a kill or signal.
CONSTANTS
  alice = alice  bob = bob
  Clients <- Clients_2
  MaxServes = 3  MaxCalls = 4  MaxInstalls = 1  MaxKills = 1
SPECIFICATION Spec
SYMMETRY Swap
INVARIANTS
  TypeOK FindableUnlessRobbed FreshRenews
CHECK_DEADLOCK FALSE
