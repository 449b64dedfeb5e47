\* Two serves, three calls by two clients and an install, all fair.
CONSTANTS
  alice = alice  bob = bob
  Clients <- Clients_2
  MaxServes = 2  MaxCalls = 3  MaxInstalls = 1  MaxKills = 0
SPECIFICATION FairSpec
PROPERTIES
  Noticed CallsReturn
CHECK_DEADLOCK FALSE
