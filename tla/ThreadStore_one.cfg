\* One scope, one thread: two Sends, two deliveries, each claimed twice, the clock.
CONSTANTS
  alice = alice  bob = bob  s1 = s1  t1 = t1
  NoOwner = NoOwner
  Sessions <- Sessions_2
  Scopes = {s1}
  Threads = {t1}
  ThreadScope <- OneScope
  MaxMessages = 2
  MaxBatches = 2
  MaxDeliveries = 2
  MaxClaims = 2
  MaxNow = 1
  PresenceTTL = 1
  Acknowledgements <- WorkAndAnswer
SPECIFICATION Spec
SYMMETRY SessionSymmetry
INVARIANTS
  TypeOK OpenIsCarried ShownIsWhole InFlightHasOpen OwnerHolds
PROPERTIES
  MovesAreDrawn ClaimSparesTheFresh ImplementsHandout ImplementsTenure
