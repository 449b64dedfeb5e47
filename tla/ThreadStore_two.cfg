\* Three messages, two Sends and two deliveries claimed once each; two scopes, or
\* two threads of one (OwnersAndSends).
CONSTANTS
  alice = alice  bob = bob  s1 = s1  s2 = s2  t1 = t1  t2 = t2  t3 = t3
  NoOwner = NoOwner
  Sessions <- Sessions_2
  Scopes = {s1, s2}
  Threads = {t1, t2, t3}
  ThreadScope <- ThreeThreads
  MaxMessages = 3
  MaxBatches = 2
  MaxDeliveries = 2
  MaxClaims = 1
  MaxNow = 1
  PresenceTTL = 1
  Acknowledgements <- Answers
SPECIFICATION Spec
CONSTRAINT OwnersAndSends
SYMMETRY SessionSymmetry
INVARIANTS
  CarriesItsSend PlacesDiffer DraftsWait AnsweredOnce
PROPERTIES
  TakeoverBrings
