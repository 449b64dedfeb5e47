\* Two serves one after the other, two events each, the older one trimmed from
\* the log; a connection lost, or the tab hidden or shown, once.
CONSTANTS
  Keep = 1  MaxEvents = 2  MaxBoots = 2
  MaxPolls = 2  MaxTroubles = 1
SPECIFICATION FairSpec
INVARIANTS
  TypeOK OpenIsLive NeverDeaf GapsAreKnown
PROPERTIES
  CatchesUp ImplementsFeed
CHECK_DEADLOCK FALSE
