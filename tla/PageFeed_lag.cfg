\* A reader, poll or stream, the log runs away from.
CONSTANTS
  Keep = 1  MaxEvents = 3  MaxBoots = 1
  MaxPolls = 1  MaxTroubles = 0
SPECIFICATION Spec
INVARIANTS
  OnlyResetsSkip
CHECK_DEADLOCK FALSE
