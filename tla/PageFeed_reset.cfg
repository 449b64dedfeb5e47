\* A serve is replaced while the page watches.
CONSTANTS
  Keep = 2  MaxEvents = 1  MaxBoots = 2
  MaxPolls = 1  MaxTroubles = 0
SPECIFICATION Spec
INVARIANTS
  NoSilentGap
CHECK_DEADLOCK FALSE
