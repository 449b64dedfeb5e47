\* A poll still unanswered when a stream that was connecting fails.
CONSTANTS
  Keep = 2  MaxEvents = 1  MaxBoots = 1
  MaxPolls = 2  MaxTroubles = 2
SPECIFICATION Spec
PROPERTIES
  OnwardOnly
CHECK_DEADLOCK FALSE
