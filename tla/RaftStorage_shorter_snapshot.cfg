SPECIFICATION Spec
CONSTANTS
  Chosen <- Four
  Scenarios <- ShorterSnapshot
INVARIANTS EpisodesAreEntries
CHECK_DEADLOCK FALSE
