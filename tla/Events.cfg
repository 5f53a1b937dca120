\* A channel of two, batches of two, and one failed write or exit.
SPECIFICATION FairSpec
CONSTANTS
  Buffer = 2
  BatchSize = 2
  MaxEvents = 6
  MaxMishaps = 1
CHECK_DEADLOCK FALSE
INVARIANTS TypeOK Accounted WrittenOnce OvertakesBounded
PROPERTIES LogSpec EventuallyWritten
