\* Two lines of an earlier attempt, four new ones, two failed calls or restarts.
SPECIFICATION FairSpec
CONSTANTS
  OldLines = 2
  MaxLines = 6
  MaxMishaps = 2
INVARIANTS TypeOK TestLogComplete SentInOrder NoGap
PROPERTIES StreamEnds LeaverFreed
