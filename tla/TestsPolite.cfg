\* Two operators: one works on the stage, the other may cancel its tests.
SPECIFICATION FairSpec
CONSTANTS
  c1 = c1
  c2 = c2
  Stage = stage
  Clients = {c1, c2}
  Slots = {1}
  MaxSequence = 2
  MaxMishaps = 1
  Polite = TRUE
INVARIANTS TypeOK UniqueTestIDs NoStaleCancel EnvBehindStage
PROPERTIES OutcomeStays TestsEnd
