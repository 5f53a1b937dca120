\* One operator who starts a test while another one is finishing.
SPECIFICATION Spec
CONSTANTS
  c1 = c1
  c2 = c2
  Stage = stage
  Clients = {c1}
  Slots = {1, 2}
  MaxSequence = 2
  MaxMishaps = 0
  Polite = FALSE
INVARIANTS UniqueTestIDs
