\* Two versions that work, one that fails and one that hangs; three mishaps.
SPECIFICATION Spec
CONSTANTS
  Versions = {1, 2, 3, 4}
  Broken = {3, 4}
  Hanging = {4}
  MaxMishaps = 3
  Careful = TRUE
INVARIANTS TypeOK AlwaysServed GreenSpared 
