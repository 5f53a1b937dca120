\* Two operators deploy different stages at once.
SPECIFICATION Spec
CONSTANTS
  s1 = s1
  s2 = s2
  c1 = c1
  c2 = c2
  i1 = i1
  Stages = {s1, s2}
  NoStage = NoStage
  Clients = {c1, c2}
  Instances = {i1}
  Jobs = {1, 2}
  VersionOf <- OwnVersion
  PortStart = 1
  PortEnd = 2
  MaxMishaps = 0
  Polite = TRUE
SYMMETRY Symmetry
INVARIANTS PortsDistinct
