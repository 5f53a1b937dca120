\* Two tags that share a binary, a stage of each, two operators, one mishap.
SPECIFICATION Spec
CONSTANTS
  e1 = e1
  e2 = e2
  k1 = k1
  k2 = k2
  c1 = c1
  c2 = c2
  Tags = {1, 2}
  Trimmed <- Shared
  Envs = {e1}
  Commits = {k1, k2}
  HeadCommit = head
  NoCommit = none
  Clients = {c1, c2}
  MaxMoves = 2
  MaxMishaps = 1
  Polite = TRUE
SYMMETRY Symmetry
INVARIANTS TypeOK CheckoutOfRelease BinaryOfRelease
PROPERTIES LostToSharer
