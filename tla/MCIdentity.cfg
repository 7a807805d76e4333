SPECIFICATION Spec
CONSTANTS
  Machine = {m1, m2}
  Id = {h1, h2, h3}
  Session = {s1, s2, s3}
  Token = {k1, k2, k3}
  Installed = {m1}
  MaxEdits = 4
  Nothing = Nothing
SYMMETRY Pools
INVARIANTS
  TasksDoNotAlternate
  RestartIsNoClone
  SplitIsDone
  IdentityIsWhole
  NewIdentityIsKnown

CHECK_DEADLOCK FALSE
