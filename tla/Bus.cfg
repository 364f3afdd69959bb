SPECIFICATION Spec
CONSTANTS
  c1 = c1
  c2 = c2
  c3 = c3
  Agents = {1, 2, 3}
  SeedRole <- Roster
  Calls = {c1, c2, c3}
  Capacity = 1
  MaxRestarts = 1
SYMMETRY Symmetry
CHECK_DEADLOCK FALSE
INVARIANTS TypeOK FanoutIsWhole RolesAreKnown BoxesAreBounded LettersAreAnnounced
