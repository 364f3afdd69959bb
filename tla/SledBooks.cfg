SPECIFICATION Spec
CONSTANTS
  alice = alice
  bob = bob
  c1 = c1
  c2 = c2
  c3 = c3
  Agents = {bob}
  Letters = {1}
  Callers = {c1, c2, c3}
  MaxAttempts = 2
  Durable = TRUE
  Capacity = 1
SYMMETRY Symmetry
CHECK_DEADLOCK FALSE
INVARIANTS TypeOK BooksAgree DeathNeedsClaims
