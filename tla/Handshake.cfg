SPECIFICATION Spec
CONSTANTS
  north = north
  south = south
  ann = ann
  bob = bob
  j1 = j1
  j2 = j2
  Pools = {north, south}
  Agents = {ann, bob}
  Home <- HomeOf
  Seed = {ann}
  EnvPeers <- NoEnv
  Letters = {1}
  Sends = {}
  Invites = {1}
  Joins = {j1, j2}
  Host = ann
  MaxRestarts = 1
SYMMETRY Symmetry
CHECK_DEADLOCK FALSE
INVARIANTS TypeOK InviteIsSpentOnce LinkIsMutual
