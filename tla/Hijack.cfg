SPECIFICATION Spec
CONSTANTS
  north = north
  south = south
  ann = ann
  bob = bob
  j1 = j1
  j2 = j2
  Pools = {north, south}
  Agents = {ann, bob}
  Home <- HomeOf
  Seed = {ann}
  EnvPeers <- NoEnv
  Letters = {1}
  Sends = {1}
  Invites = {1}
  Joins = {j1}
  Host = ann
  MaxRestarts = 0
CHECK_DEADLOCK FALSE
INVARIANT PeersListTheirOwn
