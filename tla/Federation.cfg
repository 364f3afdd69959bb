SPECIFICATION FairFederationSpec
CONSTANTS
  north = north
  south = south
  ann = ann
  bob = bob
  Pools = {north, south}
  Agents = {ann, bob}
  Home <- HomeOf
  Seed = {ann}
  EnvPeers <- Ring
  Letters = {1}
  Sends = {1}
  MaxRestarts = 2
CHECK_DEADLOCK FALSE
INVARIANTS FederationTypeOK ForwardedIsStored OneLink
PROPERTIES SendersAreAnswered TakenOnce
