SPECIFICATION Spec
CONSTANTS
  alice = alice
  bob = bob
  t1 = t1
  t2 = t2
  Agents = {bob}
  Seed = {bob}
  Remotes = {}
  Letters = {1}
  Spawned = {t1, t2}
  Sweeper = Sweeper
  Vias = {"webhook"}
  Results = {"ok"}
  MaxAttempts = 2
  Durable = FALSE
  Capacity = 1
  HasPeers = FALSE
  MaxRestarts = 0
PROPERTY NoDoublePush
