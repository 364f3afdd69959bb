SPECIFICATION FairSpec
CONSTANTS
  alice = alice
  bob = bob
  t1 = t1
  t2 = t2
  Agents = {bob}
  Seed = {bob}
  Remotes = {bob}
  Letters = {1}
  Spawned = {t1}
  Sweeper = Sweeper
  Vias = {"a2a"}
  Results = {"ok", "error"}
  MaxAttempts = 2
  Durable = TRUE
  Capacity = 1
  HasPeers = TRUE
  MaxRestarts = 1
INVARIANTS HonestReceipt
PROPERTIES FlightEnds NoLetterForgotten MovesAlongTable
