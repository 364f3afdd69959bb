SPECIFICATION FairSpec
CONSTANTS
  l1 = l1
  h1 = h1
  h2 = h2
  reader = reader
  ghost = ghost
  Letters = {l1}
  Handlers = {h1, h2}
  Clients = {reader}
  Reading = {reader}
  Capacity = 2
  Ghost = ghost
INVARIANTS TypeOK NothingSlipsBy
PROPERTIES ObserversCatchUp
