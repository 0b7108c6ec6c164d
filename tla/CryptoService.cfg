CONSTANTS
  Clients = {"A", "B"}
  Careful = {"A"}
  Ops = {"hA", "hA2", "hB", "mA", "mB", "cA", "cB", "dA", "dB"}
  Populations <- MCPopulations
  OpOwner <- MCOpOwner
  OpType <- MCOpType
  NumContexts = 2
  MaxKeyHandles = 3
  NumVendorSlots = 1
  VolatileIds = {"v1", "v2"}
  ChosenIds <- MCSharedIds
  MaxParts = 1
SPECIFICATION Spec
INVARIANTS TypeOK ContextsAccounted VolatileEntriesExact
PROPERTIES ClientsIsolated
