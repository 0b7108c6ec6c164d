CONSTANTS
  p1 = p1
  p2 = p2
  Partitions = {p1, p2}
  NS = NS
  Callers = {c1, c2}
  NoAgent = NoAgent
  Services = {"s1", "s2"}
  Owner <- MCOwner
  Stateless = {"s2"}
  Deps <- MCDeps
  NsServices = {"s1", "s2"}
  IrqOwners = {p1}
  StartOrders <- MCStartOrders
  Priors <- MCPriors
  Topologies = {"single", "multi"}
  ConnectReplies = {"success", "refused"}
  NumHandles = 2
  MaxInputs <- MCMaxInputs
SPECIFICATION DriverSpec
INVARIANTS WaitReturnsSignals
CHECK_DEADLOCK FALSE
