SPECIFICATION Spec
CONSTANTS
  h1 = h1
  h2 = h2
  h3 = h3
  r1 = r1
  r2 = r2
  r3 = r3
  r4 = r4
  Hubs <- MCHubs
  Requests <- MCRequests
  HubOf <- MCHubOf
  Mutating = {r1, r2, r3, r4}
  NoHub = NoHub
  MaxQueueDepth = 2
  Scenarios <- MCOtherCloses
INVARIANT LeaseEnds
CHECK_DEADLOCK FALSE
