SPECIFICATION Spec
CONSTANTS
  Nodes = {n1, n2}
  Items = {i1}
  Shared = {}
  Hosts = {n1}
  Reading = {n2}
  Timed = {n1}
  Ttl = 2
  MaxOpens = 1
  MaxEnds = 1
  Nobody = Nobody
  Lost = Lost
INVARIANT StoppedLeavesNothing
