SPECIFICATION Spec
CONSTANTS
  Nodes = {n1, n2}
  Items = {i1}
  Shared = {i1}
  Hosts = {n1, n2}
  Reading = {n2}
  Timed = {n1}
  Ttl = 2
  MaxOpens = 2
  MaxEnds = 0
  Nobody = Nobody
  Lost = Lost
INVARIANT OwnerAnswers
