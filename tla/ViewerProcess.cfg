SPECIFICATION Spec
CONSTANTS
  NServers = 2
  NViewers = 2
  Bindings = {b1}
  Calls = {c1, c2}
  MaxRecycled = 1
SYMMETRY Symmetric
INVARIANTS ViewersRecorded InfoNamesServer
\* A call that would launch one viewer more than the bound waits.
CHECK_DEADLOCK FALSE
