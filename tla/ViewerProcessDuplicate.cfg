\* ssh-viewer-ensure: one viewer for a binding.
SPECIFICATION Spec
CONSTANTS
  NServers = 2
  NViewers = 2
  Bindings = {b1}
  Calls = {c1, c2}
  MaxRecycled = 1
SYMMETRY Symmetric
INVARIANT SingletonScoped
CHECK_DEADLOCK FALSE
