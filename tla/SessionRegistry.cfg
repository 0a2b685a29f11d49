SPECIFICATION Spec
CONSTANTS
  Sessions = {s1, s2, s3}
  Devices = {board}
  Names = {work}
  DefaultName = work
  Requested = {1}
  MaxSwept = 1
  NoSession = NoSession
  NoDevice = NoDevice
  NoName = NoName
SYMMETRY Symmetric
INVARIANTS NothingStray DuplicatesOverlapped
PROPERTIES DefaultKept ExplicitStable
