SPECIFICATION Spec
CONSTANTS
  Sock = {g, h}
  Fd = {0, 1, 2, 3}
INVARIANTS Ownership NoLeak Usable
PROPERTIES OthersKept
