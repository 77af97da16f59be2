SPECIFICATION Spec
CONSTANTS
  Objects = {o1, o2, o3}
  Rings = {r1, r2}
  Fds <- MCFds
  NoFd <- MCNoFd
  MaxFails = 2
SYMMETRY Symmetry
INVARIANTS TypeOK OneOwner HeldIsOpen NoLeak CloseCancelsAll
