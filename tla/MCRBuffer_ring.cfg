SPECIFICATION Spec
CONSTANTS
  Addr = {a1, a2, a3, a4}
  NULL = NULL
  Objects = {x, y}
  m_size = 3
INVARIANTS TypeOK Circular
PROPERTIES ImplementsRing
SYMMETRY AddressSymmetry
CHECK_DEADLOCK FALSE
