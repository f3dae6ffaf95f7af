SPECIFICATION Spec
CONSTANTS
  None = None
  pinned = pinned
  other = other
  moved = moved
  first = first
  second = second
  odd = odd
  s1 = s1
  s2 = s2
  maker = maker
  Ports <- TwoPorts
  Nodes = {n1, n2}
  Keyboards <- TheKeyboards
  Chassis <- TheChassis
  Interfaces <- TheInterfaces
  Descriptor <- TheDescriptors
  Collections <- TheCollections
  Serial <- TheSerials
  Conforming <- TheConforming
  MaxChanges = 3
INVARIANTS
  TypeOK
  OnlyConfirmed
  SerialBound
  ReadinessStands
  GateStands
SYMMETRY
  Symmetry
