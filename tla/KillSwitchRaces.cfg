SPECIFICATION Spec
CONSTANTS
  Clients = {c1, c2}
  Monitor = monitor
  Ifaces = {i1}
  Endpoints = {e1}
  Unset = unset
  MaxLeaked = 0
SYMMETRY ClientSymmetry
INVARIANTS
  TypeOK
  DropIsOnItsWay
  RulesMatchRecord
