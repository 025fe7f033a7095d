SPECIFICATION Spec
CONSTANTS
  Clients = {c1}
  Monitor = monitor
  Ifaces = {i1}
  Endpoints = {e1}
  Unset = unset
  MaxLeaked = 0
INVARIANT NoLeakWhileVpnDown
