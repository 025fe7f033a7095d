SPECIFICATION FairSpec
CONSTANTS
  Clients = {c1}
  Monitor = monitor
  Ifaces = {i1}
  Endpoints = {e1}
  Unset = unset
  MaxLeaked = 1
PROPERTIES
  MonitorRestoresBlock
