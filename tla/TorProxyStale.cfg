SPECIFICATION Spec
CONSTANTS
  app = app
  torUid = torUid
  Uids = {app}
  TorUid = torUid
  MaxRules = 4
INVARIANT NoCircuitWithoutTor
