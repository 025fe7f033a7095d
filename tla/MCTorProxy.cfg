SPECIFICATION FairSpec
CONSTANTS
  app = app
  torUid = torUid
  Uids <- MCUids
  TorUid = torUid
  MaxRules = 4
INVARIANTS
  TypeOK
  BypassIsExact
  TorIsNeverLooped
  ApplyIsIdempotent
  DisableRestoresRouting
PROPERTY RequestsEnd
