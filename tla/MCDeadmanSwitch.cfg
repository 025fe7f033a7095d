SPECIFICATION FairSpec
CONSTANTS
  keys1 = keys1
  keys2 = keys2
  tok1 = tok1
  tok2 = tok2
  Configs <- MCConfigs
  EnvConfig <- EnvCfg
  SettingsDb = settingsdb
  Period = 2
  MaxDue = 1
  MaxBurst = 4
  MaxSilence = 17
INVARIANTS
  TypeOK
  WipeIsTimely
  NoticeBeforeWipe
PROPERTIES
  KeepsPromise
  SilenceLeadsToWipe
