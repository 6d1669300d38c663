CONSTANTS
  Primary = Primary
  Secondary = Secondary
  Globals = {g1, g2}
  LowPages = {g1}
  Tracked = {t1, t2}
  MaxSnapshotPages = 3
  MaxChannelPages = 2
  RetryMax = 2
  LostMax = 2
  MaxScans = 2
  MaxHost = 2
SPECIFICATION HsLiveSpec
INVARIANTS
  OneMaster
  NoTornSnapshot
PROPERTY SilenceNoticed
CHECK_DEADLOCK FALSE
