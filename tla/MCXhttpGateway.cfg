CONSTANTS
  Ids = {i1, i2}
  any = any
  lo = lo
  ip = ip
  Any = any
  Loopback = lo
  Addrs <- MCAddrs
  ApiPort = 4
  Drafts <- MCDrafts
  Foreign <- MCForeign
  Template <- MCTemplate
  noaddr = noaddr
  NoAddr = noaddr
  NoRow = NoRow
SPECIFICATION FairSpec
INVARIANTS
  TypeOK
  NoSocketClaimedTwice
  SettledIsWanted
  RefusalsAreNamed
  UnchangedIsEditable
PROPERTIES
  ForeignOnlyByWidening
  StaleListenersClose
