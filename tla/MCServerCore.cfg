CONSTANTS
  c1 = c1
  c2 = c2
  h1 = h1
  h2 = h2
  h3 = h3
  ann = ann
  bob = bob
  pg1 = pg1
  pg2 = pg2
  Conns = {c1, c2}
  Hosts = {h1}
  HostOf <- MCOneHost
  StrayHost = h3
  Texts = {ann, bob}
  Refs <- MCRefs
  Garbled = Garbled
  NoRow = NoRow
  Gone = Gone
  Msgs <- CoreMsgs
  Handles = {pg1, pg2}
  NoHandle = NoHandle
  NoCmd = NoCmd
  MaxId = 1
  MaxBatch = 1
  MaxQueue = 1
  QueryFaults = {"LOGIN"}
  ConnectMayFail = TRUE
  AcceptMayFail = TRUE
  FileFaults = {"add", "remove"}
  InitDb <- MCInitDb
SPECIFICATION Spec
INVARIANTS TypeOK Shape HandleOwnership SessionBacked PoolSuffices
PROPERTIES KeepsSessions
SYMMETRY Alike
