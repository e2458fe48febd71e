CONSTANTS
  c1 = c1
  c2 = c2
  c3 = c3
  h1 = h1
  h2 = h2
  h3 = h3
  ann = ann
  bob = bob
  p1 = p1
  p2 = p2
  pg1 = pg1
  pg2 = pg2
  Conns = {c1, c2}
  Hosts = {h1, h2}
  HostOf <- MCHostOf
  StrayHost = h3
  Texts = {ann, bob}
  Refs <- MCRefs
  Garbled = Garbled
  NoRow = NoRow
  Gone = Gone
  Msgs <- CustomerMsgs
  Handles = {pg1}
  NoHandle = NoHandle
  NoCmd = NoCmd
  MaxId = 1
  MaxBatch = 1
  MaxQueue = 3
  QueryFaults = {}
  ConnectMayFail = FALSE
  AcceptMayFail = TRUE
  FileFaults = {}
  InitDb <- EmptyDb
  Clients = {p1, p2}
  HostAt <- MCHostAt
  Admins = {}
  UserMsgs <- CustomerUser
  Pages = {"Customer"}
  MayQuit = TRUE
  NoConn = NoConn
  Nobody = Nobody
SPECIFICATION CSpec
INVARIANTS LoggedInListed
