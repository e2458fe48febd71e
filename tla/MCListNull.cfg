CONSTANTS
  t1 = t1
  t2 = t2
  r1 = r1
  h1 = h1
  h2 = h2
  ann = ann
  bufferKey = bufferKey
  size = size
  Threads = {t1, t2}
  Keys = {bufferKey}
  EnvFile <- MCEnvFile
  BufferKey = bufferKey
  Words = {ann}
  Null = Null
  NoOne = NoOne
  Readers = {r1}
  Addrs = {h1, h2}
  Users = {ann}
  MaxLines = 2
  OpenMayFail = TRUE
SPECIFICATION Spec
INVARIANTS ListingComplete
