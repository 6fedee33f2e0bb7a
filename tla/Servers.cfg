SPECIFICATION MCSpec
CONSTANTS
  Running = {"accept"}
  HopsMax = 3
  Tries = 2
  TtlSize = 3
  Distances = {1}
  Kinds = {"iterative", "fork", "prefork", "select", "fcntl", "mutex", "thread", "tmutex", "pool"}
  NPool = 2
  Ordinary = {o1, o2}
  Unruly = {r1}
  NoConn = NoConn
  NoOne = NoOne
  Procs = {p1, p2}
  Scanners = {p1}
  MaxCalls = 2
  PtrMax = 3
  Keys <- DbKeys
  KeyLen <- DbKeyLen
  Chains <- DbChains
  Calls <- DbCalls
  Files <- DbFiles
  c1 = c1
  c2 = c2
  FREE = FREE
  Blank = "blank"
  Absent = Absent
  Addrs = {x1, x2, x3}
  NULL = NULL
  Chars = {"c", "nl"}
  Streams <- ShortStreams
  MaxStream = 0
  MaxLen = 3
  RlSize = 2
  NL = "nl"
  Base = 4
  Bytes = {0, 1, 3}
  MaxSize = 0
INVARIANT FaultsContained
PROPERTIES ConnAnswered Reaped ShutdownCompletes
CHECK_DEADLOCK FALSE
