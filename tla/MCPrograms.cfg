CONSTANTS
  Keys = {k1, k2}
  Values = {v1, v2}
  DAMAGED = DAMAGED
  MaxOpen = 2
  Procs = {p1, p2}
  NRows = 2
  BusyTimes = 1
  Years = {1900, 2000, 2019, 2020}
  Days = {1, 27, 28, 29, 30, 31}
  Hours = {15, 16}
  Types = {1, 2}
  Lengths = {0, 1, 2}
  BufLen = 1
  Receivers = {r1, r2}
  QueueCap = 2
  Retries = 2
  Polls = 1
  MaxSent = 3
  Bytes = {0, 1, 85, 190, 255}
  MaxBytes = 4
  IntBits = 8
  Radixes = {2, 10, 16}
  HexChars = {49, 65, 120, 32}
  MaxChars = 5
  Tails <- MCTails
  LLONG_MAX = 99
  DBL_MAX = 999990000
  DBL_DIG = 3
  CJSON_NESTING_LIMIT = 2
  Trees <- MCTrees
  Texts <- MCTexts
  Documents <- MCDocuments
  Pointers <- MCPointers
  Additions <- MCAdditions
  Fields <- MCFields
  FieldSize = 3
  AddrCount = 2
  INT_MAX = 49
  Structs <- MCStructs
  Configs <- MCConfigs
  Speeds = {115200, 9600}
  Requests <- MCRequests
  MaxOpens = 2
  RxSize = 3
  SendTries = 2
  MaxLines = 2
  MaxArrivals = 5
  Clients = {c1, c2, c3}
  Children = {s1, s2}
  MaxConns = 2
  Backlog = 1
  Volume = 2
  Window = 1
  Conns = {n1, n2}
  PieceSize = 2
  MaxEvents = 2
  MaxGiven = 3
  RmcSentences <- MCRmcSentences
  GgaSentences <- MCGgaSentences
  MaxHeard = 4
SPECIFICATION Spec
INVARIANTS KvKeepsUpdates RowsAsTold CalendarRight MessagesGivenOnce EncodingReadsBack
  TextsReadBack PatchesLead SettingsWhole LineAsAsked AnswersFresh ConnectionsServed
  NothingLeftUnread FixTold
CHECK_DEADLOCK FALSE
