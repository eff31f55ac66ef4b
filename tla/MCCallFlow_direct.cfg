SPECIFICATION RingingSpec
CONSTANTS
  ana = ana
  beto = beto
  carla = carla
  direct = direct
  group = group
  Users = {ana, beto}
  Tabs = {t1, t2}
  NoTab = NoTab
  Convs = {direct}
  MaxLegs = 32
  MeshMax = 4
  ClassMax = 8
  Sfu = FALSE
  Calls = {c1}
  NoCall = NoCall
  Members <- DirectMembers
  Kind <- DirectKind
  Procs = {p1, p2}
  Sweeper = Sweeper
  CasRetries = 1
  MaxRequests = 2
  MaxFaults = 1
SYMMETRY DirectSymmetry
INVARIANTS
  TypeOK
  CallsOK
  MessageOK
  AttendanceExact
PROPERTIES
  EndedIsFinal
  FirstTabWins
  LeaveFromOwnTab
