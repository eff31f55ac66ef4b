SPECIFICATION Spec
CONSTANTS
  ana = ana
  beto = beto
  carla = carla
  direct = direct
  group = group
  Users = {ana, beto, carla}
  Tabs = {t1}
  NoTab = NoTab
  Convs = {group}
  MaxLegs = 32
  MeshMax = 4
  ClassMax = 8
  Sfu = TRUE
  Calls = {c1}
  NoCall = NoCall
  Members <- GroupMembers
  Kind <- GroupKind
  Procs = {p1}
  Sweeper = Sweeper
  CasRetries = 1
  MaxRequests = 4
  MaxFaults = 0
SYMMETRY GroupSymmetry
PROPERTIES
  Refinement
  SfuIsKept
