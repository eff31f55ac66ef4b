SPECIFICATION RedialSpec
CONSTANTS
  ana = ana
  beto = beto
  carla = carla
  direct = direct
  group = group
  Users = {ana, beto, carla}
  Tabs = {t1}
  NoTab = NoTab
  Convs = {direct, group}
  MaxLegs = 32
  MeshMax = 4
  ClassMax = 8
  Sfu = FALSE
  Calls = {c1, c2}
  NoCall = NoCall
  Members <- TwoMembers
  Kind <- TwoKind
  Procs = {p1, p2}
  Sweeper = Sweeper
  CasRetries = 1
  MaxRequests = 2
  MaxFaults = 0
SYMMETRY TwoSymmetry
INVARIANTS
  OneLiveCall
