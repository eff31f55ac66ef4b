SPECIFICATION MCFairSpec
CONSTANTS
  ana = ana
  beto = beto
  direct = direct
  Users = {ana, beto}
  Tabs = {t1}
  NoTab = NoTab
  Convs = {direct}
  MaxLegs = 32
  MeshMax = 4
  ClassMax = 8
  Sfu = FALSE
  Calls = {c1}
  NoCall = NoCall
  Members <- DirectMembers
  Kind <- DirectKind
  Procs = {p1}
  Sweeper = Sweeper
  CasRetries = 1
  MaxRequests = 1
  MaxFaults = 1
  MaxSockets = 1
INVARIANTS
  PresenceTypeOK
  RoomEntered
PROPERTIES
  AbsentLegsGo
  EveryCallEnds
  EveryEndIsLogged
