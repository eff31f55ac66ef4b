SPECIFICATION FairSpec
CONSTANTS
  Devices = {phone}
  ClientOf <- SameClient
  Docs = {order, form}
  Fields = {name}
  NoRow = NoRow
  Incomplete = {form}
  Workers = {w1, w2}
  MaxChanges = 3
  MaxFaults = 1
INVARIANTS
  TypeOK
  
PROPERTIES
  NeverGoesBack
  Refinement
  EveryChangeLeaves
CHECK_DEADLOCK FALSE
