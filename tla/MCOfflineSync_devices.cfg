SPECIFICATION Spec
CONSTANTS
  Devices = {phone, tablet}
  ClientOf <- SameClient
  Docs = {order, visit}
  Fields = {name}
  NoRow = NoRow
  Incomplete = {}
  Workers = {w1}
  MaxChanges = 2
  MaxFaults = 0
INVARIANT
  ConfirmedIsStored
CHECK_DEADLOCK FALSE
