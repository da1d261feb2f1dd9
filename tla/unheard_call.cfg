\* The customer who is called has the status page open.
SPECIFICATION FairSpec
CONSTANTS
  board = board
  phone = phone
  ann = ann
  queue = queue
  Pages = {board, phone}
  Customers = {ann}
  Queue = queue
  ScopeOf <- BoardAndPhone
  None = None
  Broadcasters = {b1}
  EventTypes = {"NEXT_CALLED"}
  MaxEvents = 1
  MaxSockets = 1
CHECK_DEADLOCK FALSE
PROPERTY TargetedEventsReachTheCustomer
