\* A board and a customer's page, who may ask to leave; two sockets, so that one page can
\* reconnect or both be open; an event that may be handed to two broadcasters at once.
SPECIFICATION FairSpec
CONSTANTS
  board = board
  phone = phone
  ann = ann
  queue = queue
  Pages = {board, phone}
  Customers = {ann}
  Queue = queue
  ScopeOf <- BoardAndPhone
  None = None
  Broadcasters = {b1, b2}
  EventTypes = {"TURN_APPROACHING", "QUEUE_PAUSED"}
  MaxEvents = 1
  MaxSockets = 2
CHECK_DEADLOCK FALSE
INVARIANTS IInv MessagesStayPrivate
PROPERTIES ForgottenStaysForgotten ListenersHear StaleAreForgotten
