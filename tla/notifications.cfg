\* A call and a closure, in batches of two to two workers that may stop anywhere; every call
\* of the store may fail but the put for a customer of the closure.
SPECIFICATION FairSpec
CONSTANTS
  called = called
  closed = closed
  w1 = w1
  w2 = w2
  Targeted = {called}
  Closures = {closed}
  Tickets = {1, 2}
  Late = {}
  TicketOf <- FirstCalled
  ContactsOf <- FirstOnly
  Configured = {"email", "sms"}
  Workers = {w1, w2}
  BatchSize = 2
  MaxReceives = 2
  MaxCopies = 1
  Failing = {"claim", "list", "contact"}
INVARIANTS
  SentAtMostOnce
  DeletedWasClaimed
  ClosureReachesAll
PROPERTIES
  ImplementsPromise
  MessagesEnd
CHECK_DEADLOCK FALSE
