\* The record of a customer cannot be written while a closure is fanned out.
SPECIFICATION Spec
CONSTANTS
  called = called
  closed = closed
  w1 = w1
  w2 = w2
  Targeted = {called}
  Closures = {closed}
  Tickets = {1, 2}
  Late = {}
  TicketOf <- FirstCalled
  ContactsOf <- Both
  Configured = {"email", "sms"}
  Workers = {w1}
  BatchSize = 2
  MaxReceives = 2
  MaxCopies = 1
  Failing = {"claimCustomer"}
PROPERTIES
  PassedOverWasNotified
CHECK_DEADLOCK FALSE
