\* One console, consistent reads; the tickets 9 and 10 of a queue with padWidth 2.
SPECIFICATION FairSpec
CONSTANTS
  j1 = j1
  j2 = j2
  j3 = j3
  e1 = e1
  p1 = p1
  k1 = k1
  None = None
  Joins = {j1, j2}
  Identities = {e1, p1}
  ContactsOf <- NameOnly
  IdemKeys = {k1}
  KeyOf <- FirstKeyed
  Staff = {s1}
  Ops = {"next", "skip", "recall"}
  Retries = 3
  MaxRecalls = 1
  PadWidth = 2
  Issued = 8
  LastTicket = 10
  EventualReads = FALSE
INVARIANTS
  OnlyServingIsCalled
  NextIsSmallest
PROPERTIES
  AscendingCalls
  RequestsEnd
  SeenCustomersAreCalled
