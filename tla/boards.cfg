\* The read models beside one console; three joins, of which j1 and j2 are one click sent
\* twice, with contacts in common; consistent reads; tickets 9 and 10.  With the counter,
\* two guards of contacts, ten of tokens and ten entries the display's query has one item
\* too many; with fewer it has not.
SPECIFICATION BoardSpec
CONSTANTS
  j1 = j1
  j2 = j2
  j3 = j3
  e1 = e1
  p1 = p1
  k1 = k1
  None = None
  Joins = {j1, j2, j3}
  Identities = {e1, p1}
  ContactsOf <- OverlappingContacts
  IdemKeys = {k1}
  KeyOf <- RetriedClick
  Staff = {s1}
  Ops = {"next"}
  Retries = 2
  MaxRecalls = 1
  PadWidth = 2
  Issued = 8
  LastTicket = 10
  EventualReads = FALSE
  Kinds = {"public", "display", "session", "staff"}
  DisplayLimit = 22
  ServiceMinutes = 5
INVARIANTS
  OneActivePerContact
  IdempotentJoins
  ServedIsNotNext
  TurnIsNotEarly
  PlacesAgree
PROPERTIES
  NextUpIsComplete
