\* Two consoles press next: are two customers called at once?
SPECIFICATION Spec
CONSTANTS
  j1 = j1
  j2 = j2
  j3 = j3
  e1 = e1
  p1 = p1
  k1 = k1
  None = None
  Joins = {j1, j2}
  Identities = {e1, p1}
  ContactsOf <- NameOnly
  IdemKeys = {k1}
  KeyOf <- NoKeys
  Staff = {s1, s2}
  Ops = {"next"}
  Retries = 3
  MaxRecalls = 1
  PadWidth = 3
  Issued = 0
  LastTicket = 2
  EventualReads = FALSE
INVARIANTS
  AtMostOneCalled
