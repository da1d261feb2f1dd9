\* Two joins with an address in common, one of them under a key; leaves; two consoles that
\* are interchangeable and send every operation but skip and recall; reads lag; two requests
\* are under way at a time.  Tickets 1 and 2.
SPECIFICATION Spec
CONSTANTS
  j1 = j1
  j2 = j2
  j3 = j3
  e1 = e1
  p1 = p1
  k1 = k1
  None = None
  Joins = {j1, j2}
  Identities = {e1, p1}
  ContactsOf <- OverlappingContacts
  IdemKeys = {k1}
  KeyOf <- FirstKeyed
  Staff = {s1, s2}
  Ops = {"next", "pause", "resume", "close", "reopen"}
  Retries = 1
  MaxRecalls = 1
  PadWidth = 3
  Issued = 0
  LastTicket = 2
  EventualReads = TRUE
SYMMETRY Consoles
CONSTRAINT TwoAtOnce
INVARIANTS
  IInv
  TicketsUnique
  CounterMirrorsMeta
  CalledAtMostOnce
  CountsStrictlyBefore
PROPERTIES
  ImplementsPromise
  TicketsOnlyWhileOpen
  EntriesMoveForward
