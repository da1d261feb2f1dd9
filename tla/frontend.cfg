\* Two pages in memory and two calls under way, on every tour of the site; a tour may end
\* where the next page would be outside of it.
SPECIFICATION TourSpec
CONSTANTS
  Tours <- SmallTours
  Visits = {1, 2}
  Slots = {1, 2}
INVARIANTS
  LockIsAnOperation
  DoneAtMostOnce
  LeftPagesAreSilent
  ConfirmedMeansGone
  SpinnersAreLoading
CHECK_DEADLOCK FALSE
