------------------------------- MODULE MCPages --------------------------------
(***************************************************************************)
(* Pages, one tour of the site at a time: a tour says between which pages   *)
(* the tab moves.                                                          *)
(***************************************************************************)
EXTENDS Pages

CONSTANT Tours  \* model bound: the sets of views that one behaviour visits

VARIABLE tour

SmallTours ==
  { {"join", "status"}, {"display", "landing"}, {"console", "onboarding"},
    {"dashboard", "login", "landing"}, {"analytics", "directory"}, {"signup", "onboarding"} }

\* Customers are not signed in; where staff go, the customer's entry does not matter.
StartsAt(views) ==
  /\ page[1].view \in views
  /\ session.has => views \cap Protected # {}
  /\ customer.state = "waiting" => "status" \in views

TourInit == Init /\ tour \in Tours /\ StartsAt(tour)
TourNext ==
  /\ Next
  /\ page'[current'].view \in tour
  /\ tour' = tour
TourSpec == TourInit /\ [][TourNext]_<<vars, tour>>
================================================================================
