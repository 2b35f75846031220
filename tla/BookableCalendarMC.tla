--------------------------- MODULE BookableCalendarMC ---------------------------
(* Guests and staff at the same time, or one after the other. *)
EXTENDS BookableCalendar

CONSTANTS r1, r2

TwoPeople == [slots |-> 2, asParties |-> FALSE, maxParty |-> 0]
TwoParties == [slots |-> 2, asParties |-> TRUE, maxParty |-> 2]

People == {TwoPeople}
PeopleOrParties == {TwoPeople, TwoParties}
================================================================================
