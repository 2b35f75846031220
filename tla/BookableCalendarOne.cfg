\* One call after the other.
SPECIFICATION Spec
CONSTANTS
  r1 = r1
  r2 = r2
  Requests = {r1}
  Ops = {"book", "edit", "checkIn", "cancel", "drop"}
  Sizes = {0, 1, 2, 3}
  Openings <- PeopleOrParties
  NoList = NoList
  NoContact = NoContact
  MaxContacts = 3
  MaxBookings = 5
INVARIANTS TypeOK WithinSlotsOneByOne ListExact OwnedByContact
\* Ids run out.
CHECK_DEADLOCK FALSE
