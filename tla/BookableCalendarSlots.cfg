\* Two guests book the same opening at once.
SPECIFICATION Spec
CONSTANTS
  r1 = r1
  r2 = r2
  Requests = {r1, r2}
  Ops = {"book"}
  Sizes = {1, 2}
  Openings <- People
  NoList = NoList
  NoContact = NoContact
  MaxContacts = 2
  MaxBookings = 4
INVARIANT WithinSlots
\* Ids run out.
CHECK_DEADLOCK FALSE
