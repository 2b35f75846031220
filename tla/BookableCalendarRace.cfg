\* Two requests at once on one contact.
SPECIFICATION FairSpec
CONSTANTS
  r1 = r1
  r2 = r2
  Requests = {r1, r2}
  Ops = {"book", "edit", "cancel", "checkIn"}
  Sizes = {1, 2}
  Openings <- People
  NoList = NoList
  NoContact = NoContact
  MaxContacts = 1
  MaxBookings = 3
INVARIANT ShownWithinSlots
PROPERTY CallEndsUnlessDangling
\* Ids run out.
CHECK_DEADLOCK FALSE
