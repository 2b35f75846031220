---------------------------- MODULE BookableCalendar ----------------------------
(***************************************************************************)
(* Table reservations of the site: the bookable_calendar module.  A guest  *)
(* (booking contact) books one opening instance, with one booking per      *)
(* person of the party.  Contacts and bookings are rows; the instance      *)
(* keeps a list of its bookings, from which the free slots are counted.    *)
(* A request reads the list, through the entity cache, before it begins    *)
(* the transaction that saves the contact, and writes the whole list.      *)
(***************************************************************************)
EXTENDS Integers, FiniteSets, FiniteSetsExt, Functions

CONSTANTS
  Requests,       \* PHP requests, each serving one call after the other
  Ops,            \* the calls guests and staff make, see Request
  Sizes,          \* party sizes asked for
  Openings,       \* settings of an opening: how many slots, whether a slot is
                  \* a party or a person, and the largest party, 0 for any
  NoList,         \* an instance that is not loaded, or not cached
  NoContact,      \* the contact of a booking that is gone
  MaxContacts,    \* bound: contacts ever created
  MaxBookings     \* bound: bookings ever created

ASSUME BookableAssumption ==
  /\ Sizes \subseteq Nat
  /\ Openings \subseteq [slots : Nat, asParties : BOOLEAN, maxParty : Nat]
  /\ MaxContacts \in Nat
  /\ MaxBookings \in Nat
  /\ \A bs \in SUBSET (1..MaxBookings) : NoList # bs
  /\ NoContact \notin 1..MaxContacts

VARIABLES
  opening,  \* the settings of this one, of Openings; they never change
  contact,  \* the rows of booking_contact: id -> its size and its bookings
  booking,  \* the rows of booking: id -> the contact it belongs to
  list,     \* the field "booking" of the opening instance
  cached,   \* the instance in the entity cache: its list
  req,      \* request -> its state, see Request
  contacts, \* ids of contacts issued
  bookings, \* ids of bookings issued
  unchecked \* auxiliary: bookings that an overtaken edit has added

vars == <<opening, contact, booking, list, cached, req, contacts, bookings,
          unchecked>>

ContactIds == 1..MaxContacts
BookingIds == 1..MaxBookings

(***************************************************************************)
(* "at" is what the request does next and "then" what comes after loading  *)
(* the instance.  "size" and "refs" are the fields of the contact in its   *)
(* memory, "copy" the list of the instance there.  "tx" says that it has   *)
(* written the contact's row; "own" is the list its transaction has        *)
(* written, "added" and "gone" the bookings it has created and deleted,    *)
(* "saved" whether it has saved the instance, and so locked its row and    *)
(* dropped it from the cache; "todo" are the bookings it is about to       *)
(* delete.  "overtaken" is auxiliary: the      *)
(* contact had more people in the table when it was validated than it had  *)
(* bookings when it was loaded.                                            *)
(***************************************************************************)
Request ==
  [at      : {"idle", "load", "fill", "validate", "save", "sync", "remove",
              "commit"},
   then    : {"validate", "sync", "remove"},
   op      : {"book", "edit", "checkIn", "cancel", "drop"},
   contact : ContactIds \cup {NoContact},
   size    : Nat,
   refs    : SUBSET BookingIds,
   copy    : {NoList} \cup SUBSET BookingIds,
   tx      : BOOLEAN,
   own     : {NoList} \cup SUBSET BookingIds,
   added   : SUBSET BookingIds,
   gone    : SUBSET BookingIds,
   todo    : SUBSET BookingIds,
   saved   : BOOLEAN,
   overtaken : BOOLEAN]

Idle == [at |-> "idle", then |-> "validate", op |-> "book",
         contact |-> NoContact, size |-> 0, refs |-> {}, copy |-> NoList,
         tx |-> FALSE, own |-> NoList, added |-> {}, gone |-> {}, todo |-> {},
         saved |-> FALSE, overtaken |-> FALSE]

At(r, place) == req[r].at = place
Goto(r, place) == req' = [req EXCEPT ![r].at = place]
Return(r) == req' = [req EXCEPT ![r] = Idle]

(* The first n bookings of a field: ids grow, and new ones are appended.   *)
First(S, n) == {x \in S : Cardinality({y \in S : y < x}) < n}

Init ==
  /\ opening \in Openings
  /\ contact = [c \in {} |-> Idle]
  /\ booking = [b \in {} |-> NoContact]
  /\ list = {}
  /\ cached = NoList
  /\ req = [r \in Requests |-> Idle]
  /\ contacts = 0
  /\ bookings = 0
  /\ unchecked = {}

--------------------------------------------------------------------------------
(* A call begins: what it is about is loaded. *)

Begin(r, fields) ==
  req' = [req EXCEPT ![r] = [x \in DOMAIN Idle |->
            IF x \in DOMAIN fields THEN fields[x] ELSE Idle[x]]]

(* The bookings a contact has too few of. *)
Lacking(q) ==
  LET n == q.size - Cardinality(q.refs) IN IF n > 0 THEN n ELSE 0

(* What the calls under way have yet to add. *)
NewBookings == UNION {{r} \X (1..Lacking(req[r])) : r \in Requests}
NewContacts == {r \in Requests : /\ ~At(r, "idle") /\ req[r].op = "book"
                                 /\ req[r].contact = NoContact}

(* Bound: there are ids left for that and for one call more. *)
IdsLeft(q) ==
  bookings + Cardinality(NewBookings) + Lacking(q) <= MaxBookings
ContactLeft == contacts + Cardinality(NewContacts) < MaxContacts

(* book(), or the form to add a contact *)
Book(r, size) ==
  /\ At(r, "idle")
  /\ "book" \in Ops
  /\ ContactLeft
  /\ IdsLeft([size |-> size, refs |-> {}])
  /\ Begin(r, [at |-> "load", op |-> "book", size |-> size])
  /\ UNCHANGED <<opening, contact, booking, list, cached, contacts, bookings,
                 unchecked>>

(* The form to edit a contact *)
Edit(r, c, size) ==
  /\ At(r, "idle")
  /\ "edit" \in Ops
  /\ c \in DOMAIN contact
  /\ IdsLeft([contact[c] EXCEPT !.size = size])
  /\ Begin(r, [at |-> "load", op |-> "edit", contact |-> c, size |-> size,
               refs |-> contact[c].refs])
  /\ UNCHANGED <<opening, contact, booking, list, cached, contacts, bookings,
                 unchecked>>

(* checkIn() and checkOut(): the contact is saved without validation, and  *)
(* the instance is not loaded before.                                      *)
CheckIn(r, c) ==
  /\ At(r, "idle")
  /\ "checkIn" \in Ops
  /\ c \in DOMAIN contact
  /\ Begin(r, [at |-> "save", then |-> "sync", op |-> "checkIn",
               contact |-> c, size |-> contact[c].size,
               refs |-> contact[c].refs])
  /\ UNCHANGED <<opening, contact, booking, list, cached, contacts, bookings,
                 unchecked>>

(* Mutant of Bookings: one booking is as good as all. *)
FirstBooking(c) == First(contact[c].refs, 1)

Bookings(c) == contact[c].refs

(* A contact is deleted, and all its bookings before it. *)
Cancel(r, c) ==
  /\ At(r, "idle")
  /\ "cancel" \in Ops
  /\ c \in DOMAIN contact
  /\ Begin(r, [at |-> "load", then |-> "remove", op |-> "cancel",
               contact |-> c, todo |-> Bookings(c)])
  /\ UNCHANGED <<opening, contact, booking, list, cached, contacts, bookings,
                 unchecked>>

(* A single booking is deleted. *)
Drop(r, b) ==
  /\ At(r, "idle")
  /\ "drop" \in Ops
  /\ b \in DOMAIN booking
  /\ Begin(r, [at |-> "load", then |-> "remove", op |-> "drop",
               todo |-> {b}])
  /\ UNCHANGED <<opening, contact, booking, list, cached, contacts, bookings,
                 unchecked>>

--------------------------------------------------------------------------------
(* The instance is loaded and the contact validated. *)

(* The entity cache has the instance, also for a request that has not      *)
(* dropped it there itself.                                                *)
Hit(r) == cached # NoList /\ ~req[r].saved

(* The instance comes from the entity cache or, what is committed, from    *)
(* its tables.  What a transaction that has saved it loads again is in the *)
(* cache for itself alone.                                                 *)
Load(r) ==
  /\ At(r, "load")
  /\ req' = [req EXCEPT
       ![r].copy = IF Hit(r) THEN cached ELSE list,
       ![r].at = IF Hit(r) \/ req[r].saved THEN req[r].then ELSE "fill"]
  /\ UNCHANGED <<opening, contact, booking, list, cached, contacts, bookings,
                 unchecked>>

Fill(r) ==
  /\ At(r, "fill")
  /\ cached' = req[r].copy
  /\ Goto(r, req[r].then)
  /\ UNCHANGED <<opening, contact, booking, list, contacts, bookings, unchecked>>

OwnerOf(b) == IF b \in DOMAIN booking THEN booking[b] ELSE NoContact

(* slotsAvailable() *)
SlotsAvailable(bs) ==
  opening.slots - IF opening.asParties
                  THEN Cardinality({OwnerOf(b) : b \in bs})
                  ELSE Cardinality(bs)

(* The size of the contact before the change, 0 for a new one. *)
OriginalSize(r) ==
  IF req[r].op = "edit" /\ req[r].contact \in DOMAIN contact
  THEN contact[req[r].contact].size ELSE 0

(* Mutant of Vacant: compares with all slots, not with those available.    *)
VacantOfAll(r) == req[r].size <= opening.slots

(* CalendarOpeningVacancy: the slots the contact has already are free to   *)
(* it, and a size that stays is not checked.                               *)
Vacant(r) ==
  LET original == OriginalSize(r)
      available == SlotsAvailable(req[r].copy) + original
  IN
  \/ original # 0 /\ req[r].size = original
  \/ opening.asParties /\ available > 0
  \/ ~opening.asParties /\ req[r].size <= available

(* CalendarOpeningMaxPartySize *)
SmallEnough(r) == opening.maxParty = 0 \/ req[r].size <= opening.maxParty

Validate(r) ==
  /\ At(r, "validate")
  /\ IF Vacant(r) /\ SmallEnough(r)
     THEN req' = [req EXCEPT ![r].at = "save",
                    ![r].overtaken = OriginalSize(r) > Cardinality(req[r].refs)]
     ELSE Return(r)
  /\ UNCHANGED <<opening, contact, booking, list, cached, contacts, bookings,
                 unchecked>>

(* The calendar is closed, or the instance too near, too far or over.      *)
Refuse(r) ==
  /\ At(r, "validate")
  /\ Return(r)
  /\ UNCHANGED <<opening, contact, booking, list, cached, contacts, bookings,
                 unchecked>>

--------------------------------------------------------------------------------
(* The transaction that saves or deletes *)

(* Row locks, until the end of the transaction *)
ContactLocked(r) ==
  \E s \in Requests \ {r} : req[s].tx /\ req[s].contact = req[r].contact
ListLocked(r) == \E s \in Requests \ {r} : req[s].saved

(* The row of a new contact is written. *)
CreateContact(r) ==
  /\ At(r, "save")
  /\ req[r].op = "book"
  /\ contacts' = contacts + 1
  /\ req' = [req EXCEPT ![r].at = "sync", ![r].tx = TRUE,
                        ![r].contact = contacts + 1]
  /\ UNCHANGED <<opening, contact, booking, list, cached, bookings, unchecked>>

(* Mutant of AfterSave: the instance is taken to be in memory. *)
Straight(r) == "sync"

(* postSave() needs the date of the instance. *)
AfterSave(r) == IF req[r].copy = NoList THEN "load" ELSE "sync"

(* The row of a contact is updated; if it is gone, that is an exception.   *)
SaveContact(r) ==
  /\ At(r, "save")
  /\ req[r].op # "book"
  /\ ~ContactLocked(r)
  /\ req[r].contact \in DOMAIN contact
  /\ req' = [req EXCEPT ![r].at = AfterSave(r), ![r].tx = TRUE]
  /\ UNCHANGED <<opening, contact, booking, list, cached, contacts, bookings,
                 unchecked>>

Gone(r) ==
  /\ At(r, "save")
  /\ req[r].op # "book"
  /\ req[r].contact \notin DOMAIN contact
  /\ Return(r)
  /\ UNCHANGED <<opening, contact, booking, list, cached, contacts, bookings,
                 unchecked>>

(* Mutant of Base: the list is read again once it is locked. *)
FreshBase(r) == IF req[r].own = NoList THEN list ELSE req[r].own

(* The list a booking is added to or removed from. *)
Base(r) == IF req[r].own = NoList THEN req[r].copy ELSE req[r].own

(* postSave(): too few bookings.  Each appends itself to the list of the   *)
(* instance in memory, which is written back.                              *)
Add(r) ==
  LET missing == Lacking(req[r])
      new == bookings + 1 .. bookings + missing
  IN
  /\ At(r, "sync")
  /\ missing > 0
  /\ ~ListLocked(r)
  /\ bookings' = bookings + missing
  /\ req' = [req EXCEPT ![r].at = "commit",
                        ![r].added = new,
                        ![r].refs = @ \cup new,
                        ![r].own = Base(r) \cup new,
                        ![r].saved = TRUE]
  /\ UNCHANGED <<opening, contact, booking, list, cached, contacts, unchecked>>

(* Mutant of Excess: one booking more than the party has people. *)
ExcessButOne(r) == Cardinality(req[r].refs) - req[r].size - 1

Excess(r) == Cardinality(req[r].refs) - req[r].size

(* postSave(): too many bookings; the first ones are deleted. *)
Shrink(r) ==
  /\ At(r, "sync")
  /\ Excess(r) > 0
  /\ req' = [req EXCEPT ![r].at = "remove",
                        ![r].todo = First(req[r].refs, Excess(r))]
  /\ UNCHANGED <<opening, contact, booking, list, cached, contacts, bookings,
                 unchecked>>

InSync(r) ==
  /\ At(r, "sync")
  /\ Cardinality(req[r].refs) = req[r].size
  /\ Goto(r, "commit")
  /\ UNCHANGED <<opening, contact, booking, list, cached, contacts, bookings,
                 unchecked>>

(* The booking is loaded to be deleted, if it is still there; the form to  *)
(* delete one has it in memory.                                            *)
Loadable(r, b) == b \in DOMAIN booking \/ req[r].op = "drop"

Skip(r) ==
  /\ At(r, "remove")
  /\ \E b \in req[r].todo :
       /\ b = Min(req[r].todo)
       /\ ~Loadable(r, b)
       /\ req' = [req EXCEPT ![r].todo = @ \ {b}]
  /\ UNCHANGED <<opening, contact, booking, list, cached, contacts, bookings,
                 unchecked>>

(* The list save() compares with, to write only what has changed. *)
Original(r) ==
  IF req[r].own # NoList THEN req[r].own
  ELSE IF Hit(r) THEN cached ELSE list

(* Mutant of Unlisted: the list of the instance keeps the booking. *)
StillListed(r, b) == Base(r)

Unlisted(r, b) == Base(r) \ {b}

(* Booking::preDelete() and the delete: the instance in memory is saved    *)
(* without the booking, which locks its row, writes its list if that has   *)
(* changed, and has it loaded again.                                       *)
Remove(r) ==
  /\ At(r, "remove")
  /\ \E b \in req[r].todo :
       LET q == [req[r] EXCEPT !.todo = @ \ {b}, !.gone = @ \cup {b},
                               !.refs = @ \ {b}, !.saved = TRUE]
           rest == [q EXCEPT !.at = IF q.todo = {} THEN "remove" ELSE "load",
                             !.then = "remove"]
       IN
       /\ b = Min(req[r].todo)
       /\ Loadable(r, b)
       /\ ~ListLocked(r)
       /\ \/ /\ Unlisted(r, b) = Original(r)
             /\ req' = [req EXCEPT ![r] =
                          IF q.own = NoList THEN rest ELSE q]
          \/ /\ Unlisted(r, b) # Original(r)
             /\ req' = [req EXCEPT ![r] = [q EXCEPT !.own = Unlisted(r, b)]]
  /\ UNCHANGED <<opening, contact, booking, list, cached, contacts, bookings,
                 unchecked>>

(* A contact is saved again after its bookings were deleted. *)
Removed(r) ==
  /\ At(r, "remove")
  /\ req[r].todo = {}
  /\ Goto(r, IF req[r].op \in {"edit", "checkIn"} THEN "sync" ELSE "commit")
  /\ UNCHANGED <<opening, contact, booking, list, cached, contacts, bookings,
                 unchecked>>

(* The contact of a call, as it is in the table after the commit. *)
Saved(r) ==
  LET c == req[r].contact
      row == [size |-> req[r].size, refs |-> req[r].refs]
      others == Restrict(contact, DOMAIN contact \ {c})
  IN
  CASE req[r].op = "drop" -> contact
    [] req[r].op = "cancel" -> others
    [] OTHER -> [d \in DOMAIN others \cup {c} |->
                   IF d = c THEN row ELSE others[d]]

(* The contact is deleted last, when nobody else is writing it; the root   *)
(* transaction commits everything at once.                                 *)
Commit(r) ==
  /\ At(r, "commit")
  /\ ~ContactLocked(r)
  /\ contact' = Saved(r)
  /\ booking' = [b \in (DOMAIN booking \ req[r].gone) \cup req[r].added |->
                   IF b \in req[r].added THEN req[r].contact ELSE booking[b]]
  /\ list' = IF req[r].own = NoList THEN list ELSE req[r].own
  /\ cached' = IF req[r].saved THEN NoList ELSE cached
  /\ unchecked' = unchecked \cup IF req[r].overtaken THEN req[r].added ELSE {}
  /\ Return(r)
  /\ UNCHANGED <<opening, contacts, bookings>>

(* An exception or the end of the process rolls the transaction back. *)
Fail(r) ==
  /\ ~At(r, "idle")
  /\ Return(r)
  /\ UNCHANGED <<opening, contact, booking, list, cached, contacts, bookings,
                 unchecked>>

Step(r) ==
  \/ Load(r) \/ Fill(r) \/ Validate(r) \/ Refuse(r)
  \/ CreateContact(r) \/ SaveContact(r) \/ Gone(r)
  \/ Add(r) \/ Shrink(r) \/ InSync(r) \/ Skip(r) \/ Remove(r) \/ Removed(r)
  \/ Commit(r)

Call(r) ==
  \/ \E size \in Sizes :
       Book(r, size) \/ \E c \in DOMAIN contact : Edit(r, c, size)
  \/ \E c \in DOMAIN contact : CheckIn(r, c) \/ Cancel(r, c)
  \/ \E b \in DOMAIN booking : Drop(r, b)

Next == \E r \in Requests : Call(r) \/ Step(r) \/ Fail(r)

(* A guest who cancels has locked the instance and waits for the contact,  *)
(* one who edits it has locked the contact and waits for the instance.     *)
Deadlocked(r) ==
  /\ At(r, "commit") /\ ContactLocked(r)
  /\ req[r].saved
  /\ \E s \in Requests \ {r} :
       /\ req[s].tx /\ req[s].contact = req[r].contact
       /\ At(s, "sync") \/ At(s, "remove")

(* PHP goes on with a call, the database hands a row lock to those who     *)
(* wait for it in turn, and ends a deadlock.                               *)
Fairness ==
  \A r \in Requests : /\ SF_vars(Step(r))
                      /\ WF_vars(Deadlocked(r) /\ Fail(r))

Spec == Init /\ [][Next]_vars

FairSpec == Spec /\ Fairness

--------------------------------------------------------------------------------
(* Properties *)

TypeOK ==
  /\ opening \in Openings
  /\ DOMAIN contact \subseteq 1..contacts
  /\ \A c \in DOMAIN contact :
       contact[c] \in [size : Nat, refs : SUBSET (1..bookings)]
  /\ DOMAIN booking \subseteq 1..bookings
  /\ \A b \in DOMAIN booking : booking[b] \in 1..contacts
  /\ list \subseteq 1..bookings
  /\ cached = NoList \/ cached \subseteq 1..bookings
  /\ req \in [Requests -> Request]
  /\ \A r \in Requests :
       req[r].at \in {"fill", "validate", "sync"}
         => req[r].copy # NoList
  /\ contacts \in 0..MaxContacts
  /\ bookings \in 0..MaxBookings

(* A request's contact refers to a booking that is gone. *)
Dangling(r) == ~(req[r].refs \subseteq DOMAIN booking \cup req[r].added)

(* What is booked: people, or parties. *)
Booked(bs) == opening.slots - SlotsAvailable(bs)

(* CalendarOpeningVacancy: "Stops users from Booking more spots than       *)
(* allowed on Calendar Opennings": there are never more bookings than the  *)
(* opening has slots.                                                      *)
WithinSlots == Booked(DOMAIN booking) <= opening.slots

(* A contact that refers to a booking that was deleted by itself. *)
Damaged == {c \in DOMAIN contact : ~(contact[c].refs \subseteq DOMAIN booking)}

(* As long as calls follow each other there are never more bookings than   *)
(* slots.  Where a slot is a party one exception is left: a contact whose   *)
(* booking was deleted by itself still counts its party as one that has a  *)
(* slot, and may be over by that party, never by more.                     *)
WithinSlotsOneByOne ==
  Booked({b \in DOMAIN booking :
            ~opening.asParties \/ booking[b] \notin Damaged}) <= opening.slots

(* BookableCalendarOpeningInstance, field booking: "Each booking that      *)
(* references this instance."                                              *)
ListExact == list = DOMAIN booking

(* BookingContact, field booking: "Each booking that this contact owns."   *)
OwnedByContact ==
  \A b \in DOMAIN booking :
    booking[b] \in DOMAIN contact /\ b \in contact[booking[b]].refs

(* However guests race, the list of the instance, which is all that the    *)
(* calendar shows, never has more entries than there are slots for people: *)
(* a booking too many is one that the list has lost, or one that an edit   *)
(* added whose contact somebody else had enlarged after it was loaded,     *)
(* since validation takes the slots of the larger party for its own.       *)
ShownWithinSlots ==
  ~opening.asParties => Booked(list \ unchecked) <= opening.slots

(* BookingContact::postSave(): "depending on if we have too much or not    *)
(* enough bookings get those synced up": a call comes to an end.           *)
CallEnds == \A r \in Requests : ~At(r, "idle") ~> At(r, "idle")

(* ... and the one thing that keeps a call from its end is a contact that  *)
(* refers to a booking somebody else has deleted: postSave() would take it *)
(* off the contact only after deleting it, and saves the contact again for *)
(* ever, while others wait for its rows.  Two requests that lock each      *)
(* other out do not.                                                       *)
CallEndsUnlessDangling ==
  \A r \in Requests :
    ~At(r, "idle") ~> \/ At(r, "idle")
                      \/ \E s \in Requests :
                           Dangling(s) /\ (s = r \/ req[s].tx)
================================================================================
