------------------------ MODULE BookableCalendarProofs ------------------------
(***************************************************************************)
(* BookableCalendar for any number of requests, contacts and bookings.     *)
(* What the calendar shows is within the slots however requests race: that *)
(* rests on what a request has validated and on what it has yet to add.    *)
(* That nothing is booked beyond the slots, and that the instance, the     *)
(* contacts and the bookings agree, holds when calls follow each other,    *)
(* and those theorems are about one request.                               *)
(***************************************************************************)
EXTENDS BookableCalendar, FiniteSetTheorems, TLAPS

Fields == {"at", "then", "op", "contact", "size", "refs", "copy", "tx", "own",
           "added", "gone", "todo", "saved", "overtaken"}

\* What a request may hold once n contacts and m bookings have been created.
RequestOf(n, m) ==
  [at      : {"idle", "load", "fill", "validate", "save", "sync", "remove",
              "commit"},
   then    : {"validate", "sync", "remove"},
   op      : {"book", "edit", "checkIn", "cancel", "drop"},
   contact : (1..n) \cup {NoContact},
   size    : Nat,
   refs    : SUBSET (1..m),
   copy    : {NoList} \cup SUBSET (1..m),
   tx      : BOOLEAN,
   own     : {NoList} \cup SUBSET (1..m),
   added   : SUBSET (1..m),
   gone    : SUBSET (1..m),
   todo    : SUBSET (1..m),
   saved   : BOOLEAN,
   overtaken : BOOLEAN]

\* The tables once n contacts and m bookings have been created.
Tables(n, m) ==
  /\ n \in 0..MaxContacts /\ m \in 0..MaxBookings
  /\ opening \in Openings
  /\ DOMAIN contact \subseteq 1..n
  /\ \A c \in DOMAIN contact :
       /\ contact[c] \in [size : Nat, refs : SUBSET (1..m)]
       /\ Cardinality(contact[c].refs) = contact[c].size
  /\ DOMAIN booking \subseteq 1..m
  /\ \A b \in DOMAIN booking : booking[b] \in 1..n
  /\ list \subseteq 1..m
  /\ cached \in {NoList} \cup SUBSET (1..m)

Loading(q, then) == q.at \in {"load", "fill"} /\ q.then = then

(* The courses a call takes: which call is where, and what it has there.   *)
Course(q) ==
  /\ q.at = "idle" => q = Idle
  /\ q.at \in {"fill", "validate", "sync", "remove"} => q.copy # NoList
  /\ q.at = "save" /\ q.op # "checkIn" => q.copy # NoList
  /\ q.at = "save" /\ q.op = "checkIn" => q.then = "sync"
  /\ Loading(q, "validate") => q.op \in {"book", "edit"}
  /\ Loading(q, "sync") => q.op = "checkIn"
  /\ q.at = "validate" => q.op \in {"book", "edit"}
  /\ q.at \in {"save", "sync"} => q.op \in {"book", "edit", "checkIn"}
  /\ q.at = "remove" \/ Loading(q, "remove") => q.op # "book"
  /\ q.op \in {"edit", "checkIn", "cancel"} => q.contact # NoContact
  /\ q.op = "book" =>
       (q.contact = NoContact <=>
          q.at \in {"idle", "load", "fill", "validate", "save"})
  /\ q.added # {} => q.at = "commit" /\ q.op \in {"book", "edit", "checkIn"}
  /\ q.todo # {} => q.at = "remove" \/ Loading(q, "remove")
  /\ q.own # NoList /\ q.at # "commit" =>
       q.at \in {"sync", "remove"} \/ Loading(q, "remove")
  /\ q.own # NoList => q.saved

(* A contact's bookings and its size *)
Count(q) ==
  /\ q.op = "book" /\ q.at # "commit" => q.refs = {} /\ q.own = NoList
  /\ q.op \in {"cancel", "drop"} => q.refs = {} /\ q.size = 0
  /\ q.at = "commit" => Cardinality(q.refs) = q.size
  /\ /\ q.op \in {"edit", "checkIn"}
     /\ q.at = "remove" \/ Loading(q, "remove")
     => /\ q.todo \subseteq q.refs
        /\ Cardinality(q.refs) >= q.size + Cardinality(q.todo)
  /\ q.op = "checkIn" => Cardinality(q.refs) >= q.size
  /\ Lacking(q) > 0 => q.own = NoList

(* Ids are left for whatever the calls under way may add. *)
IdsSuffice ==
  /\ IsFiniteSet(NewContacts)
  /\ contacts + Cardinality(NewContacts) <= MaxContacts
  /\ IsFiniteSet(NewBookings)
  /\ bookings + Cardinality(NewBookings) <= MaxBookings

Inv ==
  /\ Tables(contacts, bookings)
  /\ req \in [Requests -> RequestOf(contacts, bookings)]
  /\ \A r \in Requests : Course(req[r]) /\ Count(req[r])
  /\ IdsSuffice

-----------------------------------------------------------------------------
(* Slots for people *)

\* A list is within the slots, but for the bookings that are excused.
Shown(bs, slots, excused) ==
  bs # NoList => Cardinality(bs \ excused) <= slots

\* What q adds without having validated it against what is there.
Excused(q) == IF q.overtaken THEN q.added ELSE {}

Adds(q) == q.at \in {"save", "sync"} /\ Lacking(q) > 0

Validated(q, slots, excused) ==
  /\ Shown(q.copy, slots, excused)
  /\ Shown(q.own, slots, excused \cup Excused(q))
  /\ Adds(q) /\ ~q.overtaken => Cardinality(q.copy) + Lacking(q) <= slots

PeopleInv ==
  ~opening.asParties =>
    /\ Shown(list, opening.slots, unchecked)
    /\ Shown(cached, opening.slots, unchecked)
    /\ \A r \in Requests : Validated(req[r], opening.slots, unchecked)

-----------------------------------------------------------------------------
(* One request: the instance, the contacts and the bookings agree. *)

Belonging ==
  \A c \in DOMAIN contact : \A b \in contact[c].refs \cap DOMAIN booking :
    booking[b] = c

\* A call that nobody else interferes with.
Alone(q) ==
  /\ ~q.overtaken
  /\ q.copy \in {NoList, list}
  /\ q.own = IF q.own = NoList THEN NoList
             ELSE (DOMAIN booking \ q.gone) \cup q.added
  /\ q.own = NoList => q.added = {} /\ q.gone = {}
  /\ q.gone \subseteq DOMAIN booking \ q.todo
  /\ q.added \cap DOMAIN booking = {}
  /\ \A c \in DOMAIN contact : q.added \cap contact[c].refs = {}
  /\ q.op \in {"edit", "checkIn"} =>
       /\ q.contact \in DOMAIN contact
       /\ q.refs = (contact[q.contact].refs \ q.gone) \cup q.added
  /\ q.op = "cancel" =>
       /\ q.contact \in DOMAIN contact
       /\ contact[q.contact].refs \cap DOMAIN booking
            \subseteq q.gone \cup q.todo
  /\ q.op = "book" =>
       q.refs = q.added /\ q.gone = {} /\ q.contact \notin DOMAIN contact
  /\ q.op = "drop" => q.todo \subseteq DOMAIN booking

Owners == {OwnerOf(b) : b \in list}

\* A party that adds bookings has a slot, or finds one.
HasSlot(q) ==
  Adds(q) \/ q.added # {} =>
    \/ Cardinality(Owners) < opening.slots
    \/ q.op = "edit" /\ contact[q.contact].refs # {}

Settled == {OwnerOf(b) : b \in {c \in DOMAIN booking : booking[c] \notin Damaged}}

OneInv ==
  /\ list = DOMAIN booking
  /\ cached \in {NoList, list}
  /\ unchecked = {}
  /\ OwnedByContact
  /\ Belonging
  /\ \A r \in Requests : Alone(req[r])
  /\ opening.asParties =>
       /\ Cardinality(Settled) <= opening.slots
       /\ \A r \in Requests : HasSlot(req[r])

-----------------------------------------------------------------------------
(* Sets of ids and their sizes                                               *)

LEMMA FiniteIds ==
  ASSUME NEW m \in Nat, NEW S \in SUBSET (1..m)
  PROVE  IsFiniteSet(S) /\ Cardinality(S) \in Nat
<1>1. IsFiniteSet(1..m)  BY FS_Interval
<1>2. IsFiniteSet(S)  BY <1>1, FS_Subset
<1> QED  BY <1>2, FS_CardinalityType

LEMMA RemoveOne ==
  ASSUME NEW m \in Nat, NEW S \in SUBSET (1..m), NEW b \in S
  PROVE  Cardinality(S \ {b}) = Cardinality(S) - 1
BY FiniteIds, FS_RemoveElement

LEMMA Smaller ==
  ASSUME NEW m \in Nat, NEW S \in SUBSET (1..m), NEW T \in SUBSET S
  PROVE  Cardinality(T) \in Nat /\ Cardinality(T) <= Cardinality(S)
BY FiniteIds, FS_Subset, FS_CardinalityType

\* First(S, n) has at most n members: each has its own number of smaller ones.
LEMMA FirstIsBounded ==
  ASSUME NEW m \in Nat, NEW S \in SUBSET (1..m), NEW n \in Nat
  PROVE  First(S, n) \subseteq S /\ Cardinality(First(S, n)) <= n
<1> DEFINE Below(x) == {y \in S : y < x}
           F == First(S, n)
           f == [x \in F |-> Cardinality(Below(x))]
<1>1. /\ F \subseteq S
      /\ \A x \in F : x \in S /\ x \in Nat /\ Cardinality(Below(x)) < n
  BY DEF First
<1> HIDE DEF F
<1>2. \A x \in F : f[x] \in 0..(n-1)
  <2> SUFFICES ASSUME NEW x \in F  PROVE f[x] \in 0..(n-1)  OBVIOUS
  <2>1. Below(x) \in SUBSET (1..m)  OBVIOUS
  <2>2. Cardinality(Below(x)) \in Nat  BY <2>1, FiniteIds
  <2>3. Cardinality(Below(x)) < n  BY <1>1
  <2> QED  BY <2>2, <2>3
<1>3. \A x, y \in F : x < y => f[x] < f[y]
  <2> SUFFICES ASSUME NEW x \in F, NEW y \in F, x < y  PROVE f[x] < f[y]
    OBVIOUS
  <2>1. x \in Nat /\ y \in Nat /\ x \in Below(y)  BY <1>1
  <2>2. Below(x) \in SUBSET (Below(y) \ {x})
    <3> SUFFICES ASSUME NEW z \in Below(x)  PROVE z \in Below(y) /\ z # x
      OBVIOUS
    <3>1. z \in S /\ z \in Nat /\ z < x  OBVIOUS
    <3> QED  BY <2>1, <3>1
  <2>3. Below(y) \in SUBSET (1..m) /\ Below(y) \ {x} \in SUBSET (1..m)
    OBVIOUS
  <2> HIDE DEF Below
  <2>4. Cardinality(Below(y) \ {x}) = Cardinality(Below(y)) - 1
    BY <2>1, <2>3, RemoveOne
  <2>5. Cardinality(Below(x)) <= Cardinality(Below(y) \ {x})
    BY <2>2, <2>3, Smaller
  <2>6. Cardinality(Below(x)) \in Nat /\ Cardinality(Below(y)) \in Nat
    BY <2>2, <2>3, Smaller, FiniteIds
  <2> QED  BY <2>4, <2>5, <2>6
<1> HIDE DEF Below
<1>4. f \in Injection(F, 0..(n-1))
  <2>1. f \in [F -> 0..(n-1)]  BY <1>2
  <2>2. ASSUME NEW x \in F, NEW y \in F, f[x] = f[y]  PROVE x = y
    <3>1. x \in Nat /\ y \in Nat  BY <1>1
    <3>2. f[x] \in Nat /\ f[y] \in Nat  BY <1>2
    <3>3. ~(x < y) /\ ~(y < x)  BY <1>3, <2>2, <3>2
    <3> QED  BY <3>1, <3>3
  <2> HIDE DEF f
  <2> QED  BY <2>1, <2>2 DEF Injection, IsInjective
<1> HIDE DEF f
<1>5. IsFiniteSet(0..(n-1)) /\ Cardinality(0..(n-1)) = n  BY FS_Interval
<1>6. Cardinality(F) <= n  BY <1>4, <1>5, FS_Injection
<1> QED  BY <1>1, <1>6 DEF F

LEMMA LackingIsNat ==
  ASSUME NEW q, q.size \in Nat, NEW m \in Nat, q.refs \subseteq 1..m
  PROVE  /\ Lacking(q) \in Nat
         /\ Lacking(q) > 0 => Lacking(q) = q.size - Cardinality(q.refs)
         /\ Cardinality(q.refs) >= q.size => Lacking(q) = 0
         /\ Lacking(q) = 0 => Cardinality(q.refs) >= q.size
<1>1. Cardinality(q.refs) \in Nat  BY FiniteIds
<1> QED  BY <1>1 DEF Lacking

LEMMA SameLacking ==
  ASSUME NEW p, NEW q, p.size = q.size, p.refs = q.refs
  PROVE  Lacking(p) = Lacking(q)
BY DEF Lacking

\* The ids kept for what q has yet to add
LEMMA KeptFor ==
  ASSUME NEW r, NEW k \in Nat
  PROVE  /\ IsFiniteSet({r} \X (1..k))
         /\ Cardinality({r} \X (1..k)) = k
<1>1. IsFiniteSet({r}) /\ Cardinality({r}) = 1  BY FS_Singleton
<1>2. IsFiniteSet(1..k) /\ Cardinality(1..k) = k  BY FS_Interval
<1> DEFINE A == {r}  B == 1..k
<1>3. IsFiniteSet(A) /\ IsFiniteSet(B) /\ Cardinality(A) * Cardinality(B) = k
  BY <1>1, <1>2
<1> HIDE DEF A, B
<1>4. IsFiniteSet(A \X B) /\ Cardinality(A \X B) = k
  BY <1>3, FS_Product
<1> QED  BY <1>4 DEF A, B

-----------------------------------------------------------------------------
(* What the steps do to the request that takes them.                         *)

\* Only r's request changes.
Others(r) ==
  /\ req' \in [Requests -> RequestOf(contacts', bookings')]
  /\ \A s \in Requests : s # r => req'[s] = req[s]

Position(q, at, then, op, c, n) ==
  q.at = at /\ q.then = then /\ q.op = op /\ q.contact = c /\ q.size = n

Lists(q, refs, copy, own, added, gone, todo) ==
  /\ q.refs = refs /\ q.copy = copy /\ q.own = own
  /\ q.added = added /\ q.gone = gone /\ q.todo = todo
  /\ q.own # NoList => q.saved

\* r goes on, and what it holds stays as it is.
Moves(r, at) ==
  /\ Position(req'[r], at, req[r].then, req[r].op, req[r].contact, req[r].size)
  /\ Lists(req'[r], req[r].refs, req[r].copy, req[r].own, req[r].added,
           req[r].gone, req[r].todo)
  /\ req'[r].overtaken = req[r].overtaken

\* A call of r begins.
Begins(r, at, then, op, c, n, refs, todo) ==
  /\ Position(req'[r], at, then, op, c, n)
  /\ Lists(req'[r], refs, NoList, NoList, {}, {}, todo)
  /\ ~req'[r].overtaken

LEMMA MoreIds ==
  ASSUME NEW n \in Nat, NEW m \in Nat, NEW k \in Nat, NEW l \in Nat,
         n <= k, m <= l, NEW q \in RequestOf(n, m)
  PROVE  q \in RequestOf(k, l)
<1>1. /\ 1..n \subseteq 1..k /\ SUBSET (1..m) \subseteq SUBSET (1..l)
  OBVIOUS
<1>2. \A a, b, c, d : a \subseteq c /\ b \subseteq d
        => a \cup {NoContact} \subseteq c \cup {NoContact}
           /\ {NoList} \cup b \subseteq {NoList} \cup d
  OBVIOUS
<1> DEFINE A == 1..n  B == SUBSET (1..m)  C == 1..k  D == SUBSET (1..l)
<1>3. A \subseteq C /\ B \subseteq D /\ A \cup {NoContact} \subseteq C \cup {NoContact}
      /\ {NoList} \cup B \subseteq {NoList} \cup D
  BY <1>1, <1>2
<1>4. q \in RequestOf(n, m) => q \in RequestOf(k, l)
  <2> SUFFICES ASSUME q \in
     [at : {"idle", "load", "fill", "validate", "save", "sync", "remove",
              "commit"},
      then : {"validate", "sync", "remove"},
      op : {"book", "edit", "checkIn", "cancel", "drop"},
      contact : A \cup {NoContact}, size : Nat, refs : B,
      copy : {NoList} \cup B, tx : BOOLEAN, own : {NoList} \cup B,
      added : B, gone : B, todo : B, saved : BOOLEAN, overtaken : BOOLEAN]
     PROVE q \in
     [at : {"idle", "load", "fill", "validate", "save", "sync", "remove",
              "commit"},
      then : {"validate", "sync", "remove"},
      op : {"book", "edit", "checkIn", "cancel", "drop"},
      contact : C \cup {NoContact}, size : Nat, refs : D,
      copy : {NoList} \cup D, tx : BOOLEAN, own : {NoList} \cup D,
      added : D, gone : D, todo : D, saved : BOOLEAN, overtaken : BOOLEAN]
    BY DEF RequestOf
  <2> HIDE DEF A, B, C, D
  <2> QED  BY <1>3
<1> QED  BY <1>4

LEMMA Updated ==
  ASSUME Inv, NEW r \in Requests,
         contacts' \in Nat, bookings' \in Nat,
         contacts <= contacts', bookings <= bookings',
         NEW q \in RequestOf(contacts', bookings'),
         req' = [req EXCEPT ![r] = q]
  PROVE  Others(r) /\ req'[r] = q
<1>1. /\ req \in [Requests -> RequestOf(contacts, bookings)]
      /\ contacts \in Nat /\ bookings \in Nat
  BY BookableAssumption DEF Inv, Tables
<1>2. \A s \in Requests : req[s] \in RequestOf(contacts', bookings')
  BY <1>1, MoreIds
<1>3. req' \in [Requests -> RequestOf(contacts', bookings')]
      /\ req'[r] = q /\ \A s \in Requests : s # r => req'[s] = req[s]
  BY <1>1, <1>2
<1> QED  BY <1>3 DEF Others

\* The case of a step that creates nothing.
LEMMA Changed ==
  ASSUME Inv, NEW r \in Requests, contacts' = contacts, bookings' = bookings,
         NEW q \in RequestOf(contacts, bookings),
         req' = [req EXCEPT ![r] = q]
  PROVE  Others(r) /\ req'[r] = q
<1>1. contacts \in Nat /\ bookings \in Nat
  BY BookableAssumption DEF Inv, Tables
<1>2. /\ contacts' \in Nat /\ bookings' \in Nat /\ contacts <= contacts'
      /\ bookings <= bookings' /\ q \in RequestOf(contacts', bookings')
  BY <1>1
<1> QED  BY <1>2, Updated

LEMMA Current ==
  ASSUME Inv, NEW r \in Requests
  PROVE  /\ req \in [Requests -> RequestOf(contacts, bookings)]
         /\ req[r] \in RequestOf(contacts, bookings)
         /\ contacts \in Nat /\ bookings \in Nat
         /\ req[r].own # NoList => req[r].saved
BY BookableAssumption DEF Inv, Tables, Course

LEMMA LoadFields ==
  ASSUME Inv, NEW r \in Requests, Load(r)
  PROVE  LET copy == IF Hit(r) THEN cached ELSE list
             at == IF Hit(r) \/ req[r].saved THEN req[r].then ELSE "fill"
         IN  /\ Others(r)
             /\ Position(req'[r], at, req[r].then, req[r].op, req[r].contact,
                         req[r].size)
             /\ Lists(req'[r], req[r].refs, copy, req[r].own, req[r].added,
                      req[r].gone, req[r].todo)
             /\ req'[r].overtaken = req[r].overtaken
<1> DEFINE copy == IF Hit(r) THEN cached ELSE list
           at == IF Hit(r) \/ req[r].saved THEN req[r].then ELSE "fill"
           q == [req[r] EXCEPT !.copy = copy, !.at = at]
<1>1. req[r] \in RequestOf(contacts, bookings)
      /\ req \in [Requests -> RequestOf(contacts, bookings)]
      /\ (req[r].own # NoList => req[r].saved)
  BY Current
<1>2. /\ copy \in SUBSET (1..bookings)
      /\ at \in {"fill", "validate", "sync", "remove"}
  BY <1>1 DEF Inv, Tables, RequestOf, Hit
<1>3. /\ req' = [req EXCEPT ![r].copy = copy, ![r].at = at]
      /\ contacts' = contacts /\ bookings' = bookings
  BY DEF Load
<1> HIDE DEF copy, at
<1>4. q \in RequestOf(contacts, bookings)  BY <1>1, <1>2 DEF RequestOf
<1>5. req' = [req EXCEPT ![r] = q]  BY <1>1, <1>3
<1>6. /\ Position(q, at, req[r].then, req[r].op, req[r].contact, req[r].size)
      /\ Lists(q, req[r].refs, copy, req[r].own, req[r].added, req[r].gone,
               req[r].todo)
      /\ q.overtaken = req[r].overtaken
  BY <1>1 DEF RequestOf, Position, Lists
<1> HIDE DEF q
<1>7. Others(r) /\ req'[r] = q  BY <1>3, <1>4, <1>5, Changed
<1> QED  BY <1>6, <1>7 DEF copy, at

\* Steps that take r from one place to another
LEMMA GotoFields ==
  ASSUME Inv, NEW r \in Requests,
         NEW at \in {"validate", "sync", "remove", "save", "load", "commit"},
         Goto(r, at), contacts' = contacts, bookings' = bookings
  PROVE  Others(r) /\ Moves(r, at)
<1> DEFINE q == [req[r] EXCEPT !.at = at]
<1>1. req[r] \in RequestOf(contacts, bookings)
      /\ req \in [Requests -> RequestOf(contacts, bookings)]
      /\ (req[r].own # NoList => req[r].saved)
  BY Current
<1>2. q \in RequestOf(contacts, bookings)  BY <1>1 DEF RequestOf
<1>3. req' = [req EXCEPT ![r] = q]  BY <1>1 DEF Goto
<1>4. /\ Position(q, at, req[r].then, req[r].op, req[r].contact, req[r].size)
      /\ Lists(q, req[r].refs, req[r].copy, req[r].own, req[r].added,
               req[r].gone, req[r].todo)
      /\ q.overtaken = req[r].overtaken
  BY <1>1 DEF RequestOf, Position, Lists
<1> HIDE DEF q
<1>5. Others(r) /\ req'[r] = q  BY <1>2, <1>3, Changed
<1> QED  BY <1>4, <1>5 DEF Moves

LEMMA FillFields ==
  ASSUME Inv, NEW r \in Requests, Fill(r)
  PROVE  Others(r) /\ Moves(r, req[r].then)
<1>1. req[r].then \in {"validate", "sync", "remove"}  BY Current DEF RequestOf
<1> QED  BY <1>1, GotoFields DEF Fill

LEMMA InSyncFields ==
  ASSUME Inv, NEW r \in Requests, InSync(r)
  PROVE  Others(r) /\ Moves(r, "commit")
BY GotoFields DEF InSync

LEMMA RemovedFields ==
  ASSUME Inv, NEW r \in Requests, Removed(r)
  PROVE  /\ Others(r)
         /\ Moves(r, IF req[r].op \in {"edit", "checkIn"} THEN "sync"
                     ELSE "commit")
BY GotoFields DEF Removed

LEMMA SaveContactFields ==
  ASSUME Inv, NEW r \in Requests, SaveContact(r)
  PROVE  Others(r) /\ Moves(r, AfterSave(r))
<1> DEFINE at == AfterSave(r)
           q == [req[r] EXCEPT !.at = at, !.tx = TRUE]
<1>1. req[r] \in RequestOf(contacts, bookings)
      /\ req \in [Requests -> RequestOf(contacts, bookings)]
      /\ (req[r].own # NoList => req[r].saved)
  BY Current
<1>2. at \in {"load", "sync"}  BY DEF AfterSave
<1>3. req' = [req EXCEPT ![r].at = at, ![r].tx = TRUE]
      /\ contacts' = contacts /\ bookings' = bookings
  BY DEF SaveContact
<1> HIDE DEF at
<1>4. q \in RequestOf(contacts, bookings)  BY <1>1, <1>2 DEF RequestOf
<1>5. req' = [req EXCEPT ![r] = q]  BY <1>1, <1>3
<1>6. /\ Position(q, at, req[r].then, req[r].op, req[r].contact, req[r].size)
      /\ Lists(q, req[r].refs, req[r].copy, req[r].own, req[r].added,
               req[r].gone, req[r].todo)
      /\ q.overtaken = req[r].overtaken
  BY <1>1 DEF RequestOf, Position, Lists
<1> HIDE DEF q
<1>7. Others(r) /\ req'[r] = q  BY <1>3, <1>4, <1>5, Changed
<1> QED  BY <1>6, <1>7 DEF at, Moves

LEMMA ReturnFields ==
  ASSUME Inv, NEW r \in Requests, Return(r),
         contacts' = contacts, bookings' = bookings
  PROVE  Others(r) /\ req'[r] = Idle
<1>1. Idle \in RequestOf(contacts, bookings)
  BY Current DEF Idle, RequestOf
<1> QED  BY <1>1, Changed DEF Return

LEMMA TypedRequest ==
  ASSUME NEW n, NEW m, NEW q, q = [f \in Fields |-> q[f]],
         q.at \in {"idle", "load", "fill", "validate", "save", "sync",
                   "remove", "commit"},
         q.then \in {"validate", "sync", "remove"},
         q.op \in {"book", "edit", "checkIn", "cancel", "drop"},
         q.contact \in (1..n) \cup {NoContact}, q.size \in Nat,
         q.refs \in SUBSET (1..m), q.copy \in {NoList} \cup SUBSET (1..m),
         q.tx \in BOOLEAN, q.own \in {NoList} \cup SUBSET (1..m),
         q.added \in SUBSET (1..m), q.gone \in SUBSET (1..m),
         q.todo \in SUBSET (1..m),
         q.saved \in BOOLEAN, q.overtaken \in BOOLEAN
  PROVE  q \in RequestOf(n, m)
BY DEF RequestOf, Fields

\* The calls begin with these fields, and with those of Idle.
LEMMA BeginFields ==
  ASSUME Inv, NEW r \in Requests,
         contacts' = contacts, bookings' = bookings,
         NEW f, Begin(r, f), NEW q \in RequestOf(contacts, bookings),
         q = [x \in DOMAIN Idle |-> IF x \in DOMAIN f THEN f[x] ELSE Idle[x]]
  PROVE  Others(r) /\ req'[r] = q
<1>1. req' = [req EXCEPT ![r] = q]  BY DEF Begin
<1> QED  BY <1>1, Changed

LEMMA BookFields ==
  ASSUME Inv, NEW r \in Requests, NEW size \in Sizes, Book(r, size)
  PROVE  Others(r) /\ Begins(r, "load", "validate", "book", NoContact, size,
                        {}, {})
<1> DEFINE f == [at |-> "load", op |-> "book", size |-> size]
           D == {"at", "op", "size"}
           q == [x \in DOMAIN Idle |-> IF x \in DOMAIN f THEN f[x] ELSE Idle[x]]
<1>1. DOMAIN Idle = Fields /\ DOMAIN f = D
  BY DEF Idle, Fields
<1>2. f.at = "load" /\ f.op = "book" /\ f.size = size
  OBVIOUS
<1>3. /\ q = [x \in Fields |-> q[x]]
      /\ \A x \in Fields : q[x] = IF x \in D THEN f[x] ELSE Idle[x]
  BY <1>1
<1> HIDE DEF f, q
<1>4. q.at = "load" /\ q.op = "book" /\ q.size = size
  BY <1>2, <1>3 DEF Fields
<1>5. /\ q.then = "validate" /\ q.contact = NoContact /\ q.refs = {}
      /\ q.copy = NoList /\ q.own = NoList /\ q.added = {} /\ q.gone = {}
      /\ q.todo = {} /\ q.tx = FALSE /\ q.saved = FALSE /\ q.overtaken = FALSE
  BY <1>3 DEF Fields, Idle
<1>6. size \in Nat  BY BookableAssumption
<1>7. q \in RequestOf(contacts, bookings)
  BY <1>3, <1>4, <1>5, <1>6, TypedRequest
<1>8. Begin(r, f) /\ contacts' = contacts /\ bookings' = bookings
  BY DEF Book, f
<1>9. Others(r) /\ req'[r] = q  BY <1>7, <1>8, BeginFields DEF q
<1> QED  BY <1>4, <1>5, <1>9 DEF Begins, Position, Lists

LEMMA EditFields ==
  ASSUME Inv, NEW r \in Requests, NEW size \in Sizes, NEW c, Edit(r, c, size)
  PROVE  Others(r) /\ Begins(r, "load", "validate", "edit", c, size,
                        contact[c].refs, {})
<1> DEFINE f == [at |-> "load", op |-> "edit", contact |-> c, size |-> size,
                refs |-> contact[c].refs]
           D == {"at", "op", "contact", "size", "refs"}
           q == [x \in DOMAIN Idle |-> IF x \in DOMAIN f THEN f[x] ELSE Idle[x]]
<1>1. DOMAIN Idle = Fields /\ DOMAIN f = D
  BY DEF Idle, Fields
<1>2. /\ f.at = "load" /\ f.op = "edit" /\ f.contact = c /\ f.size = size
      /\ f.refs = contact[c].refs
  OBVIOUS
<1>3. /\ q = [x \in Fields |-> q[x]]
      /\ \A x \in Fields : q[x] = IF x \in D THEN f[x] ELSE Idle[x]
  BY <1>1
<1> HIDE DEF f, q
<1>4. /\ q.at = "load" /\ q.op = "edit" /\ q.contact = c /\ q.size = size
      /\ q.refs = contact[c].refs
  BY <1>2, <1>3 DEF Fields
<1>5. /\ q.then = "validate" /\ q.copy = NoList /\ q.own = NoList
      /\ q.added = {} /\ q.gone = {} /\ q.todo = {} /\ q.tx = FALSE
      /\ q.saved = FALSE /\ q.overtaken = FALSE
  BY <1>3 DEF Fields, Idle
<1>6. /\ size \in Nat /\ c \in 1..contacts
      /\ contact[c].refs \in SUBSET (1..bookings)
  BY BookableAssumption DEF Edit, Inv, Tables
<1>7. q \in RequestOf(contacts, bookings)
  BY <1>3, <1>4, <1>5, <1>6, TypedRequest
<1>8. Begin(r, f) /\ contacts' = contacts /\ bookings' = bookings
  BY DEF Edit, f
<1>9. Others(r) /\ req'[r] = q  BY <1>7, <1>8, BeginFields DEF q
<1> QED  BY <1>4, <1>5, <1>9 DEF Begins, Position, Lists

LEMMA CheckInFields ==
  ASSUME Inv, NEW r \in Requests, NEW c, CheckIn(r, c)
  PROVE  Others(r) /\ Begins(r, "save", "sync", "checkIn", c,
                        contact[c].size, contact[c].refs, {})
<1> DEFINE f == [at |-> "save", then |-> "sync", op |-> "checkIn", contact |->
                c, size |-> contact[c].size, refs |-> contact[c].refs]
           D == {"at", "then", "op", "contact", "size", "refs"}
           q == [x \in DOMAIN Idle |-> IF x \in DOMAIN f THEN f[x] ELSE Idle[x]]
<1>1. DOMAIN Idle = Fields /\ DOMAIN f = D
  BY DEF Idle, Fields
<1>2. /\ f.at = "save" /\ f.then = "sync" /\ f.op = "checkIn" /\ f.contact = c
      /\ f.size = contact[c].size /\ f.refs = contact[c].refs
  OBVIOUS
<1>3. /\ q = [x \in Fields |-> q[x]]
      /\ \A x \in Fields : q[x] = IF x \in D THEN f[x] ELSE Idle[x]
  BY <1>1
<1> HIDE DEF f, q
<1>4. /\ q.at = "save" /\ q.then = "sync" /\ q.op = "checkIn" /\ q.contact = c
      /\ q.size = contact[c].size /\ q.refs = contact[c].refs
  BY <1>2, <1>3 DEF Fields
<1>5. /\ q.copy = NoList /\ q.own = NoList /\ q.added = {} /\ q.gone = {}
      /\ q.todo = {} /\ q.tx = FALSE /\ q.saved = FALSE /\ q.overtaken = FALSE
  BY <1>3 DEF Fields, Idle
<1>6. /\ contact[c].size \in Nat /\ c \in 1..contacts
      /\ contact[c].refs \in SUBSET (1..bookings)
  BY DEF CheckIn, Inv, Tables
<1>7. q \in RequestOf(contacts, bookings)
  BY <1>3, <1>4, <1>5, <1>6, TypedRequest
<1>8. Begin(r, f) /\ contacts' = contacts /\ bookings' = bookings
  BY DEF CheckIn, f
<1>9. Others(r) /\ req'[r] = q  BY <1>7, <1>8, BeginFields DEF q
<1> QED  BY <1>4, <1>5, <1>9 DEF Begins, Position, Lists

LEMMA CancelFields ==
  ASSUME Inv, NEW r \in Requests, NEW c, Cancel(r, c)
  PROVE  Others(r) /\ Begins(r, "load", "remove", "cancel", c, 0, {},
                        contact[c].refs)
<1> DEFINE f == [at |-> "load", then |-> "remove", op |-> "cancel", contact
                |-> c, todo |-> contact[c].refs]
           D == {"at", "then", "op", "contact", "todo"}
           q == [x \in DOMAIN Idle |-> IF x \in DOMAIN f THEN f[x] ELSE Idle[x]]
<1>1. DOMAIN Idle = Fields /\ DOMAIN f = D
  BY DEF Idle, Fields
<1>2. /\ f.at = "load" /\ f.then = "remove" /\ f.op = "cancel"
      /\ f.contact = c /\ f.todo = contact[c].refs
  OBVIOUS
<1>3. /\ q = [x \in Fields |-> q[x]]
      /\ \A x \in Fields : q[x] = IF x \in D THEN f[x] ELSE Idle[x]
  BY <1>1
<1> HIDE DEF f, q
<1>4. /\ q.at = "load" /\ q.then = "remove" /\ q.op = "cancel"
      /\ q.contact = c /\ q.todo = contact[c].refs
  BY <1>2, <1>3 DEF Fields
<1>5. /\ q.size = 0 /\ q.refs = {} /\ q.copy = NoList /\ q.own = NoList
      /\ q.added = {} /\ q.gone = {} /\ q.tx = FALSE /\ q.saved = FALSE
      /\ q.overtaken = FALSE
  BY <1>3 DEF Fields, Idle
<1>6. /\ 0 \in Nat /\ c \in 1..contacts
      /\ contact[c].refs \in SUBSET (1..bookings)
  BY DEF Cancel, Inv, Tables
<1>7. q \in RequestOf(contacts, bookings)
  BY <1>3, <1>4, <1>5, <1>6, TypedRequest
<1>8. Begin(r, f) /\ contacts' = contacts /\ bookings' = bookings
  BY DEF Cancel, f, Bookings
<1>9. Others(r) /\ req'[r] = q  BY <1>7, <1>8, BeginFields DEF q
<1> QED  BY <1>4, <1>5, <1>9 DEF Begins, Position, Lists

LEMMA DropFields ==
  ASSUME Inv, NEW r \in Requests, NEW b, Drop(r, b)
  PROVE  Others(r) /\ Begins(r, "load", "remove", "drop", NoContact, 0, {},
                        {b})
<1> DEFINE f == [at |-> "load", then |-> "remove", op |-> "drop", todo |->
                {b}]
           D == {"at", "then", "op", "todo"}
           q == [x \in DOMAIN Idle |-> IF x \in DOMAIN f THEN f[x] ELSE Idle[x]]
<1>1. DOMAIN Idle = Fields /\ DOMAIN f = D
  BY DEF Idle, Fields
<1>2. f.at = "load" /\ f.then = "remove" /\ f.op = "drop" /\ f.todo = {b}
  OBVIOUS
<1>3. /\ q = [x \in Fields |-> q[x]]
      /\ \A x \in Fields : q[x] = IF x \in D THEN f[x] ELSE Idle[x]
  BY <1>1
<1> HIDE DEF f, q
<1>4. q.at = "load" /\ q.then = "remove" /\ q.op = "drop" /\ q.todo = {b}
  BY <1>2, <1>3 DEF Fields
<1>5. /\ q.contact = NoContact /\ q.size = 0 /\ q.refs = {} /\ q.copy = NoList
      /\ q.own = NoList /\ q.added = {} /\ q.gone = {} /\ q.tx = FALSE
      /\ q.saved = FALSE /\ q.overtaken = FALSE
  BY <1>3 DEF Fields, Idle
<1>6. 0 \in Nat /\ {b} \in SUBSET (1..bookings)
  BY DEF Drop, Inv, Tables
<1>7. q \in RequestOf(contacts, bookings)
  BY <1>3, <1>4, <1>5, <1>6, TypedRequest
<1>8. Begin(r, f) /\ contacts' = contacts /\ bookings' = bookings
  BY DEF Drop, f
<1>9. Others(r) /\ req'[r] = q  BY <1>7, <1>8, BeginFields DEF q
<1> QED  BY <1>4, <1>5, <1>9 DEF Begins, Position, Lists

\* A new contact gets the next id.
LEMMA CreateContactFields ==
  ASSUME Inv, NEW r \in Requests, CreateContact(r), contacts + 1 <= MaxContacts
  PROVE  /\ Others(r)
         /\ Position(req'[r], "sync", req[r].then, req[r].op, contacts + 1,
                     req[r].size)
         /\ Lists(req'[r], req[r].refs, req[r].copy, req[r].own, req[r].added,
                  req[r].gone, req[r].todo)
         /\ req'[r].overtaken = req[r].overtaken
<1> DEFINE q == [req[r] EXCEPT !.at = "sync", !.tx = TRUE,
                               !.contact = contacts + 1]
<1>1. /\ req[r] \in RequestOf(contacts, bookings)
      /\ req \in [Requests -> RequestOf(contacts, bookings)]
      /\ (req[r].own # NoList => req[r].saved)
      /\ contacts \in Nat /\ bookings \in Nat
  BY Current
<1>2. /\ req' = [req EXCEPT ![r].at = "sync", ![r].tx = TRUE,
                            ![r].contact = contacts + 1]
      /\ contacts' = contacts + 1 /\ bookings' = bookings
  BY DEF CreateContact
<1>3. q \in RequestOf(contacts', bookings')
  <2>1. req[r] \in RequestOf(contacts + 1, bookings)  BY <1>1, MoreIds
  <2>2. contacts + 1 \in (1..contacts + 1) \cup {NoContact}  BY <1>1
  <2>3. q \in RequestOf(contacts + 1, bookings)
    BY <2>1, <2>2 DEF RequestOf
  <2> HIDE DEF q
  <2> QED  BY <1>2, <2>3
<1>4. req' = [req EXCEPT ![r] = q]  BY <1>1, <1>2
<1>5. /\ Position(q, "sync", req[r].then, req[r].op, contacts + 1, req[r].size)
      /\ Lists(q, req[r].refs, req[r].copy, req[r].own, req[r].added,
               req[r].gone, req[r].todo)
      /\ q.overtaken = req[r].overtaken
  BY <1>1 DEF RequestOf, Position, Lists
<1> HIDE DEF q
<1>6. Others(r) /\ req'[r] = q
  <2>1. /\ contacts' \in Nat /\ bookings' \in Nat
        /\ contacts <= contacts' /\ bookings <= bookings'
    BY <1>1, <1>2
  <2> QED  BY <1>3, <1>4, <2>1, Updated
<1> QED  BY <1>5, <1>6

\* Validation passes, and notes whether the contact was overtaken, or the call
\* ends.
LEMMA ValidateFields ==
  ASSUME Inv, NEW r \in Requests, Validate(r)
  PROVE  /\ Others(r)
         /\ \/ req'[r] = Idle
            \/ /\ Vacant(r)
               /\ Position(req'[r], "save", req[r].then, req[r].op,
                           req[r].contact, req[r].size)
               /\ Lists(req'[r], req[r].refs, req[r].copy, req[r].own,
                        req[r].added, req[r].gone, req[r].todo)
               /\ req'[r].overtaken
                    = (OriginalSize(r) > Cardinality(req[r].refs))
<1> DEFINE o == OriginalSize(r) > Cardinality(req[r].refs)
           q == [req[r] EXCEPT !.at = "save", !.overtaken = o]
<1>1. req[r] \in RequestOf(contacts, bookings)
      /\ req \in [Requests -> RequestOf(contacts, bookings)]
      /\ (req[r].own # NoList => req[r].saved)
      /\ contacts' = contacts /\ bookings' = bookings
  BY Current DEF Validate
<1>2. CASE ~(Vacant(r) /\ SmallEnough(r))
  <2>1. Return(r)  BY <1>2 DEF Validate
  <2> QED  BY <1>1, <2>1, ReturnFields
<1>3. CASE Vacant(r) /\ SmallEnough(r)
  <2>1. req' = [req EXCEPT ![r].at = "save", ![r].overtaken = o]
    BY <1>3 DEF Validate
  <2>2. o \in BOOLEAN
    <3>1. OriginalSize(r) \in Nat
      BY DEF OriginalSize, Inv, Tables
    <3>2. Cardinality(req[r].refs) \in Nat
      BY <1>1, Current, FiniteIds DEF RequestOf
    <3> QED  BY <3>1, <3>2
  <2> HIDE DEF o
  <2>3. q \in RequestOf(contacts, bookings)  BY <1>1, <2>2 DEF RequestOf
  <2>4. req' = [req EXCEPT ![r] = q]  BY <1>1, <2>1
  <2>5. /\ Position(q, "save", req[r].then, req[r].op, req[r].contact,
                    req[r].size)
        /\ Lists(q, req[r].refs, req[r].copy, req[r].own, req[r].added,
                 req[r].gone, req[r].todo)
        /\ q.overtaken = o
    BY <1>1 DEF RequestOf, Position, Lists
  <2> HIDE DEF q
  <2>6. Others(r) /\ req'[r] = q  BY <1>1, <2>3, <2>4, Changed
  <2> QED  BY <1>3, <2>5, <2>6 DEF o
<1> QED  BY <1>2, <1>3

LEMMA ShrinkFields ==
  ASSUME Inv, NEW r \in Requests, Shrink(r)
  PROVE  /\ Others(r)
         /\ Position(req'[r], "remove", req[r].then, req[r].op,
                     req[r].contact, req[r].size)
         /\ Lists(req'[r], req[r].refs, req[r].copy, req[r].own, req[r].added,
                  req[r].gone, First(req[r].refs, Excess(r)))
         /\ req'[r].overtaken = req[r].overtaken
<1> DEFINE todo == First(req[r].refs, Excess(r))
           q == [req[r] EXCEPT !.at = "remove", !.todo = todo]
<1>1. /\ req[r] \in RequestOf(contacts, bookings)
      /\ req \in [Requests -> RequestOf(contacts, bookings)]
      /\ (req[r].own # NoList => req[r].saved)
      /\ contacts' = contacts /\ bookings' = bookings
      /\ req' = [req EXCEPT ![r].at = "remove", ![r].todo = todo]
  BY Current DEF Shrink
<1>2. req[r].refs \subseteq 1..bookings  BY <1>1 DEF RequestOf
<1>3. todo \in SUBSET (1..bookings)  BY <1>2 DEF First
<1> HIDE DEF todo
<1>4. q \in RequestOf(contacts, bookings)  BY <1>1, <1>3 DEF RequestOf
<1>5. req' = [req EXCEPT ![r] = q]  BY <1>1
<1>6. /\ Position(q, "remove", req[r].then, req[r].op, req[r].contact,
                  req[r].size)
      /\ Lists(q, req[r].refs, req[r].copy, req[r].own, req[r].added,
               req[r].gone, todo)
      /\ q.overtaken = req[r].overtaken
  BY <1>1 DEF RequestOf, Position, Lists
<1> HIDE DEF q
<1>7. Others(r) /\ req'[r] = q  BY <1>1, <1>4, <1>5, Changed
<1> QED  BY <1>6, <1>7 DEF todo

LEMMA SkipFields ==
  ASSUME Inv, NEW r \in Requests, Skip(r)
  PROVE  \E b \in req[r].todo :
           /\ ~Loadable(r, b)
           /\ Others(r)
           /\ Position(req'[r], "remove", req[r].then, req[r].op,
                       req[r].contact, req[r].size)
           /\ Lists(req'[r], req[r].refs, req[r].copy, req[r].own,
                    req[r].added, req[r].gone, req[r].todo \ {b})
           /\ req'[r].overtaken = req[r].overtaken
<1>1. /\ req[r] \in RequestOf(contacts, bookings)
      /\ req \in [Requests -> RequestOf(contacts, bookings)]
      /\ (req[r].own # NoList => req[r].saved)
      /\ contacts' = contacts /\ bookings' = bookings
      /\ req[r].at = "remove"
  BY Current DEF Skip, At
<1>2. PICK b \in req[r].todo : /\ ~Loadable(r, b)
                               /\ req' = [req EXCEPT ![r].todo = @ \ {b}]
  BY DEF Skip
<1> DEFINE todo == req[r].todo \ {b}
           q == [req[r] EXCEPT !.todo = todo]
<1>3. req' = [req EXCEPT ![r] = q]  BY <1>1, <1>2
<1>4. todo \in SUBSET (1..bookings)  BY <1>1 DEF RequestOf
<1> HIDE DEF todo
<1>5. q \in RequestOf(contacts, bookings)  BY <1>1, <1>4 DEF RequestOf
<1>6. /\ Position(q, "remove", req[r].then, req[r].op, req[r].contact,
                  req[r].size)
      /\ Lists(q, req[r].refs, req[r].copy, req[r].own, req[r].added,
               req[r].gone, todo)
      /\ q.overtaken = req[r].overtaken
  BY <1>1 DEF RequestOf, Position, Lists
<1> HIDE DEF q
<1>7. Others(r) /\ req'[r] = q  BY <1>1, <1>3, <1>5, Changed
<1> QED  BY <1>2, <1>6, <1>7 DEF todo

\* Missing bookings get the next ids.
LEMMA AddFields ==
  ASSUME Inv, NEW r \in Requests, Add(r),
         Lacking(req[r]) \in Nat, bookings + Lacking(req[r]) <= MaxBookings
  PROVE  LET new == bookings + 1 .. bookings + Lacking(req[r])
         IN  /\ Others(r)
             /\ Position(req'[r], "commit", req[r].then, req[r].op,
                         req[r].contact, req[r].size)
             /\ Lists(req'[r], req[r].refs \cup new, req[r].copy,
                      Base(r) \cup new, new, req[r].gone, req[r].todo)
             /\ req'[r].overtaken = req[r].overtaken
<1> DEFINE m == bookings + Lacking(req[r])
           new == bookings + 1 .. m
           refs == req[r].refs \cup new
           own == Base(r) \cup new
           q == [req[r] EXCEPT !.at = "commit", !.added = new, !.refs = refs,
                               !.own = own, !.saved = TRUE]
<1>1. /\ req[r] \in RequestOf(contacts, bookings)
      /\ req \in [Requests -> RequestOf(contacts, bookings)]
      /\ (req[r].own # NoList => req[r].saved)
      /\ contacts \in Nat /\ bookings \in Nat
  BY Current
<1>2. /\ req' = [req EXCEPT ![r].at = "commit", ![r].added = new,
                            ![r].refs = @ \cup new, ![r].own = Base(r) \cup new,
                            ![r].saved = TRUE]
      /\ contacts' = contacts /\ bookings' = m /\ req[r].at = "sync"
  BY DEF Add, At
<1>3. /\ m \in Nat /\ bookings <= m
      /\ 1..bookings \subseteq 1..m /\ new \subseteq 1..m
  BY <1>1
<1> HIDE DEF m
<1>4. /\ new \in SUBSET (1..m) /\ refs \in SUBSET (1..m)
      /\ own \in SUBSET (1..m)
  <2>1. Base(r) \subseteq 1..bookings
    BY <1>1, <1>2 DEF Base, Inv, Course, RequestOf
  <2>2. req[r].refs \subseteq 1..bookings  BY <1>1 DEF RequestOf
  <2> QED  BY <1>3, <2>1, <2>2
<1>5. req' = [req EXCEPT ![r] = q]
  <2>1. req' = [req EXCEPT ![r].at = "commit", ![r].added = new,
                           ![r].refs = @ \cup new, ![r].own = own,
                           ![r].saved = TRUE]
    BY <1>2
  <2> HIDE DEF new, own
  <2> QED  BY <1>1, <2>1 DEF RequestOf
<1> HIDE DEF new, refs, own
<1>6. q \in RequestOf(contacts', bookings')
  <2>1. req[r] \in RequestOf(contacts, m)  BY <1>1, <1>3, MoreIds
  <2>2. q \in RequestOf(contacts, m)  BY <1>4, <2>1 DEF RequestOf
  <2> HIDE DEF q
  <2> QED  BY <1>2, <2>2
<1>7. /\ Position(q, "commit", req[r].then, req[r].op, req[r].contact,
                  req[r].size)
      /\ Lists(q, refs, req[r].copy, own, new, req[r].gone, req[r].todo)
      /\ q.overtaken = req[r].overtaken
  BY <1>1 DEF RequestOf, Position, Lists
<1> HIDE DEF q
<1>8. Others(r) /\ req'[r] = q
  <2>1. /\ contacts' \in Nat /\ bookings' \in Nat
        /\ contacts <= contacts' /\ bookings <= bookings'
    BY <1>1, <1>2, <1>3
  <2> QED  BY <1>5, <1>6, <2>1, Updated
<1> QED  BY <1>7, <1>8 DEF refs, own, new, m

\* A step of r that deletes booking b and leaves its list as "own" says.
Deletes(r, b, at, then, own) ==
  /\ Others(r)
  /\ Position(req'[r], at, then, req[r].op, req[r].contact, req[r].size)
  /\ Lists(req'[r], req[r].refs \ {b}, req[r].copy, own, req[r].added,
           req[r].gone \cup {b}, req[r].todo \ {b})
  /\ req'[r].overtaken = req[r].overtaken

\* The list is written if that changes it; if not, and if nothing was written
\* before, the instance has to be loaded again for the next booking.
LEMMA RemoveFields ==
  ASSUME Inv, NEW r \in Requests, Remove(r)
  PROVE  \E b \in req[r].todo :
           /\ Loadable(r, b)
           /\ \/ /\ Unlisted(r, b) = Original(r)
                 /\ \/ Deletes(r, b, "remove", req[r].then, req[r].own)
                    \/ Deletes(r, b, "remove", "remove", req[r].own)
                    \/ Deletes(r, b, "load", "remove", req[r].own)
              \/ /\ Unlisted(r, b) # Original(r)
                 /\ Deletes(r, b, "remove", req[r].then, Unlisted(r, b))
<1>1. /\ req[r] \in RequestOf(contacts, bookings)
      /\ req \in [Requests -> RequestOf(contacts, bookings)]
      /\ (req[r].own # NoList => req[r].saved)
      /\ contacts' = contacts /\ bookings' = bookings
      /\ req[r].at = "remove" /\ req[r].copy # NoList
  BY Current DEF Remove, At, Inv, Course
<1> DEFINE q(b) == [req[r] EXCEPT !.todo = @ \ {b}, !.gone = @ \cup {b},
                                  !.refs = @ \ {b}, !.saved = TRUE]
           at(b) == IF q(b).todo = {} THEN "remove" ELSE "load"
           rest(b) == [q(b) EXCEPT !.at = at(b), !.then = "remove"]
           wrote(b) == [q(b) EXCEPT !.own = Unlisted(r, b)]
<1>2. PICK b \in req[r].todo :
        /\ Loadable(r, b)
        /\ \/ /\ Unlisted(r, b) = Original(r)
              /\ req' = [req EXCEPT ![r] =
                           IF q(b).own = NoList THEN rest(b) ELSE q(b)]
           \/ /\ Unlisted(r, b) # Original(r)
              /\ req' = [req EXCEPT ![r] = wrote(b)]
  BY DEF Remove
<1>3. /\ q(b) \in RequestOf(contacts, bookings)
      /\ Position(q(b), "remove", req[r].then, req[r].op, req[r].contact,
                  req[r].size)
      /\ Lists(q(b), req[r].refs \ {b}, req[r].copy, req[r].own, req[r].added,
               req[r].gone \cup {b}, req[r].todo \ {b})
      /\ q(b).overtaken = req[r].overtaken /\ q(b).saved
  <2> DEFINE todo == req[r].todo \ {b}  gone == req[r].gone \cup {b}
             refs == req[r].refs \ {b}
             p == [req[r] EXCEPT !.todo = todo, !.gone = gone, !.refs = refs,
                                 !.saved = TRUE]
  <2>1. todo \in SUBSET (1..bookings) /\ gone \in SUBSET (1..bookings)
        /\ refs \in SUBSET (1..bookings)
    BY <1>1 DEF RequestOf
  <2>2. q(b) = p  BY <1>1 DEF RequestOf
  <2> HIDE DEF todo, gone, refs, q
  <2>3. p \in RequestOf(contacts, bookings)  BY <1>1, <2>1 DEF RequestOf
  <2>4. /\ Position(p, "remove", req[r].then, req[r].op, req[r].contact,
                    req[r].size)
        /\ Lists(p, refs, req[r].copy, req[r].own, req[r].added, gone, todo)
        /\ p.overtaken = req[r].overtaken /\ p.saved
    BY <1>1 DEF RequestOf, Position, Lists
  <2> HIDE DEF p
  <2> QED  BY <2>2, <2>3, <2>4 DEF todo, gone, refs
<1>4. Unlisted(r, b) \in SUBSET (1..bookings)
  BY <1>1 DEF Unlisted, Base, RequestOf
<1> HIDE DEF q
<1>5. /\ rest(b) \in RequestOf(contacts, bookings)
      /\ Position(rest(b), at(b), "remove", req[r].op, req[r].contact,
                  req[r].size)
      /\ Lists(rest(b), req[r].refs \ {b}, req[r].copy, req[r].own,
               req[r].added, req[r].gone \cup {b}, req[r].todo \ {b})
      /\ rest(b).overtaken = req[r].overtaken
  BY <1>3 DEF RequestOf, Position, Lists
<1>6. /\ wrote(b) \in RequestOf(contacts, bookings)
      /\ Position(wrote(b), "remove", req[r].then, req[r].op, req[r].contact,
                  req[r].size)
      /\ Lists(wrote(b), req[r].refs \ {b}, req[r].copy, Unlisted(r, b),
               req[r].added, req[r].gone \cup {b}, req[r].todo \ {b})
      /\ wrote(b).overtaken = req[r].overtaken
  BY <1>3, <1>4 DEF RequestOf, Position, Lists
<1>7. at(b) = "remove" \/ at(b) = "load"  OBVIOUS
<1> HIDE DEF rest, wrote, at
<1>8. CASE Unlisted(r, b) # Original(r)
  <2>1. req' = [req EXCEPT ![r] = wrote(b)]  BY <1>2, <1>8
  <2>2. Others(r) /\ req'[r] = wrote(b)  BY <1>1, <1>6, <2>1, Changed
  <2>3. Deletes(r, b, "remove", req[r].then, Unlisted(r, b))
    BY <1>6, <2>2 DEF Deletes
  <2> QED  BY <1>2, <1>8, <2>3
<1>9. CASE Unlisted(r, b) = Original(r)
  <2>1. CASE q(b).own = NoList
    <3>1. req' = [req EXCEPT ![r] = rest(b)]  BY <1>2, <1>9, <2>1
    <3>2. Others(r) /\ req'[r] = rest(b)  BY <1>1, <1>5, <3>1, Changed
    <3>3. Deletes(r, b, at(b), "remove", req[r].own)
      BY <1>5, <3>2 DEF Deletes
    <3> QED  BY <1>2, <1>7, <1>9, <3>3
  <2>2. CASE q(b).own # NoList
    <3>1. req' = [req EXCEPT ![r] = q(b)]  BY <1>2, <1>9, <2>2
    <3>2. Others(r) /\ req'[r] = q(b)  BY <1>1, <1>3, <3>1, Changed
    <3>3. Deletes(r, b, "remove", req[r].then, req[r].own)
      BY <1>3, <3>2 DEF Deletes
    <3> QED  BY <1>2, <1>9, <3>3
  <2> QED  BY <2>1, <2>2
<1> QED  BY <1>8, <1>9

-----------------------------------------------------------------------------
(* The ids that are left suffice, and every step keeps Inv.                  *)

Creates(q) == q.at # "idle" /\ q.op = "book" /\ q.contact = NoContact

LEMMA NewContactsOf ==
  NewContacts = {s \in Requests : Creates(req[s])}
BY DEF NewContacts, Creates, At

LEMMA NewBookingsOf ==
  /\ \A s \in Requests : {s} \X (1..Lacking(req[s])) \subseteq NewBookings
  /\ \A p \in NewBookings :
       \E s \in Requests : p \in {s} \X (1..Lacking(req[s]))
BY DEF NewBookings

LEMMA LackingOf ==
  ASSUME Inv, NEW s \in Requests
  PROVE  /\ Lacking(req[s]) \in Nat
         /\ Lacking(req[s]) > 0
              => Lacking(req[s]) = req[s].size - Cardinality(req[s].refs)
         /\ Cardinality(req[s].refs) >= req[s].size => Lacking(req[s]) = 0
         /\ Lacking(req[s]) = 0 => Cardinality(req[s].refs) >= req[s].size
BY Current, LackingIsNat DEF RequestOf

LEMMA SubsetSuffices ==
  ASSUME NEW n \in Nat, NEW max \in Nat, NEW S, NEW T, IsFiniteSet(S),
         T \subseteq S, n + Cardinality(S) <= max
  PROVE  IsFiniteSet(T) /\ n + Cardinality(T) <= max
<1>1. IsFiniteSet(T) /\ Cardinality(T) <= Cardinality(S)  BY FS_Subset
<1>2. Cardinality(T) \in Nat /\ Cardinality(S) \in Nat
  BY <1>1, FS_CardinalityType
<1> QED  BY <1>1, <1>2

\* What a step of r adds to the ids that are kept.
LEMMA BookingsKept ==
  ASSUME Inv, NEW r \in Requests, Others(r), Lacking(req'[r]) \in Nat
  PROVE  NewBookings' \subseteq
           (NewBookings \ ({r} \X (1..Lacking(req[r]))))
             \cup ({r} \X (1..Lacking(req'[r])))
<1> SUFFICES ASSUME NEW p \in NewBookings'
             PROVE  \/ p \in NewBookings /\ p \notin {r} \X (1..Lacking(req[r]))
                    \/ p \in {r} \X (1..Lacking(req'[r]))
  OBVIOUS
<1>1. PICK s \in Requests : p \in {s} \X (1..Lacking(req'[s]))
  BY DEF NewBookings
<1>2. CASE s = r  BY <1>1, <1>2
<1>3. CASE s # r
  <2>1. p \in {s} \X (1..Lacking(req[s]))  BY <1>1, <1>3 DEF Others
  <2>2. p \in NewBookings  BY <2>1, NewBookingsOf
  <2>3. p[1] = s  BY <2>1
  <2>4. p \notin {r} \X (1..Lacking(req[r]))  BY <1>3, <2>3
  <2> QED  BY <2>2, <2>4
<1> QED  BY <1>2, <1>3

LEMMA ContactsKept ==
  ASSUME Inv, NEW r \in Requests, Others(r)
  PROVE  NewContacts' \subseteq
           (NewContacts \ {r}) \cup (IF Creates(req'[r]) THEN {r} ELSE {})
<1>1. NewContacts' = {s \in Requests : Creates(req'[s])}
  BY DEF NewContacts, Creates, At
<1> QED  BY <1>1, NewContactsOf DEF Others

LEMMA IdsKept ==
  ASSUME Inv, NEW r \in Requests, Others(r),
         contacts' = contacts, bookings' = bookings,
         Lacking(req'[r]) \in Nat, Lacking(req'[r]) <= Lacking(req[r]),
         Creates(req'[r]) => Creates(req[r])
  PROVE  IdsSuffice'
<1>1. Lacking(req[r]) \in Nat  BY LackingOf
<1>2. {r} \X (1..Lacking(req'[r])) \subseteq NewBookings
  <2>1. {r} \X (1..Lacking(req'[r])) \subseteq {r} \X (1..Lacking(req[r]))
    BY <1>1
  <2> QED  BY <2>1, NewBookingsOf
<1>3. NewBookings' \subseteq NewBookings  BY <1>2, BookingsKept
<1>4. NewContacts' \subseteq NewContacts
  BY NewContactsOf, ContactsKept
<1>5. /\ IsFiniteSet(NewContacts) /\ IsFiniteSet(NewBookings)
      /\ contacts + Cardinality(NewContacts) <= MaxContacts
      /\ bookings + Cardinality(NewBookings) <= MaxBookings
      /\ contacts \in Nat /\ bookings \in Nat
      /\ MaxContacts \in Nat /\ MaxBookings \in Nat
  BY Current, BookableAssumption DEF Inv, IdsSuffice
<1>6. IsFiniteSet(NewContacts') /\ contacts + Cardinality(NewContacts') <= MaxContacts
  BY <1>4, <1>5, SubsetSuffices
<1>7. IsFiniteSet(NewBookings') /\ bookings + Cardinality(NewBookings') <= MaxBookings
  BY <1>3, <1>5, SubsetSuffices
<1> QED  BY <1>6, <1>7 DEF IdsSuffice

LEMMA InvStep ==
  ASSUME Inv, NEW r \in Requests, Others(r),
         Tables(contacts, bookings)', IdsSuffice',
         Course(req'[r]), Count(req'[r])
  PROVE  Inv'
<1>1. \A s \in Requests : Course(req'[s]) /\ Count(req'[s])
  BY DEF Others, Inv
<1> QED  BY <1>1 DEF Others, Inv

\* The case of a step that leaves the tables alone.
LEMMA QuietStep ==
  ASSUME Inv, NEW r \in Requests, Others(r),
         UNCHANGED <<opening, contact, booking, list, contacts, bookings>>,
         cached' \in {NoList} \cup SUBSET (1..bookings),
         Course(req'[r]), Count(req'[r]), Lacking(req'[r]) <= Lacking(req[r]),
         Creates(req'[r]) => Creates(req[r])
  PROVE  Inv'
<1>1. Tables(contacts, bookings)'  BY DEF Inv, Tables
<1>2. Lacking(req'[r]) \in Nat
  <2>1. req'[r] \in RequestOf(contacts, bookings)  BY DEF Others
  <2> QED  BY <2>1, Current, LackingIsNat DEF RequestOf
<1>3. IdsSuffice'  BY <1>2, IdsKept
<1> QED  BY <1>1, <1>3, InvStep

LEMMA IdleIsFit ==
  Course(Idle) /\ Count(Idle) /\ Lacking(Idle) = 0 /\ ~Creates(Idle)
<1>1. Cardinality({}) = 0  BY FS_EmptySet
<1>2. Lacking(Idle) = 0  BY <1>1 DEF Idle, Lacking
<1> QED  BY <1>1, <1>2 DEF Course, Count, Creates, Loading, Idle

LEMMA InitInv == Init => Inv
<1> SUFFICES ASSUME Init  PROVE Inv  OBVIOUS
<1>1. \A r \in Requests : req[r] = Idle  BY DEF Init
<1>2. contacts = 0 /\ bookings = 0  BY DEF Init
<1>3. Tables(contacts, bookings)
  <2>1. 0 \in 0..MaxContacts /\ 0 \in 0..MaxBookings  BY BookableAssumption
  <2> QED  BY <1>2, <2>1 DEF Init, Tables
<1>4. req \in [Requests -> RequestOf(contacts, bookings)]
  <2>1. Idle \in RequestOf(0, 0)  BY DEF Idle, RequestOf
  <2>2. req = [r \in Requests |-> Idle]  BY DEF Init
  <2> QED  BY <1>2, <2>1, <2>2
<1>5. NewContacts = {}  BY <1>1, NewContactsOf, IdleIsFit
<1>6. NewBookings = {}
  <2> SUFFICES ASSUME NEW p \in NewBookings  PROVE FALSE  OBVIOUS
  <2>1. PICK s \in Requests : p \in {s} \X (1..Lacking(req[s]))
    BY NewBookingsOf
  <2>2. Lacking(req[s]) = 0  BY <1>1, IdleIsFit
  <2> QED  BY <2>1, <2>2
<1>7. IdsSuffice
  BY <1>2, <1>5, <1>6, FS_EmptySet, BookableAssumption DEF IdsSuffice
<1> QED  BY <1>1, <1>3, <1>4, <1>7, IdleIsFit DEF Inv

LEMMA ReturnInv ==
  ASSUME Inv, NEW r \in Requests, Return(r),
         UNCHANGED <<opening, contact, booking, list, cached, contacts,
                     bookings>>
  PROVE  Inv'
<1>1. Others(r) /\ req'[r] = Idle  BY ReturnFields
<1>2. cached' \in {NoList} \cup SUBSET (1..bookings)  BY DEF Inv, Tables
<1>3. Lacking(req[r]) \in Nat  BY LackingOf
<1>4. Lacking(Idle) <= Lacking(req[r])  BY <1>3, IdleIsFit
<1> QED  BY <1>1, <1>2, <1>4, IdleIsFit, QuietStep

LEMMA LoadInv ==
  ASSUME Inv, NEW r \in Requests, Load(r)
  PROVE  Inv'
<1> DEFINE copy == IF Hit(r) THEN cached ELSE list
           at == IF Hit(r) \/ req[r].saved THEN req[r].then ELSE "fill"
<1>1. /\ Others(r)
      /\ Position(req'[r], at, req[r].then, req[r].op, req[r].contact,
                  req[r].size)
      /\ Lists(req'[r], req[r].refs, copy, req[r].own, req[r].added,
               req[r].gone, req[r].todo)
  BY LoadFields
<1>2. /\ req[r].at = "load" /\ Course(req[r]) /\ Count(req[r])
      /\ UNCHANGED <<opening, contact, booking, list, contacts, bookings>>
      /\ cached' = cached
  BY DEF Load, At, Inv
<1>3. copy # NoList
  <2>1. \A bs \in SUBSET (1..bookings) : bs # NoList
    <3>1. 1..bookings \subseteq 1..MaxBookings
      BY BookableAssumption DEF Inv, Tables
    <3> QED  BY <3>1, BookableAssumption
  <2> QED  BY <2>1 DEF Inv, Tables, Hit
<1>4. at \in {"fill", req[r].then} /\ req[r].then \in {"validate", "sync", "remove"}
  BY Current DEF RequestOf
<1>5. cached' \in {NoList} \cup SUBSET (1..bookings)
  BY <1>2 DEF Inv, Tables
<1> HIDE DEF copy, at
<1>6. Lacking(req'[r]) = Lacking(req[r])
  BY <1>1, SameLacking DEF Position, Lists
<1>7. Course(req'[r])
  BY <1>1, <1>2, <1>3, <1>4 DEF Course, Loading, Position, Lists
<1>8. Count(req'[r])
  BY <1>1, <1>2, <1>4, <1>6 DEF Count, Course, Loading, Position, Lists
<1>9. Creates(req'[r]) => Creates(req[r])
  BY <1>1, <1>2 DEF Creates, Position
<1>10. Lacking(req'[r]) <= Lacking(req[r])  BY <1>6, LackingOf
<1> QED  BY <1>1, <1>2, <1>5, <1>7, <1>8, <1>9, <1>10, QuietStep

\* The steps that only go on to another place
LEMMA MoveInv ==
  ASSUME Inv, NEW r \in Requests, NEW at, Others(r), Moves(r, at),
         UNCHANGED <<opening, contact, booking, list, contacts, bookings>>,
         cached' \in {NoList} \cup SUBSET (1..bookings),
         ~At(r, "idle"),
         \/ At(r, "fill") /\ at = req[r].then
         \/ At(r, "save") /\ at = AfterSave(r) /\ req[r].op # "book"
         \/ /\ At(r, "sync") /\ at = "commit"
            /\ Cardinality(req[r].refs) = req[r].size
         \/ /\ At(r, "remove") /\ req[r].todo = {}
            /\ at = IF req[r].op \in {"edit", "checkIn"} THEN "sync"
                    ELSE "commit"
  PROVE  Inv'
<1>1. Course(req[r]) /\ Count(req[r])  BY DEF Inv
<1>2. /\ req[r].then \in {"validate", "sync", "remove"}
      /\ req[r].op \in {"book", "edit", "checkIn", "cancel", "drop"}
  BY Current DEF RequestOf
<1>3. Lacking(req'[r]) = Lacking(req[r])
  BY SameLacking DEF Moves, Position, Lists
<1>4. Course(req'[r])
  <2>1. CASE At(r, "fill") /\ at = req[r].then
    BY <1>1, <1>2, <2>1 DEF At, Moves, Course, Loading, Position, Lists
  <2>2. CASE At(r, "save") /\ at = AfterSave(r) /\ req[r].op # "book"
    BY <1>1, <1>2, <2>2
       DEF At, AfterSave, Moves, Course, Loading, Position, Lists
  <2>3. CASE At(r, "sync") /\ at = "commit"
    BY <1>1, <1>2, <2>3 DEF At, Moves, Course, Loading, Position, Lists
  <2>4. CASE /\ At(r, "remove") /\ req[r].todo = {}
             /\ at = IF req[r].op \in {"edit", "checkIn"} THEN "sync"
                     ELSE "commit"
    BY <1>1, <1>2, <2>4 DEF At, Moves, Course, Loading, Position, Lists
  <2> QED  BY <2>1, <2>2, <2>3, <2>4
<1>5. Count(req'[r])
  <2>1. CASE At(r, "fill") /\ at = req[r].then
    BY <1>1, <1>2, <1>3, <2>1
       DEF At, Moves, Course, Count, Loading, Position, Lists
  <2>2. CASE At(r, "save") /\ at = AfterSave(r) /\ req[r].op # "book"
    <3>1. at = "sync" \/ (at = "load" /\ req[r].then = "sync")
      BY <1>1, <2>2 DEF Course, AfterSave, At
    <3> QED  BY <1>1, <1>2, <1>3, <2>2, <3>1
                DEF At, Moves, Count, Loading, Position, Lists
  <2>3. CASE /\ At(r, "sync") /\ at = "commit"
             /\ Cardinality(req[r].refs) = req[r].size
    BY <1>1, <1>2, <1>3, <2>3 DEF At, Moves, Count, Loading, Position, Lists
  <2>4. CASE /\ At(r, "remove") /\ req[r].todo = {}
             /\ at = IF req[r].op \in {"edit", "checkIn"} THEN "sync"
                     ELSE "commit"
    <3>1. at = "commit" => req[r].refs = {} /\ req[r].size = 0
      BY <1>1, <1>2, <2>4 DEF Course, Count, At
    <3>2. Cardinality({}) = 0  BY FS_EmptySet
    <3> QED  BY <1>1, <1>2, <1>3, <2>4, <3>1, <3>2
                DEF At, Moves, Course, Count, Loading, Position, Lists
  <2> QED  BY <2>1, <2>2, <2>3, <2>4
<1>6. Creates(req'[r]) => Creates(req[r])
  BY DEF At, Moves, Creates, Position
<1>7. Lacking(req'[r]) <= Lacking(req[r])  BY <1>3, LackingOf
<1> QED  BY <1>4, <1>5, <1>6, <1>7, QuietStep

LEMMA FillInv ==
  ASSUME Inv, NEW r \in Requests, Fill(r)
  PROVE  Inv'
<1>1. /\ At(r, "fill") /\ cached' = req[r].copy
      /\ UNCHANGED <<opening, contact, booking, list, contacts, bookings>>
  BY DEF Fill
<1>2. cached' \in {NoList} \cup SUBSET (1..bookings)
  BY <1>1, Current DEF RequestOf
<1>3. Others(r) /\ Moves(r, req[r].then)  BY FillFields
<1> QED  BY <1>1, <1>2, <1>3, MoveInv DEF At

LEMMA SaveContactInv ==
  ASSUME Inv, NEW r \in Requests, SaveContact(r)
  PROVE  Inv'
<1>1. /\ At(r, "save") /\ req[r].op # "book" /\ cached' = cached
      /\ UNCHANGED <<opening, contact, booking, list, contacts, bookings>>
  BY DEF SaveContact
<1>2. cached' \in {NoList} \cup SUBSET (1..bookings)
  BY <1>1 DEF Inv, Tables
<1>3. Others(r) /\ Moves(r, AfterSave(r))  BY SaveContactFields
<1> QED  BY <1>1, <1>2, <1>3, MoveInv DEF At

LEMMA InSyncInv ==
  ASSUME Inv, NEW r \in Requests, InSync(r)
  PROVE  Inv'
<1>1. /\ At(r, "sync") /\ cached' = cached
      /\ Cardinality(req[r].refs) = req[r].size
      /\ UNCHANGED <<opening, contact, booking, list, contacts, bookings>>
  BY DEF InSync
<1>2. cached' \in {NoList} \cup SUBSET (1..bookings)
  BY <1>1 DEF Inv, Tables
<1>3. Others(r) /\ Moves(r, "commit")  BY InSyncFields
<1> QED  BY <1>1, <1>2, <1>3, MoveInv DEF At

LEMMA RemovedInv ==
  ASSUME Inv, NEW r \in Requests, Removed(r)
  PROVE  Inv'
<1>1. /\ At(r, "remove") /\ req[r].todo = {} /\ cached' = cached
      /\ UNCHANGED <<opening, contact, booking, list, contacts, bookings>>
  BY DEF Removed
<1>2. cached' \in {NoList} \cup SUBSET (1..bookings)
  BY <1>1 DEF Inv, Tables
<1>3. Others(r) /\ Moves(r, IF req[r].op \in {"edit", "checkIn"} THEN "sync"
                            ELSE "commit")
  BY RemovedFields
<1> QED  BY <1>1, <1>2, <1>3, MoveInv DEF At

LEMMA ValidateInv ==
  ASSUME Inv, NEW r \in Requests, Validate(r)
  PROVE  Inv'
<1>1. /\ req[r].at = "validate" /\ cached' = cached
      /\ Course(req[r]) /\ Count(req[r])
      /\ UNCHANGED <<opening, contact, booking, list, contacts, bookings>>
  BY DEF Validate, At, Inv
<1>2. cached' \in {NoList} \cup SUBSET (1..bookings)
  BY <1>1 DEF Inv, Tables
<1>3. Others(r)  BY ValidateFields
<1>4. CASE req'[r] = Idle
  <2>1. Lacking(Idle) <= Lacking(req[r])  BY LackingOf, IdleIsFit
  <2> QED  BY <1>1, <1>2, <1>3, <1>4, <2>1, IdleIsFit, QuietStep
<1>5. CASE /\ Position(req'[r], "save", req[r].then, req[r].op,
                       req[r].contact, req[r].size)
           /\ Lists(req'[r], req[r].refs, req[r].copy, req[r].own,
                    req[r].added, req[r].gone, req[r].todo)
  <2>1. Lacking(req'[r]) = Lacking(req[r])
    BY <1>5, SameLacking DEF Position, Lists
  <2>2. Course(req'[r])
    BY <1>1, <1>5 DEF Course, Loading, Position, Lists
  <2>3. Count(req'[r])
    BY <1>1, <1>5, <2>1 DEF Course, Count, Loading, Position, Lists
  <2>4. Creates(req'[r]) => Creates(req[r])
    BY <1>1, <1>5 DEF Creates, Position
  <2>5. Lacking(req'[r]) <= Lacking(req[r])  BY <2>1, LackingOf
  <2> QED  BY <1>1, <1>2, <1>3, <2>2, <2>3, <2>4, <2>5, QuietStep
<1> QED  BY <1>4, <1>5, ValidateFields

LEMMA ShrinkInv ==
  ASSUME Inv, NEW r \in Requests, Shrink(r)
  PROVE  Inv'
<1> DEFINE n == Excess(r)  todo == First(req[r].refs, n)
<1>1. /\ req[r].at = "sync" /\ cached' = cached /\ n > 0
      /\ Course(req[r]) /\ Count(req[r])
      /\ UNCHANGED <<opening, contact, booking, list, contacts, bookings>>
  BY DEF Shrink, At, Inv
<1>2. cached' \in {NoList} \cup SUBSET (1..bookings)
  BY <1>1 DEF Inv, Tables
<1>3. /\ Others(r)
      /\ Position(req'[r], "remove", req[r].then, req[r].op,
                  req[r].contact, req[r].size)
      /\ Lists(req'[r], req[r].refs, req[r].copy, req[r].own, req[r].added,
               req[r].gone, todo)
  BY ShrinkFields
<1>4. /\ req[r].refs \in SUBSET (1..bookings) /\ req[r].size \in Nat
      /\ bookings \in Nat
      /\ Cardinality(req[r].refs) \in Nat
      /\ req[r].op \in {"book", "edit", "checkIn", "cancel", "drop"}
  BY Current, FiniteIds DEF RequestOf
<1>5. /\ n \in Nat /\ n = Cardinality(req[r].refs) - req[r].size
  BY <1>1, <1>4 DEF Excess
<1>6. todo \subseteq req[r].refs /\ Cardinality(todo) <= n
  BY <1>4, <1>5, FirstIsBounded
<1>7. Cardinality(todo) \in Nat  BY <1>4, <1>6, FiniteIds
<1>8. Cardinality(req[r].refs) >= req[r].size + Cardinality(todo)
  BY <1>4, <1>5, <1>6, <1>7
<1>9. req[r].op # "book"
  <2> SUFFICES ASSUME req[r].op = "book"  PROVE FALSE  OBVIOUS
  <2>1. req[r].refs = {}  BY <1>1 DEF Count
  <2>2. Cardinality(req[r].refs) = 0  BY <2>1, FS_EmptySet
  <2> HIDE DEF n
  <2> QED  BY <1>1, <1>4, <1>5, <2>2
<1> HIDE DEF todo, n
<1>10. Lacking(req'[r]) = Lacking(req[r])
  BY <1>3, SameLacking DEF Position, Lists
<1>11. Course(req'[r])
  BY <1>1, <1>3, <1>9 DEF Course, Loading, Position, Lists
<1>12. Count(req'[r])
  BY <1>1, <1>3, <1>6, <1>8, <1>9, <1>10
     DEF Course, Count, Loading, Position, Lists
<1>13. Creates(req'[r]) => Creates(req[r])
  BY <1>1, <1>3 DEF Creates, Position
<1>14. Lacking(req'[r]) <= Lacking(req[r])  BY <1>10, LackingOf
<1> QED  BY <1>1, <1>2, <1>3, <1>11, <1>12, <1>13, <1>14, QuietStep

LEMMA SkipInv ==
  ASSUME Inv, NEW r \in Requests, Skip(r)
  PROVE  Inv'
<1>1. /\ req[r].at = "remove" /\ cached' = cached
      /\ Course(req[r]) /\ Count(req[r])
      /\ UNCHANGED <<opening, contact, booking, list, contacts, bookings>>
  BY DEF Skip, At, Inv
<1>2. cached' \in {NoList} \cup SUBSET (1..bookings)
  BY <1>1 DEF Inv, Tables
<1>3. PICK b \in req[r].todo :
        /\ Others(r)
        /\ Position(req'[r], "remove", req[r].then, req[r].op,
                    req[r].contact, req[r].size)
        /\ Lists(req'[r], req[r].refs, req[r].copy, req[r].own,
                 req[r].added, req[r].gone, req[r].todo \ {b})
  BY SkipFields
<1>4. /\ req[r].todo \in SUBSET (1..bookings) /\ req[r].size \in Nat
      /\ req[r].refs \in SUBSET (1..bookings) /\ bookings \in Nat
  BY Current DEF RequestOf
<1>5. /\ Cardinality(req[r].todo) \in Nat /\ Cardinality(req[r].refs) \in Nat
      /\ Cardinality(req[r].todo \ {b}) = Cardinality(req[r].todo) - 1
  BY <1>4, FiniteIds, RemoveOne
<1>6. Lacking(req'[r]) = Lacking(req[r])
  BY <1>3, SameLacking DEF Position, Lists
<1>7. Course(req'[r])
  BY <1>1, <1>3 DEF Course, Loading, Position, Lists
<1>8. ASSUME req[r].op \in {"edit", "checkIn"}
      PROVE  /\ req[r].todo \ {b} \subseteq req[r].refs
             /\ Cardinality(req[r].refs)
                  >= req[r].size + Cardinality(req[r].todo \ {b})
  <2>1. /\ req[r].todo \subseteq req[r].refs
        /\ Cardinality(req[r].refs) >= req[r].size + Cardinality(req[r].todo)
    BY <1>1, <1>8 DEF Count
  <2> QED  BY <1>4, <1>5, <2>1
<1>9. Count(req'[r])
  <2> DEFINE todo == req[r].todo \ {b}
  <2>1. req[r].op \in {"edit", "checkIn"}
          => /\ todo \subseteq req[r].refs
             /\ Cardinality(req[r].refs) >= req[r].size + Cardinality(todo)
    BY <1>8
  <2>2. Lists(req'[r], req[r].refs, req[r].copy, req[r].own, req[r].added,
              req[r].gone, todo)
    BY <1>3
  <2> HIDE DEF todo
  <2> QED  BY <1>1, <1>3, <1>6, <2>1, <2>2
              DEF Count, Loading, Position, Lists
<1>10. Creates(req'[r]) => Creates(req[r])
  BY <1>1, <1>3 DEF Creates, Position
<1>11. Lacking(req'[r]) <= Lacking(req[r])  BY <1>6, LackingOf
<1> QED  BY <1>1, <1>2, <1>3, <1>7, <1>9, <1>10, <1>11, QuietStep

LEMMA DeletesInv ==
  ASSUME Inv, NEW r \in Requests, At(r, "remove"), NEW b \in req[r].todo,
         UNCHANGED <<opening, contact, booking, list, cached, contacts,
                     bookings>>,
         NEW at \in {"load", "remove"}, NEW then, NEW own,
         at = "load" => then = "remove",
         at = "load" => own = req[r].own,
         own # req[r].own => own # NoList,
         Deletes(r, b, at, then, own)
  PROVE  Inv'
<1>1. /\ req[r].at = "remove" /\ Course(req[r]) /\ Count(req[r])
      /\ req[r].op # "book"
  BY DEF At, Inv, Course
<1>2. cached' \in {NoList} \cup SUBSET (1..bookings)
  BY DEF Inv, Tables
<1> DEFINE refs == req[r].refs \ {b}
           gone == req[r].gone \cup {b}
           todo == req[r].todo \ {b}
<1>3. /\ Others(r)
      /\ Position(req'[r], at, then, req[r].op, req[r].contact, req[r].size)
      /\ Lists(req'[r], refs, req[r].copy, own, req[r].added, gone, todo)
  BY DEF Deletes
<1>4. /\ req[r].todo \in SUBSET (1..bookings) /\ req[r].size \in Nat
      /\ req[r].refs \in SUBSET (1..bookings) /\ bookings \in Nat
      /\ req[r].op \in {"book", "edit", "checkIn", "cancel", "drop"}
  BY Current DEF RequestOf
<1>5. /\ Cardinality(req[r].todo) \in Nat /\ Cardinality(req[r].refs) \in Nat
      /\ Cardinality(todo) = Cardinality(req[r].todo) - 1
  BY <1>4, FiniteIds, RemoveOne
<1>6. ASSUME req[r].op \in {"edit", "checkIn"}
      PROVE  /\ todo \subseteq refs
             /\ Cardinality(refs) >= req[r].size + Cardinality(todo)
             /\ Cardinality(refs) >= req[r].size
  <2>1. /\ req[r].todo \subseteq req[r].refs
        /\ Cardinality(req[r].refs) >= req[r].size + Cardinality(req[r].todo)
    BY <1>1, <1>6 DEF Count
  <2>2. Cardinality(refs) = Cardinality(req[r].refs) - 1
    BY <1>4, <2>1, RemoveOne
  <2>3. Cardinality(todo) \in Nat  BY <1>4, FiniteIds
  <2>4. Cardinality(refs) >= req[r].size + Cardinality(todo)
    BY <1>4, <1>5, <2>1, <2>2
  <2>5. Cardinality(refs) \in Nat  BY <1>4, FiniteIds
  <2> QED  BY <1>4, <2>1, <2>3, <2>4, <2>5
<1>7. ASSUME req[r].op \in {"cancel", "drop"}
      PROVE  refs = {} /\ req[r].size = 0
  BY <1>1, <1>7 DEF Count
<1>8. refs \subseteq 1..bookings  BY <1>4
<1> HIDE DEF refs, gone, todo
<1>9. Lacking(req'[r]) = 0
  <2>1. req'[r].size = req[r].size /\ req'[r].refs = refs
    BY <1>3 DEF Position, Lists
  <2>2. Cardinality(refs) >= req[r].size
    <3>1. Cardinality({}) = 0  BY FS_EmptySet
    <3> QED  BY <1>1, <1>4, <1>6, <1>7, <3>1
  <2> QED  BY <1>4, <1>8, <2>1, <2>2, LackingIsNat
<1>10. Course(req'[r])
  BY <1>1, <1>3 DEF Course, Loading, Position, Lists
<1>11. Count(req'[r])
  <2>1. ~(Lacking(req'[r]) > 0)  BY <1>9
  <2> QED  BY <1>1, <1>3, <1>4, <1>6, <1>7, <2>1
              DEF Count, Loading, Position, Lists
<1>12. Creates(req'[r]) => Creates(req[r])
  BY <1>1, <1>3 DEF Creates, Position
<1>13. Lacking(req'[r]) <= Lacking(req[r])  BY <1>9, LackingOf
<1> QED  BY <1>2, <1>3, <1>10, <1>11, <1>12, <1>13, QuietStep

LEMMA RemoveInv ==
  ASSUME Inv, NEW r \in Requests, Remove(r)
  PROVE  Inv'
<1>1. /\ At(r, "remove")
      /\ UNCHANGED <<opening, contact, booking, list, cached, contacts,
                     bookings>>
  BY DEF Remove
<1>2. PICK b \in req[r].todo :
        \/ Deletes(r, b, "remove", req[r].then, req[r].own)
        \/ Deletes(r, b, "remove", "remove", req[r].own)
        \/ Deletes(r, b, "load", "remove", req[r].own)
        \/ Deletes(r, b, "remove", req[r].then, Unlisted(r, b))
  BY RemoveFields
<1>3. Unlisted(r, b) # NoList
  <2>1. /\ Base(r) \subseteq 1..bookings
    BY <1>1, Current DEF Base, Inv, Course, At, RequestOf
  <2>2. Unlisted(r, b) \in SUBSET (1..MaxBookings)
    BY <2>1, BookableAssumption DEF Unlisted, Inv, Tables
  <2> QED  BY <2>2, BookableAssumption
<1> QED  BY <1>1, <1>2, <1>3, DeletesInv

\* Tables only grow with the ids.
LEMMA TablesGrow ==
  ASSUME Inv, UNCHANGED <<opening, contact, booking, list, cached>>,
         contacts' \in contacts..MaxContacts,
         bookings' \in bookings..MaxBookings
  PROVE  Tables(contacts, bookings)'
<1>1. /\ contacts \in Nat /\ bookings \in Nat
      /\ contacts' \in 0..MaxContacts /\ bookings' \in 0..MaxBookings
      /\ 1..contacts \subseteq 1..contacts'
      /\ 1..bookings \subseteq 1..bookings'
  BY BookableAssumption DEF Inv, Tables
<1>2. Tables(contacts, bookings)  BY DEF Inv
<1>3. \A c \in DOMAIN contact' :
        /\ contact'[c] \in [size : Nat, refs : SUBSET (1..bookings')]
        /\ Cardinality(contact'[c].refs) = contact'[c].size
  BY <1>1, <1>2 DEF Tables
<1> QED  BY <1>1, <1>2, <1>3 DEF Tables

LEMMA CreateContactInv ==
  ASSUME Inv, NEW r \in Requests, CreateContact(r)
  PROVE  /\ contacts + 1 \in 1..MaxContacts
         /\ Inv'
<1>1. /\ req[r].at = "save" /\ req[r].op = "book"
      /\ contacts' = contacts + 1 /\ bookings' = bookings
      /\ UNCHANGED <<opening, contact, booking, list, cached>>
      /\ Course(req[r]) /\ Count(req[r])
  BY DEF CreateContact, At, Inv
<1>2. r \in NewContacts
  BY <1>1, NewContactsOf DEF Course, Creates
<1>3. /\ IsFiniteSet(NewContacts) /\ IsFiniteSet(NewBookings)
      /\ contacts + Cardinality(NewContacts) <= MaxContacts
      /\ bookings + Cardinality(NewBookings) <= MaxBookings
      /\ contacts \in Nat /\ bookings \in Nat
      /\ MaxContacts \in Nat /\ MaxBookings \in Nat
  BY Current, BookableAssumption DEF Inv, IdsSuffice
<1>4. /\ IsFiniteSet(NewContacts \ {r})
      /\ Cardinality(NewContacts \ {r}) = Cardinality(NewContacts) - 1
      /\ Cardinality(NewContacts \ {r}) \in Nat
      /\ Cardinality(NewContacts) \in Nat
  BY <1>2, <1>3, FS_RemoveElement, FS_CardinalityType
<1>5. contacts + 1 \in 1..MaxContacts  BY <1>3, <1>4
<1>6. contacts + 1 <= MaxContacts  BY <1>3, <1>5
<1>7. /\ Others(r)
      /\ Position(req'[r], "sync", req[r].then, req[r].op, contacts + 1,
                  req[r].size)
      /\ Lists(req'[r], req[r].refs, req[r].copy, req[r].own, req[r].added,
               req[r].gone, req[r].todo)
  BY <1>6, CreateContactFields
<1>8. Lacking(req'[r]) = Lacking(req[r])
  BY <1>7, SameLacking DEF Position, Lists
<1>9. contacts + 1 # NoContact  BY <1>5, BookableAssumption
<1>10. IdsSuffice'
  <2>1. NewContacts' \subseteq NewContacts \ {r}
    <3>1. ~Creates(req'[r])  BY <1>7, <1>9 DEF Creates, Position
    <3> QED  BY <1>7, <3>1, ContactsKept
  <2>2. NewBookings' \subseteq NewBookings
    <3>1. Lacking(req'[r]) \in Nat  BY <1>8, LackingOf
    <3>2. {r} \X (1..Lacking(req'[r])) \subseteq NewBookings
      BY <1>8, NewBookingsOf
    <3> QED  BY <1>7, <3>1, <3>2, BookingsKept
  <2>3. contacts + 1 + Cardinality(NewContacts \ {r}) <= MaxContacts
    BY <1>3, <1>4
  <2>4. contacts + 1 \in Nat  BY <1>3
  <2>5. IsFiniteSet(NewContacts') /\ contacts + 1 + Cardinality(NewContacts') <= MaxContacts
    BY <1>3, <1>4, <2>1, <2>3, <2>4, SubsetSuffices
  <2>6. IsFiniteSet(NewBookings') /\ bookings + Cardinality(NewBookings') <= MaxBookings
    BY <1>3, <2>2, SubsetSuffices
  <2> QED  BY <1>1, <2>5, <2>6 DEF IdsSuffice
<1>11. Tables(contacts, bookings)'
  <2>1. /\ contacts' \in contacts..MaxContacts
        /\ bookings' \in bookings..MaxBookings
    <3>1. bookings \in 0..MaxBookings  BY DEF Inv, Tables
    <3> QED  BY <1>1, <1>3, <1>6, <3>1
  <2> QED  BY <1>1, <2>1, TablesGrow
<1>12. Course(req'[r])
  BY <1>1, <1>7, <1>9 DEF Course, Loading, Position, Lists
<1>13. Count(req'[r])
  BY <1>1, <1>7, <1>8 DEF Count, Loading, Position, Lists
<1> QED  BY <1>5, <1>7, <1>10, <1>11, <1>12, <1>13, InvStep

LEMMA AddInv ==
  ASSUME Inv, NEW r \in Requests, Add(r)
  PROVE  /\ bookings + Lacking(req[r]) <= MaxBookings
         /\ Inv'
<1> DEFINE k == Lacking(req[r])  m == bookings + k
           new == bookings + 1 .. m  refs == req[r].refs \cup new
<1>1. /\ req[r].at = "sync" /\ k > 0
      /\ contacts' = contacts /\ bookings' = m
      /\ UNCHANGED <<opening, contact, booking, list, cached>>
      /\ Course(req[r]) /\ Count(req[r])
  BY DEF Add, At, Inv
<1>2. /\ IsFiniteSet(NewContacts) /\ IsFiniteSet(NewBookings)
      /\ contacts + Cardinality(NewContacts) <= MaxContacts
      /\ bookings + Cardinality(NewBookings) <= MaxBookings
      /\ contacts \in Nat /\ bookings \in Nat
      /\ MaxContacts \in Nat /\ MaxBookings \in Nat
      /\ k \in Nat /\ k = req[r].size - Cardinality(req[r].refs)
  BY <1>1, Current, LackingOf, BookableAssumption DEF Inv, IdsSuffice
<1> DEFINE Kept == {r} \X (1..k)
<1>a. \A p \in Kept : p \in NewBookings  BY NewBookingsOf
<1>b. k = Lacking(req[r])  OBVIOUS
<1> HIDE DEF k
<1>3. /\ Kept \subseteq NewBookings /\ IsFiniteSet(Kept) /\ Cardinality(Kept) = k
  BY <1>2, <1>a, KeptFor
<1> HIDE DEF Kept
<1>4. /\ IsFiniteSet(NewBookings \ Kept)
      /\ Cardinality(NewBookings \ Kept) = Cardinality(NewBookings) - k
      /\ Cardinality(NewBookings \ Kept) \in Nat
      /\ Cardinality(NewBookings) \in Nat
  <2>1. NewBookings \cap Kept = Kept  BY <1>3
  <2>2. /\ IsFiniteSet(NewBookings \ Kept)
        /\ Cardinality(NewBookings \ Kept)
             = Cardinality(NewBookings) - Cardinality(NewBookings \cap Kept)
    BY <1>2, FS_Difference
  <2>3. /\ Cardinality(NewBookings \ Kept) \in Nat
        /\ Cardinality(NewBookings) \in Nat
    BY <1>2, <2>2, FS_CardinalityType
  <2> QED  BY <1>3, <2>1, <2>2, <2>3
<1>5. m <= MaxBookings /\ m \in Nat  BY <1>2, <1>4
<1>6. /\ Others(r)
      /\ Position(req'[r], "commit", req[r].then, req[r].op, req[r].contact,
                  req[r].size)
      /\ Lists(req'[r], refs, req[r].copy, Base(r) \cup new, new, req[r].gone,
               req[r].todo)
  BY <1>2, <1>5, <1>b, AddFields
<1>7. /\ req[r].refs \in SUBSET (1..bookings) /\ req[r].size \in Nat
      /\ req[r].op \in {"book", "edit", "checkIn", "cancel", "drop"}
  BY Current DEF RequestOf
<1>8. Cardinality(refs) = req[r].size
  <2>1. IsFiniteSet(req[r].refs) /\ Cardinality(req[r].refs) \in Nat
    BY <1>2, <1>7, FiniteIds
  <2>2. IsFiniteSet(new) /\ Cardinality(new) = k
    <3>1. /\ bookings + 1 \in Int /\ m \in Int
          /\ (IF bookings + 1 > m THEN 0 ELSE m - (bookings + 1) + 1) = k
      BY <1>2
    <3> HIDE DEF m
    <3> QED  BY <3>1, FS_Interval
  <2>3. req[r].refs \cap new = {}  BY <1>2, <1>7
  <2>4. Cardinality({}) = 0  BY FS_EmptySet
  <2> DEFINE old == req[r].refs
  <2> HIDE DEF new, old
  <2>5. Cardinality(old \cup new)
          = Cardinality(old) + Cardinality(new) - Cardinality(old \cap new)
    BY <2>1, <2>2, FS_Union DEF old
  <2>6. Cardinality(old \cap new) = 0  BY <2>3, <2>4 DEF old
  <2>7. Cardinality(old) + Cardinality(new) - 0 = req[r].size
    BY <1>2, <1>7, <2>1, <2>2 DEF old
  <2> QED  BY <2>5, <2>6, <2>7 DEF old
<1>9. refs \subseteq 1..m  BY <1>2, <1>7
<1> HIDE DEF m, new, refs
<1>10. Lacking(req'[r]) = 0
  <2>1. /\ req'[r].size = req[r].size /\ req'[r].refs = refs
    BY <1>6 DEF Position, Lists
  <2> DEFINE q == req'[r]
  <2>2. /\ q.size \in Nat /\ q.refs \subseteq 1..m
        /\ Cardinality(q.refs) >= q.size
    BY <1>7, <1>8, <1>9, <2>1
  <2> HIDE DEF q
  <2>3. Lacking(q) = 0  BY <1>5, <2>2, LackingIsNat
  <2> QED  BY <2>3 DEF q
<1>11. IdsSuffice'
  <2>1. NewBookings' \subseteq NewBookings \ Kept
    <3>1. {r} \X (1..Lacking(req'[r])) = {}  BY <1>10
    <3>2. Lacking(req'[r]) \in Nat  BY <1>10
    <3> QED  BY <1>6, <3>1, <3>2, <1>b, BookingsKept DEF Kept
  <2>2. NewContacts' \subseteq NewContacts
    <3>1. Creates(req'[r]) => Creates(req[r])
      BY <1>1, <1>6 DEF Creates, Position
    <3> QED  BY <1>6, <3>1, NewContactsOf, ContactsKept
  <2>3. m + Cardinality(NewBookings \ Kept) <= MaxBookings
    BY <1>2, <1>4 DEF m
  <2>4. IsFiniteSet(NewContacts') /\ contacts + Cardinality(NewContacts') <= MaxContacts
    BY <1>2, <2>2, SubsetSuffices
  <2>5. IsFiniteSet(NewBookings') /\ m + Cardinality(NewBookings') <= MaxBookings
    BY <1>2, <1>4, <1>5, <2>1, <2>3, SubsetSuffices
  <2> QED  BY <1>1, <2>4, <2>5 DEF IdsSuffice
<1>12. Tables(contacts, bookings)'
  <2>1. /\ contacts' \in contacts..MaxContacts
        /\ bookings' \in bookings..MaxBookings
    <3>1. contacts \in 0..MaxContacts  BY DEF Inv, Tables
    <3> QED  BY <1>1, <1>2, <1>5, <3>1 DEF m
  <2> QED  BY <1>1, <2>1, TablesGrow
<1>13. Course(req'[r])
  BY <1>1, <1>6 DEF Course, Loading, Position, Lists
<1>14. Count(req'[r])
  <2>1. ~(Lacking(req'[r]) > 0)  BY <1>10
  <2>2. req[r].op # "cancel" /\ req[r].op # "drop"  BY <1>1 DEF Course
  <2>3. /\ req'[r].at = "commit" /\ req'[r].op = req[r].op
        /\ Cardinality(req'[r].refs) = req'[r].size
    BY <1>6, <1>8 DEF Position, Lists
  <2>4. Cardinality(req'[r].refs) >= req'[r].size
    BY <1>6, <1>7, <1>8 DEF Position, Lists
  <2> QED  BY <2>1, <2>2, <2>3, <2>4 DEF Count, Loading
<1>15. Inv'  BY <1>6, <1>11, <1>12, <1>13, <1>14, InvStep
<1> QED  BY <1>5, <1>15, <1>b DEF m

\* The rows a commit writes.
LEMMA CommitTables ==
  ASSUME Inv, NEW r \in Requests, Commit(r)
  PROVE  Tables(contacts, bookings)'
<1> DEFINE q == req[r]  c == q.contact
           row == [size |-> q.size, refs |-> q.refs]
<1>1. /\ q.at = "commit" /\ Course(q) /\ Count(q)
      /\ contacts' = contacts /\ bookings' = bookings /\ opening' = opening
      /\ contact' = Saved(r)
      /\ booking' = [b \in (DOMAIN booking \ q.gone) \cup q.added |->
                       IF b \in q.added THEN c ELSE booking[b]]
      /\ list' = IF q.own = NoList THEN list ELSE q.own
      /\ cached' = IF q.saved THEN NoList ELSE cached
  BY DEF Commit, At, Inv
<1>2. q \in RequestOf(contacts, bookings)  BY Current
<1>3. Tables(contacts, bookings)  BY DEF Inv
<1>4. list' \subseteq 1..bookings /\ cached' \in {NoList} \cup SUBSET (1..bookings)
  BY <1>1, <1>2, <1>3 DEF Tables, RequestOf
<1>5. q.added # {} => c \in 1..contacts
  <2>1. q.op \in {"book", "edit", "checkIn"} => c # NoContact
    BY <1>1 DEF Course
  <2> QED  BY <1>1, <1>2, <2>1 DEF Course, RequestOf
<1>6. /\ DOMAIN booking' \subseteq 1..bookings
      /\ \A b \in DOMAIN booking' : booking'[b] \in 1..contacts
  BY <1>1, <1>2, <1>3, <1>5 DEF Tables, RequestOf
<1>7. q.op \in {"book", "edit", "checkIn"} => c \in 1..contacts
  BY <1>1, <1>2 DEF Course, RequestOf
<1>8. /\ row.size = q.size /\ row.refs = q.refs
      /\ row \in [size : Nat, refs : SUBSET (1..bookings)]
      /\ Cardinality(row.refs) = row.size
  <2>1. q.size \in Nat /\ q.refs \in SUBSET (1..bookings)
    BY <1>2 DEF RequestOf
  <2>2. Cardinality(q.refs) = q.size  BY <1>1 DEF Count
  <2> HIDE DEF q
  <2> QED  BY <2>1, <2>2
<1>9. /\ DOMAIN Saved(r) \subseteq
           DOMAIN contact \cup (IF q.op \in {"book", "edit", "checkIn"}
                                THEN {c} ELSE {})
      /\ \A d \in DOMAIN Saved(r) :
           \/ d \in DOMAIN contact /\ Saved(r)[d] = contact[d]
           \/ Saved(r)[d] = row
  <2> DEFINE others == Restrict(contact, DOMAIN contact \ {c})
  <2>1. others = [d \in DOMAIN contact \ {c} |-> contact[d]]
    BY DEF Restrict
  <2>2. CASE q.op = "drop"
    <3>1. Saved(r) = contact  BY <2>2 DEF Saved
    <3> HIDE DEF q
    <3> QED  BY <3>1
  <2>3. CASE q.op = "cancel"
    <3>1. Saved(r) = others  BY <2>3 DEF Saved
    <3> HIDE DEF q, c, others, row
    <3> QED  BY <2>1, <3>1
  <2>4. CASE q.op # "drop" /\ q.op # "cancel"
    <3>1. Saved(r) = [d \in DOMAIN others \cup {c} |->
                        IF d = c THEN row ELSE others[d]]
      BY <2>4 DEF Saved
    <3>2. q.op \in {"book", "edit", "checkIn"}  BY <1>2, <2>4 DEF RequestOf
    <3> HIDE DEF q, c, others, row
    <3> QED  BY <2>1, <3>1, <3>2
  <2> QED  BY <2>2, <2>3, <2>4
<1> HIDE DEF q, c, row
<1>10. DOMAIN contact' \subseteq 1..contacts
  BY <1>1, <1>3, <1>7, <1>9 DEF Tables
<1>11. \A d \in DOMAIN contact' :
         /\ contact'[d] \in [size : Nat, refs : SUBSET (1..bookings)]
         /\ Cardinality(contact'[d].refs) = contact'[d].size
  BY <1>1, <1>3, <1>8, <1>9 DEF Tables
<1> QED  BY <1>1, <1>3, <1>4, <1>6, <1>10, <1>11 DEF Tables

LEMMA CommitInv ==
  ASSUME Inv, NEW r \in Requests, Commit(r)
  PROVE  Inv'
<1>1. Return(r) /\ contacts' = contacts /\ bookings' = bookings
  BY DEF Commit
<1>2. Others(r) /\ req'[r] = Idle  BY <1>1, ReturnFields
<1>3. Lacking(req'[r]) \in Nat /\ Lacking(req'[r]) <= Lacking(req[r])
  BY <1>2, LackingOf, IdleIsFit
<1>4. IdsSuffice'  BY <1>1, <1>2, <1>3, IdsKept, IdleIsFit
<1> QED  BY <1>2, <1>4, CommitTables, InvStep, IdleIsFit

\* A call that may add bookings begins when there are ids for them.
LEMMA BeginsInv ==
  ASSUME Inv, NEW r \in Requests, At(r, "idle"),
         UNCHANGED <<opening, contact, booking, list, cached, contacts,
                     bookings>>,
         NEW at, NEW then, NEW op, NEW c, NEW n, NEW refs, NEW todo,
         Others(r), Begins(r, at, then, op, c, n, refs, todo),
         Course(req'[r]), Count(req'[r]),
         \/ Lacking(req'[r]) = 0
         \/ bookings + Cardinality(NewBookings) + Lacking(req'[r])
              <= MaxBookings,
         Creates(req'[r]) => ContactLeft
  PROVE  Inv'
<1> DEFINE k == Lacking(req'[r])  Kept == {r} \X (1..k)
<1>1. k \in Nat
  <2>1. req'[r] \in RequestOf(contacts, bookings)  BY DEF Others
  <2> QED  BY <2>1, Current, LackingIsNat DEF RequestOf
<1>2. /\ IsFiniteSet(NewContacts) /\ IsFiniteSet(NewBookings)
      /\ contacts + Cardinality(NewContacts) <= MaxContacts
      /\ bookings + Cardinality(NewBookings) <= MaxBookings
      /\ contacts \in Nat /\ bookings \in Nat
      /\ MaxContacts \in Nat /\ MaxBookings \in Nat
  BY Current, BookableAssumption DEF Inv, IdsSuffice
<1>3. bookings + Cardinality(NewBookings) + k <= MaxBookings
  <2>1. Cardinality(NewBookings) \in Nat  BY <1>2, FS_CardinalityType
  <2> HIDE DEF k
  <2>2. k = 0 => bookings + Cardinality(NewBookings) + k <= MaxBookings
    BY <1>2, <2>1
  <2> QED  BY <2>2 DEF k
<1>4. NewBookings' \subseteq NewBookings \cup Kept
  BY <1>1, BookingsKept
<1> HIDE DEF k
<1>5. IsFiniteSet(Kept) /\ Cardinality(Kept) = k  BY <1>1, KeptFor
<1> HIDE DEF Kept
<1>6. /\ IsFiniteSet(NewBookings \cup Kept)
      /\ bookings + Cardinality(NewBookings \cup Kept) <= MaxBookings
  <2>1. /\ IsFiniteSet(NewBookings \cup Kept)
        /\ Cardinality(NewBookings \cup Kept)
             = Cardinality(NewBookings) + Cardinality(Kept)
                 - Cardinality(NewBookings \cap Kept)
    BY <1>2, <1>5, FS_Union
  <2>2. IsFiniteSet(NewBookings \cap Kept)  BY <1>2, FS_Intersection
  <2>3. /\ Cardinality(NewBookings \cap Kept) \in Nat
        /\ Cardinality(NewBookings) \in Nat
    BY <1>2, <2>2, FS_CardinalityType
  <2> QED  BY <1>1, <1>2, <1>3, <1>5, <2>1, <2>3
<1>7. IsFiniteSet(NewBookings') /\ bookings + Cardinality(NewBookings') <= MaxBookings
  BY <1>2, <1>4, <1>6, SubsetSuffices
<1>8. IsFiniteSet(NewContacts') /\ contacts + Cardinality(NewContacts') <= MaxContacts
  <2>1. CASE ~Creates(req'[r])
    <3>1. NewContacts' \subseteq NewContacts  BY <2>1, ContactsKept
    <3> QED  BY <1>2, <3>1, SubsetSuffices
  <2>2. CASE Creates(req'[r])
    <3>1. contacts + Cardinality(NewContacts) < MaxContacts
      BY <2>2 DEF ContactLeft
    <3>2. NewContacts' \subseteq NewContacts \cup {r}
      BY <2>2, ContactsKept
    <3>3. /\ IsFiniteSet(NewContacts \cup {r})
          /\ Cardinality(NewContacts \cup {r})
               = IF r \in NewContacts THEN Cardinality(NewContacts)
                 ELSE Cardinality(NewContacts) + 1
      BY <1>2, FS_AddElement
    <3>4. Cardinality(NewContacts) \in Nat  BY <1>2, FS_CardinalityType
    <3>5. contacts + Cardinality(NewContacts \cup {r}) <= MaxContacts
      BY <1>2, <3>1, <3>3, <3>4
    <3> QED  BY <1>2, <3>2, <3>3, <3>5, SubsetSuffices
  <2> QED  BY <2>1, <2>2
<1>9. IdsSuffice'  BY <1>7, <1>8 DEF IdsSuffice
<1>10. Tables(contacts, bookings)'  BY DEF Inv, Tables
<1> QED  BY <1>9, <1>10, InvStep

LEMMA BookInv ==
  ASSUME Inv, NEW r \in Requests, NEW size \in Sizes, Book(r, size)
  PROVE  Inv'
<1> DEFINE p == [size |-> size, refs |-> {}]
<1>1. Others(r) /\ Begins(r, "load", "validate", "book", NoContact, size, {}, {})
  BY BookFields
<1>2. /\ At(r, "idle") /\ ContactLeft /\ IdsLeft(p)
      /\ UNCHANGED <<opening, contact, booking, list, cached, contacts,
                     bookings>>
  BY DEF Book
<1>3. Lacking(req'[r]) = Lacking(p)
  <2>1. p.size = size /\ p.refs = {}  OBVIOUS
  <2> HIDE DEF p
  <2> QED  BY <1>1, <2>1, SameLacking DEF Begins, Position, Lists
<1> HIDE DEF p
<1>4. bookings + Cardinality(NewBookings) + Lacking(req'[r]) <= MaxBookings
  BY <1>2, <1>3 DEF IdsLeft
<1>5. Course(req'[r])
  BY <1>1 DEF Begins, Course, Loading, Position, Lists
<1>6. Count(req'[r])
  BY <1>1 DEF Begins, Count, Loading, Position, Lists
<1> QED  BY <1>1, <1>2, <1>4, <1>5, <1>6, BeginsInv

LEMMA EditInv ==
  ASSUME Inv, NEW r \in Requests, NEW size \in Sizes, NEW c, Edit(r, c, size)
  PROVE  Inv'
<1> DEFINE p == [contact[c] EXCEPT !.size = size]
<1>1. Others(r) /\ Begins(r, "load", "validate", "edit", c, size,
                          contact[c].refs, {})
  BY EditFields
<1>2. /\ At(r, "idle") /\ IdsLeft(p) /\ c \in DOMAIN contact
      /\ UNCHANGED <<opening, contact, booking, list, cached, contacts,
                     bookings>>
  BY DEF Edit
<1>3. Lacking(req'[r]) = Lacking(p)
  <2>1. contact[c] \in [size : Nat, refs : SUBSET (1..bookings)]
    BY <1>2 DEF Inv, Tables
  <2>2. p.size = size /\ p.refs = contact[c].refs  BY <2>1
  <2> HIDE DEF p
  <2> QED  BY <1>1, <2>2, SameLacking DEF Begins, Position, Lists
<1> HIDE DEF p
<1>4. bookings + Cardinality(NewBookings) + Lacking(req'[r]) <= MaxBookings
  BY <1>2, <1>3 DEF IdsLeft
<1>5. c # NoContact
  BY <1>2, BookableAssumption DEF Inv, Tables
<1>6. Course(req'[r])
  BY <1>1, <1>5 DEF Begins, Course, Loading, Position, Lists
<1>7. Count(req'[r])
  BY <1>1 DEF Begins, Count, Loading, Position, Lists
<1>8. ~Creates(req'[r])  BY <1>1 DEF Begins, Creates, Position
<1> QED  BY <1>1, <1>2, <1>4, <1>6, <1>7, <1>8, BeginsInv

LEMMA CheckInInv ==
  ASSUME Inv, NEW r \in Requests, NEW c, CheckIn(r, c)
  PROVE  Inv'
<1>1. Others(r) /\ Begins(r, "save", "sync", "checkIn", c, contact[c].size,
                          contact[c].refs, {})
  BY CheckInFields
<1>2. /\ At(r, "idle") /\ c \in DOMAIN contact
      /\ UNCHANGED <<opening, contact, booking, list, cached, contacts,
                     bookings>>
  BY DEF CheckIn
<1>3. /\ contact[c].size \in Nat /\ contact[c].refs \subseteq 1..bookings
      /\ Cardinality(contact[c].refs) = contact[c].size /\ bookings \in Nat
      /\ c # NoContact
  BY <1>2, BookableAssumption DEF Inv, Tables
<1>4. Cardinality(req'[r].refs) = req'[r].size
  BY <1>1, <1>3 DEF Begins, Position, Lists
<1>5. Lacking(req'[r]) = 0 /\ Cardinality(req'[r].refs) >= req'[r].size
  <2> DEFINE q == req'[r]
  <2>1. /\ q.size \in Nat /\ q.refs \subseteq 1..bookings
        /\ Cardinality(q.refs) >= q.size
    BY <1>1, <1>3 DEF Begins, Position, Lists
  <2> HIDE DEF q
  <2>2. Lacking(q) = 0  BY <1>3, <2>1, LackingIsNat
  <2> QED  BY <2>1, <2>2 DEF q
<1>6. Course(req'[r])
  BY <1>1, <1>3 DEF Begins, Course, Loading, Position, Lists
<1>7. Count(req'[r])
  <2>1. ~(Lacking(req'[r]) > 0)  BY <1>5
  <2> QED  BY <1>1, <1>5, <2>1 DEF Begins, Count, Loading, Position, Lists
<1>8. ~Creates(req'[r])  BY <1>1 DEF Begins, Creates, Position
<1> QED  BY <1>1, <1>2, <1>5, <1>6, <1>7, <1>8, BeginsInv

\* A call that deletes has no contact to save: no size, no bookings.
LEMMA NothingLacks ==
  ASSUME NEW q, q.size = 0, q.refs = {}
  PROVE  Lacking(q) = 0
<1>1. Cardinality({}) = 0  BY FS_EmptySet
<1> QED  BY <1>1 DEF Lacking

LEMMA CancelInv ==
  ASSUME Inv, NEW r \in Requests, NEW c, Cancel(r, c)
  PROVE  Inv'
<1>1. Others(r) /\ Begins(r, "load", "remove", "cancel", c, 0, {},
                          contact[c].refs)
  BY CancelFields
<1>2. /\ At(r, "idle") /\ c \in DOMAIN contact
      /\ UNCHANGED <<opening, contact, booking, list, cached, contacts,
                     bookings>>
  BY DEF Cancel
<1>3. Lacking(req'[r]) = 0
  BY <1>1, NothingLacks DEF Begins, Position, Lists
<1>4. c # NoContact
  BY <1>2, BookableAssumption DEF Inv, Tables
<1>5. Course(req'[r])
  BY <1>1, <1>4 DEF Begins, Course, Loading, Position, Lists
<1>6. Count(req'[r])
  <2>1. ~(Lacking(req'[r]) > 0)  BY <1>3
  <2> QED  BY <1>1, <2>1 DEF Begins, Count, Loading, Position, Lists
<1>7. ~Creates(req'[r])  BY <1>1 DEF Begins, Creates, Position
<1> QED  BY <1>1, <1>2, <1>3, <1>5, <1>6, <1>7, BeginsInv

LEMMA DropInv ==
  ASSUME Inv, NEW r \in Requests, NEW b, Drop(r, b)
  PROVE  Inv'
<1>1. Others(r) /\ Begins(r, "load", "remove", "drop", NoContact, 0, {}, {b})
  BY DropFields
<1>2. /\ At(r, "idle")
      /\ UNCHANGED <<opening, contact, booking, list, cached, contacts,
                     bookings>>
  BY DEF Drop
<1>3. Lacking(req'[r]) = 0
  BY <1>1, NothingLacks DEF Begins, Position, Lists
<1>4. Course(req'[r])
  BY <1>1 DEF Begins, Course, Loading, Position, Lists
<1>5. Count(req'[r])
  <2>1. ~(Lacking(req'[r]) > 0)  BY <1>3
  <2> QED  BY <1>1, <2>1 DEF Begins, Count, Loading, Position, Lists
<1>6. ~Creates(req'[r])  BY <1>1 DEF Begins, Creates, Position
<1> QED  BY <1>1, <1>2, <1>3, <1>4, <1>5, <1>6, BeginsInv

LEMMA UnchangedInv ==
  ASSUME Inv, UNCHANGED vars
  PROVE  Inv'
<1>1. Tables(contacts, bookings)'  BY DEF vars, Inv, Tables
<1>2. IdsSuffice'
  BY DEF vars, Inv, IdsSuffice, NewContacts, NewBookings, At
<1> QED  BY <1>1, <1>2 DEF vars, Inv

LEMMA NextInv ==
  ASSUME Inv, [Next]_vars
  PROVE  Inv'
<1>1. CASE UNCHANGED vars  BY <1>1, UnchangedInv
<1>2. ASSUME NEW r \in Requests, Call(r)  PROVE Inv'
  BY <1>2, BookInv, EditInv, CheckInInv, CancelInv, DropInv DEF Call
<1>3. ASSUME NEW r \in Requests, Step(r)  PROVE Inv'
  <2>1. CASE Load(r)  BY <2>1, LoadInv
  <2>2. CASE Fill(r)  BY <2>2, FillInv
  <2>3. CASE Validate(r)  BY <2>3, ValidateInv
  <2>4. CASE Refuse(r)  BY <2>4, ReturnInv DEF Refuse
  <2>5. CASE CreateContact(r)  BY <2>5, CreateContactInv
  <2>6. CASE SaveContact(r)  BY <2>6, SaveContactInv
  <2>7. CASE Gone(r)  BY <2>7, ReturnInv DEF Gone
  <2>8. CASE Add(r)  BY <2>8, AddInv
  <2>9. CASE Shrink(r)  BY <2>9, ShrinkInv
  <2>10. CASE InSync(r)  BY <2>10, InSyncInv
  <2>11. CASE Skip(r)  BY <2>11, SkipInv
  <2>12. CASE Remove(r)  BY <2>12, RemoveInv
  <2>13. CASE Removed(r)  BY <2>13, RemovedInv
  <2>14. CASE Commit(r)  BY <2>14, CommitInv
  <2> QED  BY <1>3, <2>1, <2>2, <2>3, <2>4, <2>5, <2>6, <2>7, <2>8, <2>9,
              <2>10, <2>11, <2>12, <2>13, <2>14 DEF Step
<1>4. ASSUME NEW r \in Requests, Fail(r)  PROVE Inv'
  BY <1>4, ReturnInv DEF Fail
<1> QED  BY <1>1, <1>2, <1>3, <1>4 DEF Next

LEMMA Invariance == Spec => []Inv
<1> QED  BY InitInv, NextInv, PTL DEF Spec

\* The tables, the requests and the ids issued stay what they should be, and
\* the instance is in memory wherever the code takes it from there: in
\* particular where postSave(), which loads it only then, goes on to use it.
THEOREM TypesHold == Spec => []TypeOK
<1>1. Inv => TypeOK
  <2> SUFFICES ASSUME Inv  PROVE TypeOK  OBVIOUS
  <2>1. /\ Tables(contacts, bookings)
        /\ req \in [Requests -> RequestOf(contacts, bookings)]
        /\ contacts \in Nat /\ bookings \in Nat
        /\ contacts <= MaxContacts /\ bookings <= MaxBookings
        /\ MaxContacts \in Nat /\ MaxBookings \in Nat
    BY BookableAssumption DEF Inv, Tables
  <2>2. \A q \in RequestOf(contacts, bookings) :
          q \in RequestOf(MaxContacts, MaxBookings)
    BY <2>1, MoreIds
  <2>3. RequestOf(MaxContacts, MaxBookings) = Request
    BY DEF RequestOf, Request, ContactIds, BookingIds
  <2>4. req \in [Requests -> Request]
    BY <2>1, <2>2, <2>3
  <2>5. \A r \in Requests :
          req[r].at \in {"fill", "validate", "sync"} => req[r].copy # NoList
    BY DEF Inv, Course
  <2> QED  BY <2>1, <2>4, <2>5 DEF Tables, TypeOK
<1> QED  BY <1>1, Invariance, PTL

-----------------------------------------------------------------------------
(* Slots for people: however requests race, no list they read, hold or       *)
(* write has more entries than there are slots, but for those of edits that  *)
(* were overtaken.                                                           *)

LEMMA FewerAre ==
  ASSUME NEW m \in Nat, NEW B \in SUBSET (1..m), NEW A \in SUBSET B,
         NEW slots \in Nat, Cardinality(B) <= slots
  PROVE  Cardinality(A) <= slots
<1>1. /\ Cardinality(A) \in Nat /\ Cardinality(A) <= Cardinality(B)
      /\ Cardinality(B) \in Nat
  BY FiniteIds, Smaller
<1> QED  BY <1>1

\* What is excused only grows.
LEMMA ShownOnward ==
  ASSUME NEW m \in Nat, NEW bs \in {NoList} \cup SUBSET (1..m),
         NEW slots \in Nat, NEW U, NEW V, U \subseteq V, Shown(bs, slots, U)
  PROVE  Shown(bs, slots, V)
<1> SUFFICES ASSUME bs # NoList  PROVE Cardinality(bs \ V) <= slots
  BY DEF Shown
<1>1. bs \in SUBSET (1..m) /\ Cardinality(bs \ U) <= slots  BY DEF Shown
<1> DEFINE A == bs \ V  B == bs \ U
<1>2. B \in SUBSET (1..m) /\ A \in SUBSET B /\ Cardinality(B) <= slots
  BY <1>1
<1> HIDE DEF A, B
<1>3. Cardinality(A) <= slots  BY <1>2, FewerAre
<1> QED  BY <1>3 DEF A

LEMMA SlotsAreNat ==
  ASSUME Inv
  PROVE  opening.slots \in Nat /\ opening.asParties \in BOOLEAN
BY BookableAssumption DEF Inv, Tables

LEMMA PeopleStep ==
  ASSUME Inv, PeopleInv, NEW r \in Requests, Others(r), opening' = opening,
         unchecked \subseteq unchecked',
         ~opening.asParties =>
           /\ Shown(list', opening.slots, unchecked')
           /\ Shown(cached', opening.slots, unchecked')
           /\ Validated(req'[r], opening.slots, unchecked')
  PROVE  PeopleInv'
<1> SUFFICES ASSUME ~opening.asParties, NEW s \in Requests, s # r
             PROVE  Validated(req'[s], opening.slots, unchecked')
  BY DEF PeopleInv
<1>1. req'[s] = req[s]  BY DEF Others
<1>2. Validated(req[s], opening.slots, unchecked)  BY DEF PeopleInv
<1>3. /\ req[s].copy \in {NoList} \cup SUBSET (1..bookings)
      /\ req[s].own \in {NoList} \cup SUBSET (1..bookings)
      /\ bookings \in Nat /\ opening.slots \in Nat
  BY Current, SlotsAreNat DEF RequestOf
<1>4. Shown(req[s].copy, opening.slots, unchecked')
  BY <1>2, <1>3, ShownOnward DEF Validated
<1>5. Shown(req[s].own, opening.slots, unchecked' \cup Excused(req[s]))
  <2>1. unchecked \cup Excused(req[s]) \subseteq unchecked' \cup Excused(req[s])
    OBVIOUS
  <2> QED  BY <1>2, <1>3, <2>1, ShownOnward DEF Validated
<1> QED  BY <1>1, <1>2, <1>4, <1>5 DEF Validated

\* The case of a step that writes no list.
LEMMA QuietPeople ==
  ASSUME Inv, PeopleInv, NEW r \in Requests, Others(r),
         UNCHANGED <<opening, list, cached, unchecked>>,
         ~opening.asParties => Validated(req'[r], opening.slots, unchecked)
  PROVE  PeopleInv'
<1>1. ~opening.asParties =>
        /\ Shown(list', opening.slots, unchecked')
        /\ Shown(cached', opening.slots, unchecked')
        /\ Validated(req'[r], opening.slots, unchecked')
  BY DEF PeopleInv
<1> QED  BY <1>1, PeopleStep

LEMMA IdleIsValidated ==
  ASSUME NEW slots, NEW excused
  PROVE  Validated(Idle, slots, excused)
BY DEF Validated, Shown, Adds, Idle

LEMMA ReturnPeople ==
  ASSUME Inv, PeopleInv, NEW r \in Requests, Return(r),
         UNCHANGED <<opening, list, cached, contacts, bookings, unchecked>>
  PROVE  PeopleInv'
<1>1. Others(r) /\ req'[r] = Idle  BY ReturnFields
<1> QED  BY <1>1, IdleIsValidated, QuietPeople

\* A call that begins does not yet add bookings.
LEMMA BeginsToAdd ==
  ASSUME Inv', NEW r \in Requests,
         NEW at, NEW then, NEW op, NEW c, NEW n, NEW refs, NEW todo,
         at = "load" \/ op = "checkIn",
         Begins(r, at, then, op, c, n, refs, todo)
  PROVE  ~Adds(req'[r])
<1>1. CASE at = "load"
  BY <1>1 DEF Begins, Adds, Position
<1>2. CASE op = "checkIn"
  <2>1. Count(req'[r])  BY DEF Inv
  <2>2. Cardinality(req'[r].refs) >= req'[r].size
    BY <1>2, <2>1 DEF Count, Begins, Position
  <2>3. req'[r].refs \subseteq 1..bookings' /\ req'[r].size \in Nat
        /\ bookings' \in Nat
    <3>1. Inv' /\ r \in Requests => req'[r] \in RequestOf(contacts', bookings')
      BY DEF Inv
    <3>2. bookings' \in Nat  BY BookableAssumption DEF Inv, Tables
    <3> QED  BY <3>1, <3>2 DEF RequestOf
  <2> DEFINE q == req'[r]
  <2>4. /\ q.refs \subseteq 1..bookings' /\ q.size \in Nat
        /\ Cardinality(q.refs) >= q.size
    BY <2>2, <2>3
  <2> HIDE DEF q
  <2>5. Lacking(q) = 0  BY <2>3, <2>4, LackingIsNat
  <2> QED  BY <2>5 DEF Adds, q
<1> QED  BY <1>1, <1>2

LEMMA BeginsPeople ==
  ASSUME Inv, Inv', PeopleInv, NEW r \in Requests,
         UNCHANGED <<opening, list, cached, unchecked>>,
         NEW at, NEW then, NEW op, NEW c, NEW n, NEW refs, NEW todo,
         at = "load" \/ op = "checkIn",
         Others(r), Begins(r, at, then, op, c, n, refs, todo)
  PROVE  PeopleInv'
<1>1. ~Adds(req'[r])  BY BeginsToAdd
<1>2. Validated(req'[r], opening.slots, unchecked)
  BY <1>1 DEF Validated, Shown, Begins, Lists
<1> QED  BY <1>2, QuietPeople

LEMMA CallPeople ==
  ASSUME Inv, Inv', PeopleInv, NEW r \in Requests, Call(r)
  PROVE  PeopleInv'
<1>1. UNCHANGED <<opening, list, cached, unchecked>>
  BY DEF Call, Book, Edit, CheckIn, Cancel, Drop
<1>2. ASSUME NEW size \in Sizes, Book(r, size)  PROVE PeopleInv'
  BY <1>1, <1>2, BookFields, BeginsPeople
<1>3. ASSUME NEW size \in Sizes, NEW c, Edit(r, c, size)  PROVE PeopleInv'
  BY <1>1, <1>3, EditFields, BeginsPeople
<1>4. ASSUME NEW c, CheckIn(r, c)  PROVE PeopleInv'
  BY <1>1, <1>4, CheckInFields, BeginsPeople
<1>5. ASSUME NEW c, Cancel(r, c)  PROVE PeopleInv'
  BY <1>1, <1>5, CancelFields, BeginsPeople
<1>6. ASSUME NEW b, Drop(r, b)  PROVE PeopleInv'
  BY <1>1, <1>6, DropFields, BeginsPeople
<1> QED  BY <1>2, <1>3, <1>4, <1>5, <1>6 DEF Call

LEMMA LoadPeople ==
  ASSUME Inv, PeopleInv, NEW r \in Requests, Load(r)
  PROVE  PeopleInv'
<1> DEFINE copy == IF Hit(r) THEN cached ELSE list
           at == IF Hit(r) \/ req[r].saved THEN req[r].then ELSE "fill"
<1>1. /\ Others(r)
      /\ Position(req'[r], at, req[r].then, req[r].op, req[r].contact,
                  req[r].size)
      /\ Lists(req'[r], req[r].refs, copy, req[r].own, req[r].added,
               req[r].gone, req[r].todo)
      /\ req'[r].overtaken = req[r].overtaken
  BY LoadFields
<1>2. /\ UNCHANGED <<opening, list, cached, unchecked>>
      /\ req[r].at = "load" /\ Course(req[r]) /\ Count(req[r])
  BY DEF Load, At, Inv
<1>3. ~opening.asParties => Shown(copy, opening.slots, unchecked)
  BY DEF PeopleInv, Hit
<1>4. req[r].then \in {"validate", "sync", "remove"}
  BY Current DEF RequestOf
<1>5. at = "sync" => req[r].op = "checkIn"
  BY <1>2, <1>4 DEF Course, Loading
<1>6. at # "save"  BY <1>4
<1> HIDE DEF copy, at
<1>7. ~Adds(req'[r])
  <2>1. Lacking(req'[r]) = Lacking(req[r])
    BY <1>1, SameLacking DEF Position, Lists
  <2>2. at = "sync" => Lacking(req[r]) = 0
    BY <1>2, <1>5, LackingOf DEF Count
  <2> QED  BY <1>1, <1>6, <2>1, <2>2 DEF Adds, Position
<1>8. ASSUME ~opening.asParties
      PROVE  Validated(req'[r], opening.slots, unchecked)
  <2>1. Validated(req[r], opening.slots, unchecked)
    BY <1>8 DEF PeopleInv
  <2>2. Excused(req'[r]) = Excused(req[r])  BY <1>1 DEF Excused, Lists
  <2> QED  BY <1>1, <1>3, <1>7, <1>8, <2>1, <2>2 DEF Validated, Lists
<1> QED  BY <1>1, <1>2, <1>8, QuietPeople

\* The steps that leave the lists of r alone, but perhaps what it is about to
\* delete, and do not bring it to add anything that it was not about to add.
LEMMA KeepsPeople ==
  ASSUME Inv, PeopleInv, NEW r \in Requests, Others(r),
         opening' = opening, list' = list, unchecked' = unchecked,
         ~opening.asParties => Shown(cached', opening.slots, unchecked),
         req'[r].refs = req[r].refs, req'[r].size = req[r].size,
         req'[r].copy = req[r].copy, req'[r].own = req[r].own,
         req'[r].added = req[r].added,
         req'[r].overtaken = req[r].overtaken,
         Adds(req'[r]) => Adds(req[r])
  PROVE  PeopleInv'
<1>1. Lacking(req'[r]) = Lacking(req[r])  BY SameLacking
<1>2. Excused(req'[r]) = Excused(req[r])  BY DEF Excused
<1>3. ASSUME ~opening.asParties
      PROVE  Validated(req'[r], opening.slots, unchecked')
  <2>1. Validated(req[r], opening.slots, unchecked)
    BY <1>3 DEF PeopleInv
  <2> QED  BY <1>1, <1>2, <2>1 DEF Validated
<1>4. ~opening.asParties => /\ Shown(list', opening.slots, unchecked')
                            /\ Shown(cached', opening.slots, unchecked')
  BY DEF PeopleInv
<1> QED  BY <1>3, <1>4, PeopleStep

\* Who goes on to save its contact has too few bookings for it only if it was
\* about to add some.
LEMMA NothingNewLacks ==
  ASSUME Inv, NEW r \in Requests, NEW at, Moves(r, at),
         \/ At(r, "fill") /\ at = req[r].then
         \/ At(r, "save")
         \/ At(r, "sync")
         \/ At(r, "remove")
         \/ at \notin {"save", "sync"}
  PROVE  Adds(req'[r]) => Adds(req[r])
<1> SUFFICES ASSUME at \in {"save", "sync"}, Lacking(req[r]) > 0
             PROVE  req[r].at \in {"save", "sync"}
  BY SameLacking DEF Adds, Moves, Position, Lists
<1>1. Course(req[r]) /\ Count(req[r])  BY DEF Inv
<1>2. /\ req[r].then \in {"validate", "sync", "remove"}
      /\ req[r].op \in {"book", "edit", "checkIn", "cancel", "drop"}
      /\ req[r].size \in Nat /\ req[r].refs \in SUBSET (1..bookings)
      /\ req[r].todo \in SUBSET (1..bookings) /\ bookings \in Nat
  BY Current DEF RequestOf
<1>3. ~(Cardinality(req[r].refs) >= req[r].size)  BY LackingOf
<1>4. CASE At(r, "fill") /\ at = req[r].then
  <2>1. req[r].op = "checkIn"  BY <1>1, <1>2, <1>4 DEF At, Course, Loading
  <2> QED  BY <1>1, <1>3, <2>1 DEF Count
<1>5. CASE At(r, "remove")
  <2>1. req[r].op \in {"edit", "checkIn"}
    <3>1. req[r].op \in {"cancel", "drop"} => Lacking(req[r]) = 0
      BY <1>1, NothingLacks DEF Count
    <3>2. req[r].op # "book"  BY <1>1, <1>5 DEF At, Course
    <3> QED  BY <1>2, <3>1, <3>2
  <2>2. Cardinality(req[r].refs) >= req[r].size + Cardinality(req[r].todo)
    BY <1>1, <1>5, <2>1 DEF At, Count
  <2>3. Cardinality(req[r].todo) \in Nat /\ Cardinality(req[r].refs) \in Nat
    BY <1>2, FiniteIds
  <2> QED  BY <1>2, <1>3, <2>2, <2>3
<1> QED  BY <1>4, <1>5 DEF At

LEMMA MovePeople ==
  ASSUME Inv, PeopleInv, NEW r \in Requests,
         Fill(r) \/ SaveContact(r) \/ InSync(r) \/ Removed(r)
  PROVE  PeopleInv'
<1>1. opening' = opening /\ list' = list /\ unchecked' = unchecked
  BY DEF Fill, SaveContact, InSync, Removed
<1>2. ~opening.asParties => Shown(cached', opening.slots, unchecked)
  <2>1. Fill(r) => cached' = req[r].copy  BY DEF Fill
  <2>2. SaveContact(r) \/ InSync(r) \/ Removed(r) => cached' = cached
    BY DEF SaveContact, InSync, Removed
  <2> QED  BY <2>1, <2>2 DEF PeopleInv, Validated
<1>3. ASSUME NEW at, Others(r), Moves(r, at), Adds(req'[r]) => Adds(req[r])
      PROVE  PeopleInv'
  BY <1>1, <1>2, <1>3, KeepsPeople DEF Moves, Position, Lists
<1>4. CASE Fill(r)
  <2>1. At(r, "fill") /\ Others(r) /\ Moves(r, req[r].then)
    BY <1>4, FillFields DEF Fill
  <2> QED  BY <1>3, <2>1, NothingNewLacks
<1>5. CASE SaveContact(r)
  <2>1. At(r, "save") /\ Others(r) /\ Moves(r, AfterSave(r))
    BY <1>5, SaveContactFields DEF SaveContact
  <2> QED  BY <1>3, <2>1, NothingNewLacks
<1>6. CASE InSync(r)
  <2>1. At(r, "sync") /\ Others(r) /\ Moves(r, "commit")
    BY <1>6, InSyncFields DEF InSync
  <2> QED  BY <1>3, <2>1, NothingNewLacks
<1>7. CASE Removed(r)
  <2> DEFINE at == IF req[r].op \in {"edit", "checkIn"} THEN "sync"
                   ELSE "commit"
  <2>1. At(r, "remove") /\ Others(r) /\ Moves(r, at)
    BY <1>7, RemovedFields DEF Removed
  <2> HIDE DEF at
  <2> QED  BY <1>3, <2>1, NothingNewLacks
<1> QED  BY <1>4, <1>5, <1>6, <1>7

LEMMA CreateContactPeople ==
  ASSUME Inv, PeopleInv, NEW r \in Requests, CreateContact(r)
  PROVE  PeopleInv'
<1>1. contacts + 1 <= MaxContacts
  <2>1. contacts + 1 \in 1..MaxContacts /\ MaxContacts \in Nat
    BY CreateContactInv, BookableAssumption
  <2> QED  BY <2>1
<1>2. /\ Others(r)
      /\ Position(req'[r], "sync", req[r].then, req[r].op, contacts + 1,
                  req[r].size)
      /\ Lists(req'[r], req[r].refs, req[r].copy, req[r].own, req[r].added,
               req[r].gone, req[r].todo)
      /\ req'[r].overtaken = req[r].overtaken
  BY <1>1, CreateContactFields
<1>3. /\ UNCHANGED <<opening, list, cached, unchecked>> /\ req[r].at = "save"
  BY DEF CreateContact, At
<1>4. Lacking(req'[r]) = Lacking(req[r])
  BY <1>2, SameLacking DEF Position, Lists
<1>5. Adds(req'[r]) => Adds(req[r])  BY <1>3, <1>4 DEF Adds
<1>6. ~opening.asParties => Shown(cached', opening.slots, unchecked)
  BY <1>3 DEF PeopleInv
<1> QED  BY <1>2, <1>3, <1>5, <1>6, KeepsPeople DEF Position, Lists

LEMMA ShrinkPeople ==
  ASSUME Inv, PeopleInv, NEW r \in Requests, Shrink(r)
  PROVE  PeopleInv'
<1>1. UNCHANGED <<opening, list, cached, unchecked>>  BY DEF Shrink
<1>2. Adds(req'[r]) => Adds(req[r])  BY ShrinkFields DEF Adds, Position
<1>3. ~opening.asParties => Shown(cached', opening.slots, unchecked)
  BY <1>1 DEF PeopleInv
<1> QED  BY <1>1, <1>2, <1>3, ShrinkFields, KeepsPeople DEF Position, Lists

LEMMA SkipPeople ==
  ASSUME Inv, PeopleInv, NEW r \in Requests, Skip(r)
  PROVE  PeopleInv'
<1>1. UNCHANGED <<opening, list, cached, unchecked>>  BY DEF Skip
<1>2. Adds(req'[r]) => Adds(req[r])  BY SkipFields DEF Adds, Position
<1>3. ~opening.asParties => Shown(cached', opening.slots, unchecked)
  BY <1>1 DEF PeopleInv
<1> QED  BY <1>1, <1>2, <1>3, SkipFields, KeepsPeople DEF Position, Lists

\* Who passes validation has slots for what it is about to add, if its contact
\* had no more people in the table than it had bookings when it was loaded.
LEMMA VacantForAll ==
  ASSUME Inv, NEW r \in Requests, At(r, "validate"), Vacant(r),
         ~opening.asParties, Lacking(req[r]) > 0,
         ~(OriginalSize(r) > Cardinality(req[r].refs))
  PROVE  Cardinality(req[r].copy) + Lacking(req[r]) <= opening.slots
<1> DEFINE o == OriginalSize(r)  n == req[r].size
           refs == Cardinality(req[r].refs)  copy == Cardinality(req[r].copy)
           slots == opening.slots  k == Lacking(req[r])
<1>1. /\ req[r].size \in Nat /\ req[r].refs \in SUBSET (1..bookings)
      /\ req[r].copy \in SUBSET (1..bookings) /\ bookings \in Nat
  BY Current DEF RequestOf, Inv, Course, At
<1>2. /\ refs \in Nat /\ copy \in Nat /\ n \in Nat  BY <1>1, FiniteIds
<1>3. o \in Nat  BY DEF OriginalSize, Inv, Tables
<1>4. slots \in Nat  BY SlotsAreNat
<1>5. k \in Nat /\ k > 0 /\ k = n - refs  BY LackingOf
<1>6. ~(o > refs)  OBVIOUS
<1>7. \/ o # 0 /\ n = o
      \/ n <= slots - copy + o
  BY DEF Vacant, SlotsAvailable
<1> HIDE DEF o, n, refs, copy, slots, k
<1>8. copy + k <= slots  BY <1>2, <1>3, <1>4, <1>5, <1>6, <1>7
<1> QED  BY <1>8 DEF copy, slots, k

LEMMA ValidatePeople ==
  ASSUME Inv, PeopleInv, NEW r \in Requests, Validate(r)
  PROVE  PeopleInv'
<1>1. /\ UNCHANGED <<opening, list, cached, unchecked>>
      /\ At(r, "validate") /\ Others(r)
  BY ValidateFields DEF Validate
<1>2. CASE req'[r] = Idle  BY <1>1, <1>2, IdleIsValidated, QuietPeople
<1>3. CASE /\ Vacant(r)
           /\ Position(req'[r], "save", req[r].then, req[r].op,
                       req[r].contact, req[r].size)
           /\ Lists(req'[r], req[r].refs, req[r].copy, req[r].own,
                    req[r].added, req[r].gone, req[r].todo)
           /\ req'[r].overtaken = (OriginalSize(r) > Cardinality(req[r].refs))
  <2> SUFFICES ASSUME ~opening.asParties
               PROVE  Validated(req'[r], opening.slots, unchecked)
    BY <1>1, QuietPeople
  <2>1. Lacking(req'[r]) = Lacking(req[r])
    BY <1>3, SameLacking DEF Position, Lists
  <2>2. Validated(req[r], opening.slots, unchecked)  BY DEF PeopleInv
  <2>3. req[r].added = {} /\ Excused(req'[r]) = {} /\ Excused(req[r]) = {}
    <3>1. req[r].added = {}  BY <1>1 DEF Inv, Course, At
    <3> QED  BY <1>3, <3>1 DEF Excused, Lists
  <2>4. /\ Shown(req'[r].copy, opening.slots, unchecked)
        /\ Shown(req'[r].own, opening.slots, unchecked \cup Excused(req'[r]))
    BY <1>3, <2>2, <2>3 DEF Validated, Lists
  <2>5. Adds(req'[r]) /\ ~req'[r].overtaken
          => Cardinality(req'[r].copy) + Lacking(req'[r]) <= opening.slots
    BY <1>1, <1>3, <2>1, VacantForAll DEF Adds, Lists
  <2> QED  BY <2>4, <2>5 DEF Validated
<1> QED  BY <1>2, <1>3, ValidateFields

\* The list to start from is within the slots as well.
LEMMA BaseIsShown ==
  ASSUME Inv, PeopleInv, NEW r \in Requests, ~opening.asParties,
         req[r].copy # NoList
  PROVE  /\ Base(r) \in SUBSET (1..bookings)
         /\ Cardinality(Base(r) \ (unchecked \cup Excused(req[r])))
              <= opening.slots
<1>1. /\ req[r].copy \in SUBSET (1..bookings)
      /\ req[r].own \in {NoList} \cup SUBSET (1..bookings)
      /\ bookings \in Nat /\ opening.slots \in Nat
  BY Current, SlotsAreNat DEF RequestOf
<1>2. Validated(req[r], opening.slots, unchecked)  BY DEF PeopleInv
<1>3. CASE req[r].own # NoList
  BY <1>1, <1>2, <1>3 DEF Base, Validated, Shown
<1>4. CASE req[r].own = NoList
  <2>1. Base(r) = req[r].copy  BY <1>4 DEF Base
  <2>2. Cardinality(req[r].copy \ unchecked) <= opening.slots
    BY <1>2 DEF Validated, Shown
  <2> DEFINE A == req[r].copy \ (unchecked \cup Excused(req[r]))
             B == req[r].copy \ unchecked
  <2>3. B \in SUBSET (1..bookings) /\ A \in SUBSET B
    BY <1>1, <1>4
  <2>4. Cardinality(B) <= opening.slots  BY <2>2
  <2> HIDE DEF A, B
  <2>5. Cardinality(A) <= opening.slots  BY <1>1, <2>3, <2>4, FewerAre
  <2> QED  BY <1>1, <2>1, <2>5 DEF A
<1> QED  BY <1>3, <1>4

LEMMA RemovePeople ==
  ASSUME Inv, PeopleInv, NEW r \in Requests, Remove(r)
  PROVE  PeopleInv'
<1>1. /\ UNCHANGED <<opening, list, cached, unchecked>>
      /\ At(r, "remove") /\ req[r].copy # NoList
  BY DEF Remove, Inv, Course, At
<1>2. PICK b \in req[r].todo :
        \/ Deletes(r, b, "remove", req[r].then, req[r].own)
        \/ Deletes(r, b, "remove", "remove", req[r].own)
        \/ Deletes(r, b, "load", "remove", req[r].own)
        \/ Deletes(r, b, "remove", req[r].then, Unlisted(r, b))
  BY RemoveFields
<1>3. /\ Others(r) /\ req'[r].copy = req[r].copy
      /\ req'[r].added = req[r].added /\ req'[r].overtaken = req[r].overtaken
      /\ req'[r].own = req[r].own \/ req'[r].own = Unlisted(r, b)
      /\ req'[r].at \in {"remove", "load"}
  BY <1>2 DEF Deletes, Position, Lists
<1> SUFFICES ASSUME ~opening.asParties
             PROVE  Validated(req'[r], opening.slots, unchecked)
  BY <1>1, <1>3, QuietPeople
<1>4. Excused(req'[r]) = Excused(req[r])  BY <1>3 DEF Excused
<1>5. Validated(req[r], opening.slots, unchecked)  BY DEF PeopleInv
<1>6. Shown(Unlisted(r, b), opening.slots, unchecked \cup Excused(req[r]))
  <2>1. /\ Base(r) \in SUBSET (1..bookings)
        /\ Cardinality(Base(r) \ (unchecked \cup Excused(req[r])))
             <= opening.slots
    BY <1>1, BaseIsShown
  <2>2. Unlisted(r, b) = Base(r) \ {b}  BY DEF Unlisted
  <2> DEFINE U == unchecked \cup Excused(req[r])
             A == (Base(r) \ {b}) \ U  B == Base(r) \ U
  <2>3. B \in SUBSET (1..bookings) /\ A \in SUBSET B
    BY <2>1
  <2>4. Cardinality(B) <= opening.slots  BY <2>1
  <2>5. bookings \in Nat /\ opening.slots \in Nat
    BY Current, SlotsAreNat
  <2> HIDE DEF A, B
  <2>6. Cardinality(A) <= opening.slots  BY <2>3, <2>4, <2>5, FewerAre
  <2> QED  BY <2>2, <2>6 DEF Shown, A
<1>7. ~Adds(req'[r])  BY <1>3 DEF Adds
<1> QED  BY <1>3, <1>4, <1>5, <1>6, <1>7 DEF Validated

LEMMA AddPeople ==
  ASSUME Inv, PeopleInv, NEW r \in Requests, Add(r)
  PROVE  PeopleInv'
<1> DEFINE k == Lacking(req[r])  new == bookings + 1 .. bookings + k
           own == Base(r) \cup new
<1>1. /\ UNCHANGED <<opening, list, cached, unchecked>>
      /\ req[r].at = "sync" /\ k > 0 /\ req[r].copy # NoList
      /\ req[r].added = {} /\ Count(req[r])
  BY DEF Add, At, Inv, Course
<1>2. bookings + k <= MaxBookings /\ k \in Nat
  BY AddInv, LackingOf
<1>3. /\ Others(r)
      /\ Position(req'[r], "commit", req[r].then, req[r].op, req[r].contact,
                  req[r].size)
      /\ Lists(req'[r], req[r].refs \cup new, req[r].copy, own, new,
               req[r].gone, req[r].todo)
      /\ req'[r].overtaken = req[r].overtaken
  BY <1>2, AddFields
<1> SUFFICES ASSUME ~opening.asParties
             PROVE  Validated(req'[r], opening.slots, unchecked)
  BY <1>1, <1>3, QuietPeople
<1>4. Validated(req[r], opening.slots, unchecked)  BY DEF PeopleInv
<1>5. /\ req[r].copy \in SUBSET (1..bookings) /\ bookings \in Nat
      /\ opening.slots \in Nat
  BY <1>1, Current, SlotsAreNat DEF RequestOf
<1>6. req[r].own = NoList /\ Base(r) = req[r].copy
  BY <1>1 DEF Count, Base
<1>7. Cardinality(own \ (unchecked \cup Excused(req'[r]))) <= opening.slots
  <2>1. CASE req[r].overtaken
    <3>1. Excused(req'[r]) = new  BY <1>3, <2>1 DEF Excused, Lists
    <3>2. Cardinality(req[r].copy \ unchecked) <= opening.slots
      BY <1>1, <1>4 DEF Validated, Shown
    <3>3. own \ (unchecked \cup new) \subseteq req[r].copy \ unchecked
      BY <1>6
    <3> DEFINE A == own \ (unchecked \cup new)  B == req[r].copy \ unchecked
    <3>5. /\ B \in SUBSET (1..bookings) /\ A \in SUBSET B
          /\ Cardinality(B) <= opening.slots
      BY <1>5, <3>2, <3>3
    <3> HIDE DEF A, B
    <3>6. Cardinality(A) <= opening.slots  BY <1>5, <3>5, FewerAre
    <3> HIDE DEF own, new
    <3> QED  BY <3>1, <3>6 DEF A
  <2>2. CASE ~req[r].overtaken
    <3>1. Cardinality(req[r].copy) + k <= opening.slots
      BY <1>1, <1>4, <2>2 DEF Validated, Adds
    <3>2. IsFiniteSet(req[r].copy) /\ Cardinality(req[r].copy) \in Nat
      BY <1>5, FiniteIds
    <3>3. IsFiniteSet(new) /\ Cardinality(new) = k
      <4> DEFINE m == bookings + k
      <4>1. /\ bookings + 1 \in Int /\ m \in Int
            /\ (IF bookings + 1 > m THEN 0 ELSE m - (bookings + 1) + 1) = k
        <5> HIDE DEF k
        <5> QED  BY <1>2, <1>5
      <4> HIDE DEF m
      <4>2. /\ IsFiniteSet(bookings + 1 .. m)
            /\ Cardinality(bookings + 1 .. m) = k
        BY <4>1, FS_Interval
      <4> QED  BY <4>2 DEF m
    <3> DEFINE old == req[r].copy
    <3>4. own = old \cup new  BY <1>6
    <3>5. new \subseteq 1 .. bookings + k /\ bookings + k \in Nat
          /\ old \subseteq 1 .. bookings + k
      <4> HIDE DEF k
      <4> QED  BY <1>2, <1>5
    <3> HIDE DEF old, new, own, k
    <3>6. /\ IsFiniteSet(old \cup new)
          /\ Cardinality(old \cup new)
               = Cardinality(old) + Cardinality(new) - Cardinality(old \cap new)
      BY <3>2, <3>3, FS_Union DEF old
    <3>7. Cardinality(old \cap new) \in Nat /\ Cardinality(old \cup new) \in Nat
      <4>1. old \cap new \in SUBSET (1 .. bookings + k)
            /\ old \cup new \in SUBSET (1 .. bookings + k)
        BY <3>5
      <4> QED  BY <3>5, <4>1, FiniteIds
    <3>8. Cardinality(old \cup new) <= opening.slots
      <4>1. Cardinality(old) + k <= opening.slots /\ Cardinality(old) \in Nat
        BY <3>1, <3>2 DEF old
      <4> QED  BY <1>2, <1>5, <3>3, <3>6, <3>7, <4>1
    <3> DEFINE A == own \ (unchecked \cup Excused(req'[r]))
    <3>9. own \in SUBSET (1 .. bookings + k) /\ A \in SUBSET own
          /\ Cardinality(own) <= opening.slots
      BY <3>4, <3>5, <3>8
    <3> HIDE DEF A
    <3>10. Cardinality(A) <= opening.slots
      BY <1>5, <3>5, <3>9, FewerAre
    <3> QED  BY <3>10 DEF A
  <2> QED  BY <2>1, <2>2
<1>8. Shown(req'[r].copy, opening.slots, unchecked)
  BY <1>3, <1>4 DEF Validated, Lists
<1>9. Shown(req'[r].own, opening.slots, unchecked \cup Excused(req'[r]))
  BY <1>3, <1>7 DEF Lists, Shown
<1>10. ~Adds(req'[r])  BY <1>3 DEF Adds, Position
<1> QED  BY <1>8, <1>9, <1>10 DEF Validated

LEMMA CommitPeople ==
  ASSUME Inv, PeopleInv, NEW r \in Requests, Commit(r)
  PROVE  PeopleInv'
<1>1. /\ Return(r) /\ contacts' = contacts /\ bookings' = bookings
      /\ opening' = opening
      /\ list' = IF req[r].own = NoList THEN list ELSE req[r].own
      /\ cached' = IF req[r].saved THEN NoList ELSE cached
      /\ unchecked' = unchecked \cup Excused(req[r])
  BY DEF Commit, Excused
<1>2. Others(r) /\ req'[r] = Idle  BY <1>1, ReturnFields
<1>3. ASSUME ~opening.asParties
      PROVE  /\ Shown(list', opening.slots, unchecked')
             /\ Shown(cached', opening.slots, unchecked')
  <2>1. /\ list \in {NoList} \cup SUBSET (1..bookings)
        /\ cached \in {NoList} \cup SUBSET (1..bookings)
        /\ bookings \in Nat /\ opening.slots \in Nat
    BY Current, SlotsAreNat DEF Inv, Tables
  <2>2. /\ Shown(list, opening.slots, unchecked)
        /\ Shown(cached, opening.slots, unchecked)
        /\ Shown(req[r].own, opening.slots, unchecked')
    BY <1>1, <1>3 DEF PeopleInv, Validated
  <2>3. unchecked \subseteq unchecked'  BY <1>1
  <2>4. /\ Shown(list, opening.slots, unchecked')
        /\ Shown(cached, opening.slots, unchecked')
    BY <2>1, <2>2, <2>3, ShownOnward
  <2>5. Shown(NoList, opening.slots, unchecked')  BY DEF Shown
  <2> QED  BY <1>1, <2>2, <2>4, <2>5
<1>4. Validated(req'[r], opening.slots, unchecked')
  BY <1>2, IdleIsValidated
<1>5. unchecked \subseteq unchecked'  BY <1>1
<1> QED  BY <1>1, <1>2, <1>3, <1>4, <1>5, PeopleStep

LEMMA NextPeople ==
  ASSUME Inv, PeopleInv, [Next]_vars
  PROVE  PeopleInv'
<1>1. CASE UNCHANGED vars  BY <1>1 DEF vars, PeopleInv
<1>2. ASSUME NEW r \in Requests, Call(r)  PROVE PeopleInv'
  <2>1. Inv'  BY <1>2, NextInv DEF Next
  <2> QED  BY <1>2, <2>1, CallPeople
<1>3. ASSUME NEW r \in Requests, Step(r)  PROVE PeopleInv'
  <2>1. CASE Load(r)  BY <2>1, LoadPeople
  <2>2. CASE Fill(r)  BY <2>2, MovePeople
  <2>3. CASE Validate(r)  BY <2>3, ValidatePeople
  <2>4. CASE Refuse(r)  BY <2>4, ReturnPeople DEF Refuse
  <2>5. CASE CreateContact(r)  BY <2>5, CreateContactPeople
  <2>6. CASE SaveContact(r)  BY <2>6, MovePeople
  <2>7. CASE Gone(r)  BY <2>7, ReturnPeople DEF Gone
  <2>8. CASE Add(r)  BY <2>8, AddPeople
  <2>9. CASE Shrink(r)  BY <2>9, ShrinkPeople
  <2>10. CASE InSync(r)  BY <2>10, MovePeople
  <2>11. CASE Skip(r)  BY <2>11, SkipPeople
  <2>12. CASE Remove(r)  BY <2>12, RemovePeople
  <2>13. CASE Removed(r)  BY <2>13, MovePeople
  <2>14. CASE Commit(r)  BY <2>14, CommitPeople
  <2> QED  BY <1>3, <2>1, <2>2, <2>3, <2>4, <2>5, <2>6, <2>7, <2>8, <2>9,
              <2>10, <2>11, <2>12, <2>13, <2>14 DEF Step
<1>4. ASSUME NEW r \in Requests, Fail(r)  PROVE PeopleInv'
  BY <1>4, ReturnPeople DEF Fail
<1> QED  BY <1>1, <1>2, <1>3, <1>4 DEF Next

LEMMA InitPeople == Init => PeopleInv
<1> SUFFICES ASSUME Init, ~opening.asParties
             PROVE  /\ Shown(list, opening.slots, unchecked)
                    /\ Shown(cached, opening.slots, unchecked)
                    /\ \A r \in Requests :
                         Validated(req[r], opening.slots, unchecked)
  BY DEF PeopleInv
<1>1. list = {} /\ cached = NoList /\ \A r \in Requests : req[r] = Idle
  BY DEF Init
<1>2. opening.slots \in Nat  BY InitInv, SlotsAreNat
<1>3. Cardinality(list \ unchecked) = 0
  <2>1. list \ unchecked = {}  BY <1>1
  <2> QED  BY <2>1, FS_EmptySet
<1>4. Shown(list, opening.slots, unchecked)  BY <1>2, <1>3 DEF Shown
<1> QED  BY <1>1, <1>4, IdleIsValidated DEF Shown

LEMMA PeopleInvariance == Spec => [](Inv /\ PeopleInv)
<1> QED  BY InitInv, NextInv, InitPeople, NextPeople, PTL DEF Spec

LEMMA PeopleAreShown ==
  ASSUME Inv, PeopleInv, ~opening.asParties
  PROVE  Booked(list \ unchecked) <= opening.slots
<1>1. list \in SUBSET (1..MaxBookings)
  BY BookableAssumption DEF Inv, Tables
<1>2. list # NoList  BY <1>1, BookableAssumption
<1>3. Cardinality(list \ unchecked) <= opening.slots
  BY <1>2 DEF PeopleInv, Shown
<1>4. opening.slots \in Nat /\ Cardinality(list \ unchecked) \in Nat
  <2>1. list \ unchecked \in SUBSET (1..MaxBookings)  BY <1>1
  <2> QED  BY <2>1, FiniteIds, SlotsAreNat, BookableAssumption
<1>5. Booked(list \ unchecked) = Cardinality(list \ unchecked)
  BY <1>4 DEF Booked, SlotsAvailable
<1> QED  BY <1>3, <1>5

\* However many requests race, the calendar never shows more people than there
\* are slots, but for those that an overtaken edit has added: validation is
\* stale by the time the list is written, but so is the list it is written to.
THEOREM ShownIsWithinSlots == Spec => []ShownWithinSlots
<1>1. Inv /\ PeopleInv => ShownWithinSlots
  BY PeopleAreShown DEF ShownWithinSlots
<1> QED  BY <1>1, PeopleInvariance, PTL


-----------------------------------------------------------------------------
(* One request: what it reads stays true until it has written.               *)

LEMMA AloneIdle ==
  ASSUME Inv
  PROVE  Alone(Idle) /\ HasSlot(Idle)
<1>1. NoContact \notin DOMAIN contact
  BY BookableAssumption DEF Inv, Tables
<1>2. ~Adds(Idle)  BY DEF Adds, Idle
<1> QED  BY <1>1, <1>2 DEF Alone, HasSlot, Idle

LEMMA InitOne == Init => OneInv
<1> SUFFICES ASSUME Init  PROVE OneInv  OBVIOUS
<1>1. /\ DOMAIN booking = {} /\ list = {} /\ cached = NoList /\ unchecked = {}
      /\ DOMAIN contact = {} /\ \A r \in Requests : req[r] = Idle
  BY DEF Init
<1>2. Settled = {}  BY <1>1 DEF Settled
<1>3. Cardinality(Settled) = 0 /\ opening.slots \in Nat
  BY <1>2, InitInv, SlotsAreNat, FS_EmptySet
<1>4. Alone(Idle) /\ HasSlot(Idle)  BY InitInv, AloneIdle
<1> QED  BY <1>1, <1>3, <1>4 DEF OneInv, OwnedByContact, Belonging

\* The case of a step that leaves the tables as they are.
LEMMA QuietOne ==
  ASSUME NEW r \in Requests, Requests = {r}, OneInv, cached' \in {NoList, list},
         UNCHANGED <<opening, contact, booking, list, unchecked>>,
         Alone(req'[r]), opening.asParties => HasSlot(req'[r])
  PROVE  OneInv'
<1>1. OwnedByContact' /\ Belonging'
  BY DEF OneInv, OwnedByContact, Belonging
<1>2. Alone(req[r])'
  BY DEF Alone
<1>3. \A s \in Requests : s = r
  OBVIOUS
<1>4. Owners' = Owners /\ Settled' = Settled
  BY DEF Owners, Settled, OwnerOf, Damaged
<1>5. opening.asParties => HasSlot(req[r])'
  BY <1>4 DEF HasSlot, Adds, Lacking
<1> QED  BY <1>1, <1>2, <1>3, <1>4, <1>5 DEF OneInv

LEMMA ReturnOne ==
  ASSUME NEW r \in Requests, Requests = {r}, Inv, OneInv, Return(r),
         UNCHANGED <<opening, contact, booking, list, cached, contacts,
                     bookings, unchecked>>
  PROVE  OneInv'
<1>1. req'[r] = Idle  BY ReturnFields
<1> QED  BY <1>1, AloneIdle, QuietOne DEF OneInv

\* A call begins, with what is in the tables.
LEMMA CallOne ==
  ASSUME NEW r \in Requests, Requests = {r}, Inv, Inv', OneInv, Call(r)
  PROVE  OneInv'
<1>1. /\ UNCHANGED <<opening, contact, booking, list, cached, unchecked>>
      /\ cached' \in {NoList, list}
  BY DEF Call, Book, Edit, CheckIn, Cancel, Drop, OneInv
<1>2. ASSUME NEW at, NEW then, NEW op, NEW c, NEW n, NEW refs, NEW todo,
             at = "load" \/ op = "checkIn",
             Begins(r, at, then, op, c, n, refs, todo),
             \/ op = "book" /\ refs = {} /\ c = NoContact
             \/ /\ op \in {"edit", "checkIn"} /\ c \in DOMAIN contact
                /\ refs = contact[c].refs
             \/ /\ op = "cancel" /\ c \in DOMAIN contact
                /\ todo = contact[c].refs
             \/ op = "drop" /\ todo \subseteq DOMAIN booking
      PROVE  OneInv'
  <2>1. ~Adds(req'[r])  BY <1>2, BeginsToAdd
  <2>2. HasSlot(req'[r])  BY <1>2, <2>1 DEF HasSlot, Begins, Lists
  <2>3. NoContact \notin DOMAIN contact
    BY BookableAssumption DEF Inv, Tables
  <2>4. Alone(req'[r])
    BY <1>2, <2>3 DEF Alone, Begins, Position, Lists
  <2> QED  BY <1>1, <2>2, <2>4, QuietOne
<1>3. ASSUME NEW size \in Sizes, Book(r, size)  PROVE OneInv'
  BY <1>2, <1>3, BookFields
<1>4. ASSUME NEW size \in Sizes, NEW c, Edit(r, c, size)  PROVE OneInv'
  <2>1. c \in DOMAIN contact  BY <1>4 DEF Edit
  <2> QED  BY <1>2, <1>4, <2>1, EditFields
<1>5. ASSUME NEW c, CheckIn(r, c)  PROVE OneInv'
  <2>1. c \in DOMAIN contact  BY <1>5 DEF CheckIn
  <2> QED  BY <1>2, <1>5, <2>1, CheckInFields
<1>6. ASSUME NEW c, Cancel(r, c)  PROVE OneInv'
  <2>1. c \in DOMAIN contact  BY <1>6 DEF Cancel
  <2> QED  BY <1>2, <1>6, <2>1, CancelFields
<1>7. ASSUME NEW b, Drop(r, b)  PROVE OneInv'
  <2>1. {b} \subseteq DOMAIN booking  BY <1>7 DEF Drop
  <2> QED  BY <1>2, <1>7, <2>1, DropFields
<1> QED  BY <1>3, <1>4, <1>5, <1>6, <1>7 DEF Call

\* What is loaded is the list, whether it comes from the cache or not.
LEMMA LoadOne ==
  ASSUME NEW r \in Requests, Requests = {r}, Inv, OneInv, Load(r)
  PROVE  OneInv'
<1> DEFINE copy == IF Hit(r) THEN cached ELSE list
           at == IF Hit(r) \/ req[r].saved THEN req[r].then ELSE "fill"
<1>1. /\ Position(req'[r], at, req[r].then, req[r].op, req[r].contact,
                  req[r].size)
      /\ Lists(req'[r], req[r].refs, copy, req[r].own, req[r].added,
               req[r].gone, req[r].todo)
      /\ req'[r].overtaken = req[r].overtaken
  BY LoadFields
<1>2. /\ UNCHANGED <<opening, contact, booking, list, cached, unchecked>>
      /\ req[r].at = "load" /\ Course(req[r]) /\ Count(req[r])
  BY DEF Load, At, Inv
<1>3. copy = list  BY DEF OneInv, Hit
<1>4. at \in {"fill", "validate", "sync", "remove"}
  BY Current DEF RequestOf
<1>5. at = "sync" => req[r].op = "checkIn"
  BY <1>2 DEF Course, Loading
<1> HIDE DEF copy, at
<1>6. ~Adds(req'[r])
  <2>1. Lacking(req'[r]) = Lacking(req[r])
    BY <1>1, SameLacking DEF Position, Lists
  <2>2. at = "sync" => Lacking(req[r]) = 0
    BY <1>2, <1>5, LackingOf DEF Count
  <2> QED  BY <1>1, <1>4, <2>1, <2>2 DEF Adds, Position
<1>7. req[r].added = {}  BY <1>2 DEF Course
<1>8. HasSlot(req'[r])  BY <1>1, <1>6, <1>7 DEF HasSlot, Lists
<1>9. Alone(req[r])  BY DEF OneInv
<1>10. Alone(req'[r])
  BY <1>1, <1>3, <1>9 DEF Alone, Position, Lists
<1> QED  BY <1>2, <1>8, <1>10, QuietOne DEF OneInv

LEMMA AloneMoves ==
  ASSUME NEW r \in Requests, OneInv, NEW at, Moves(r, at)
  PROVE  Alone(req'[r])
<1>1. Alone(req[r])  BY DEF OneInv
<1> QED  BY <1>1 DEF Alone, Moves, Position, Lists

LEMMA MoveOne ==
  ASSUME NEW r \in Requests, Requests = {r}, Inv, OneInv,
         Fill(r) \/ SaveContact(r) \/ InSync(r) \/ Removed(r)
  PROVE  OneInv'
<1>1. UNCHANGED <<opening, contact, booking, list, unchecked>>
  BY DEF Fill, SaveContact, InSync, Removed
<1>2. cached' \in {NoList, list}
  <2>1. Alone(req[r])  BY DEF OneInv
  <2>2. Fill(r) => cached' = req[r].copy  BY DEF Fill
  <2>3. SaveContact(r) \/ InSync(r) \/ Removed(r) => cached' = cached
    BY DEF SaveContact, InSync, Removed
  <2> QED  BY <2>1, <2>2, <2>3 DEF OneInv, Alone
<1>3. req[r].added = {}
  <2>1. Course(req[r]) /\ ~At(r, "commit")
    BY DEF Inv, Fill, SaveContact, InSync, Removed, At
  <2> QED  BY <2>1 DEF Course, At
<1>4. ASSUME NEW at, Moves(r, at), Adds(req'[r]) => Adds(req[r])
      PROVE  OneInv'
  <2>1. Alone(req'[r])  BY <1>4, AloneMoves
  <2>2. opening.asParties => HasSlot(req'[r])
    <3>1. opening.asParties => HasSlot(req[r])  BY DEF OneInv
    <3> QED  BY <1>3, <1>4, <3>1 DEF HasSlot, Moves, Position, Lists
  <2> QED  BY <1>1, <1>2, <2>1, <2>2, QuietOne
<1>5. CASE Fill(r)
  <2>1. At(r, "fill") /\ Moves(r, req[r].then)
    BY <1>5, FillFields DEF Fill
  <2> QED  BY <1>4, <2>1, NothingNewLacks
<1>6. CASE SaveContact(r)
  <2>1. At(r, "save") /\ Moves(r, AfterSave(r))
    BY <1>6, SaveContactFields DEF SaveContact
  <2> QED  BY <1>4, <2>1, NothingNewLacks
<1>7. CASE InSync(r)
  <2>1. At(r, "sync") /\ Moves(r, "commit")
    BY <1>7, InSyncFields DEF InSync
  <2> QED  BY <1>4, <2>1, NothingNewLacks
<1>8. CASE Removed(r)
  <2> DEFINE at == IF req[r].op \in {"edit", "checkIn"} THEN "sync"
                   ELSE "commit"
  <2>1. At(r, "remove") /\ Moves(r, at)
    BY <1>8, RemovedFields DEF Removed
  <2> HIDE DEF at
  <2> QED  BY <1>4, <2>1, NothingNewLacks
<1> QED  BY <1>5, <1>6, <1>7, <1>8

\* A party that passes validation, and has bookings to add, finds a slot free
\* or has one.
LEMMA VacantForParty ==
  ASSUME NEW r \in Requests, Inv, OneInv, opening.asParties,
         At(r, "validate"), Vacant(r), Lacking(req[r]) > 0
  PROVE  \/ Cardinality(Owners) < opening.slots
         \/ req[r].op = "edit" /\ contact[req[r].contact].refs # {}
<1> DEFINE q == req[r]  o == OriginalSize(r)
<1>1. /\ q.copy = list /\ q.own = NoList /\ q.op \in {"book", "edit"}
      /\ q.op = "edit" => /\ q.contact \in DOMAIN contact
                          /\ q.refs = contact[q.contact].refs
  <2>1. Course(q) /\ Alone(q)  BY DEF Inv, OneInv
  <2> QED  BY <2>1 DEF Course, Alone, At, Loading
<1>2. ~(o # 0 /\ q.size = o)
  <2> SUFFICES ASSUME o # 0, q.size = o  PROVE FALSE  OBVIOUS
  <2>1. /\ q.op = "edit" /\ q.contact \in DOMAIN contact
        /\ q.size = contact[q.contact].size
    BY DEF OriginalSize
  <2>2. Cardinality(q.refs) = q.size
    BY <1>1, <2>1 DEF Inv, Tables
  <2>3. q.size \in Nat  BY Current DEF RequestOf
  <2>4. Lacking(req[r]) = 0  BY <2>2, <2>3, LackingOf
  <2> QED  BY <2>4
<1>3. /\ Cardinality(Owners) \in Nat /\ opening.slots \in Nat
      /\ SlotsAvailable(q.copy) = opening.slots - Cardinality(Owners)
  <2>1. Owners \in SUBSET (1..contacts)
    BY DEF Owners, OwnerOf, Inv, Tables, OneInv
  <2>2. {OwnerOf(b) : b \in q.copy} = Owners  BY <1>1 DEF Owners
  <2>3. SlotsAvailable(q.copy) = opening.slots - Cardinality(Owners)
    BY <2>2 DEF SlotsAvailable
  <2> QED  BY <2>1, <2>3, Current, FiniteIds, SlotsAreNat
<1>4. SlotsAvailable(q.copy) + o > 0  BY <1>2 DEF Vacant
<1>5. CASE o = 0
  BY <1>3, <1>4, <1>5
<1>6. CASE o # 0
  <2>1. q.op = "edit" /\ q.contact \in DOMAIN contact
        /\ contact[q.contact].size # 0
    BY <1>6 DEF OriginalSize
  <2>2. Cardinality(contact[q.contact].refs) # 0
    BY <2>1 DEF Inv, Tables
  <2>3. contact[q.contact].refs # {}  BY <2>2, FS_EmptySet
  <2> QED  BY <2>1, <2>3
<1> QED  BY <1>5, <1>6

LEMMA ValidateOne ==
  ASSUME NEW r \in Requests, Requests = {r}, Inv, OneInv, Validate(r)
  PROVE  OneInv'
<1>1. /\ UNCHANGED <<opening, contact, booking, list, cached, unchecked>>
      /\ At(r, "validate") /\ cached' \in {NoList, list}
  BY DEF Validate, OneInv
<1>2. CASE req'[r] = Idle  BY <1>1, <1>2, AloneIdle, QuietOne
<1>3. CASE /\ Vacant(r)
           /\ Position(req'[r], "save", req[r].then, req[r].op,
                       req[r].contact, req[r].size)
           /\ Lists(req'[r], req[r].refs, req[r].copy, req[r].own,
                    req[r].added, req[r].gone, req[r].todo)
           /\ req'[r].overtaken = (OriginalSize(r) > Cardinality(req[r].refs))
  <2>1. /\ req[r].own = NoList /\ req[r].added = {} /\ req[r].gone = {}
        /\ req[r].op \in {"book", "edit"}
    <3>1. Course(req[r]) /\ Alone(req[r])  BY DEF Inv, OneInv
    <3> QED  BY <1>1, <3>1 DEF Course, Alone, At, Loading
  <2>2. ~(OriginalSize(r) > Cardinality(req[r].refs))
    <3>1. Cardinality(req[r].refs) \in Nat
      <4>1. req[r].refs \in SUBSET (1..bookings) /\ bookings \in Nat
        BY Current DEF RequestOf
      <4> QED  BY <4>1, FiniteIds
    <3>2. Alone(req[r])  BY DEF OneInv
    <3>3. CASE req[r].op = "edit"
      <4>1. /\ req[r].contact \in DOMAIN contact
            /\ req[r].refs = contact[req[r].contact].refs
        BY <2>1, <3>2, <3>3 DEF Alone
      <4>2. Cardinality(req[r].refs) = contact[req[r].contact].size
        BY <4>1 DEF Inv, Tables
      <4> QED  BY <3>1, <3>3, <4>1, <4>2 DEF OriginalSize
    <3>4. CASE req[r].op = "book"  BY <3>1, <3>4 DEF OriginalSize
    <3> QED  BY <2>1, <3>3, <3>4
  <2>3. Alone(req'[r])
    <3>1. Alone(req[r])  BY DEF OneInv
    <3>2. ~req'[r].overtaken  BY <1>3, <2>2
    <3> QED  BY <1>3, <3>1, <3>2 DEF Alone, Position, Lists
  <2>4. opening.asParties => HasSlot(req'[r])
    <3> SUFFICES ASSUME opening.asParties, Lacking(req[r]) > 0
                 PROVE  \/ Cardinality(Owners) < opening.slots
                        \/ /\ req[r].op = "edit"
                           /\ contact[req[r].contact].refs # {}
      BY <1>3, <2>1, SameLacking DEF HasSlot, Adds, Position, Lists
    <3> QED  BY <1>1, <1>3, VacantForParty
  <2> QED  BY <1>1, <2>3, <2>4, QuietOne
<1> QED  BY <1>2, <1>3, ValidateFields

LEMMA CreateContactOne ==
  ASSUME NEW r \in Requests, Requests = {r}, Inv, OneInv, CreateContact(r)
  PROVE  OneInv'
<1>1. /\ Position(req'[r], "sync", req[r].then, req[r].op, contacts + 1,
                  req[r].size)
      /\ Lists(req'[r], req[r].refs, req[r].copy, req[r].own, req[r].added,
               req[r].gone, req[r].todo)
      /\ req'[r].overtaken = req[r].overtaken
  <2>1. contacts + 1 <= MaxContacts
    BY CreateContactInv, BookableAssumption
  <2> QED  BY <2>1, CreateContactFields
<1>2. /\ UNCHANGED <<opening, contact, booking, list, cached, unchecked>>
      /\ At(r, "save") /\ req[r].op = "book" /\ cached' \in {NoList, list}
  BY DEF CreateContact, OneInv
<1>3. contacts + 1 \notin DOMAIN contact
  BY Current DEF Inv, Tables
<1>4. Alone(req[r]) /\ (opening.asParties => HasSlot(req[r]))  BY DEF OneInv
<1>5. Alone(req'[r])
  BY <1>1, <1>2, <1>3, <1>4 DEF Alone, Position, Lists
<1>6. Adds(req'[r]) => Adds(req[r])
  BY <1>1, <1>2, SameLacking DEF Adds, Position, Lists, At
<1>7. opening.asParties => HasSlot(req'[r])
  BY <1>1, <1>2, <1>4, <1>6 DEF HasSlot, Position, Lists
<1> QED  BY <1>2, <1>5, <1>7, QuietOne

LEMMA ShrinkOne ==
  ASSUME NEW r \in Requests, Requests = {r}, Inv, OneInv, Shrink(r)
  PROVE  OneInv'
<1> DEFINE todo == First(req[r].refs, Excess(r))
<1>1. /\ Position(req'[r], "remove", req[r].then, req[r].op,
                  req[r].contact, req[r].size)
      /\ Lists(req'[r], req[r].refs, req[r].copy, req[r].own, req[r].added,
               req[r].gone, todo)
      /\ req'[r].overtaken = req[r].overtaken
  BY ShrinkFields
<1>2. /\ UNCHANGED <<opening, contact, booking, list, cached, unchecked>>
      /\ At(r, "sync") /\ cached' \in {NoList, list} /\ Course(req[r])
      /\ Alone(req[r])
  BY DEF Shrink, OneInv, Inv
<1>3. todo \subseteq req[r].refs  BY DEF First
<1> HIDE DEF todo
<1>4. req[r].added = {} /\ req[r].op \in {"book", "edit", "checkIn"}
  BY <1>2 DEF Course, At
<1>5. req[r].refs \cap req[r].gone = {}
  BY <1>2, <1>4 DEF Alone
<1>6. Alone(req'[r])
  BY <1>1, <1>2, <1>3, <1>4, <1>5 DEF Alone, Position, Lists
<1>7. HasSlot(req'[r])
  BY <1>1, <1>4 DEF HasSlot, Adds, Position, Lists
<1> QED  BY <1>2, <1>6, <1>7, QuietOne

LEMMA SkipOne ==
  ASSUME NEW r \in Requests, Requests = {r}, Inv, OneInv, Skip(r)
  PROVE  OneInv'
<1>1. PICK b \in req[r].todo :
        /\ ~Loadable(r, b)
        /\ Position(req'[r], "remove", req[r].then, req[r].op,
                    req[r].contact, req[r].size)
        /\ Lists(req'[r], req[r].refs, req[r].copy, req[r].own,
                 req[r].added, req[r].gone, req[r].todo \ {b})
        /\ req'[r].overtaken = req[r].overtaken
  BY SkipFields
<1>2. /\ UNCHANGED <<opening, contact, booking, list, cached, unchecked>>
      /\ At(r, "remove") /\ cached' \in {NoList, list} /\ Course(req[r])
      /\ Alone(req[r])
  BY DEF Skip, OneInv, Inv
<1>3. req[r].added = {} /\ b \notin DOMAIN booking
  BY <1>1, <1>2 DEF Course, At, Loadable
<1>4. Alone(req'[r])
  BY <1>1, <1>2, <1>3 DEF Alone, Position, Lists
<1>5. HasSlot(req'[r])
  BY <1>1, <1>3 DEF HasSlot, Adds, Position, Lists
<1> QED  BY <1>2, <1>4, <1>5, QuietOne

\* The booking is on the list, and the list is written without it.
LEMMA RemoveListed ==
  ASSUME NEW r \in Requests, Requests = {r}, Inv, OneInv, Remove(r)
  PROVE  OneInv'
<1>1. /\ UNCHANGED <<opening, contact, booking, list, cached, unchecked>>
      /\ At(r, "remove") /\ cached' \in {NoList, list} /\ Course(req[r])
      /\ Alone(req[r])
  BY DEF Remove, OneInv, Inv
<1>2. /\ req[r].added = {} /\ req[r].copy = list /\ list = DOMAIN booking
      /\ cached \in {NoList, list} /\ req[r].op # "book"
  BY <1>1 DEF Course, At, Alone, OneInv
<1>3. PICK b \in req[r].todo :
        /\ Loadable(r, b)
        /\ \/ Unlisted(r, b) = Original(r)
           \/ Deletes(r, b, "remove", req[r].then, Unlisted(r, b))
  BY RemoveFields
<1>4. b \in DOMAIN booking /\ b \notin req[r].gone
  BY <1>1, <1>3 DEF Loadable, Alone
<1>5. Base(r) = DOMAIN booking \ req[r].gone
  BY <1>1, <1>2 DEF Base, Alone
<1>6. Original(r) = Base(r)
  BY <1>2 DEF Original, Base, Hit
<1>7. Unlisted(r, b) = DOMAIN booking \ (req[r].gone \cup {b})
      /\ Unlisted(r, b) # Original(r)
  BY <1>4, <1>5, <1>6 DEF Unlisted
<1>8. /\ Position(req'[r], "remove", req[r].then, req[r].op, req[r].contact,
                  req[r].size)
      /\ Lists(req'[r], req[r].refs \ {b}, req[r].copy, Unlisted(r, b),
               req[r].added, req[r].gone \cup {b}, req[r].todo \ {b})
      /\ req'[r].overtaken = req[r].overtaken
  BY <1>3, <1>7 DEF Deletes
<1>9. Unlisted(r, b) # NoList
  <2>1. Unlisted(r, b) \in SUBSET (1..MaxBookings)
    BY <1>7, BookableAssumption DEF Inv, Tables
  <2> QED  BY <2>1, BookableAssumption
<1>10. Alone(req'[r])
  <2> DEFINE q == req'[r]  gone == req[r].gone \cup {b}
             refs == req[r].refs \ {b}  todo == req[r].todo \ {b}
  <2>1. /\ q.copy = list /\ q.added = {} /\ q.gone = gone /\ q.todo = todo
        /\ q.refs = refs /\ q.op = req[r].op /\ q.contact = req[r].contact
        /\ q.own = DOMAIN booking \ gone /\ q.own # NoList /\ ~q.overtaken
    BY <1>1, <1>2, <1>7, <1>8, <1>9 DEF Position, Lists, Alone
  <2>2. gone \subseteq DOMAIN booking \ todo
    BY <1>1, <1>4 DEF Alone
  <2>3. q.op \in {"edit", "checkIn"} =>
          /\ q.contact \in DOMAIN contact
          /\ refs = contact[q.contact].refs \ gone
    BY <1>1, <1>2, <2>1 DEF Alone
  <2>4. q.op = "cancel" =>
          /\ q.contact \in DOMAIN contact
          /\ contact[q.contact].refs \cap DOMAIN booking \subseteq gone \cup todo
    BY <1>1, <2>1 DEF Alone
  <2>5. q.op = "drop" => todo \subseteq DOMAIN booking
    BY <1>1, <2>1 DEF Alone
  <2> HIDE DEF q, gone, refs, todo
  <2>6. Alone(q)  BY <1>2, <2>1, <2>2, <2>3, <2>4, <2>5 DEF Alone
  <2> QED  BY <2>6 DEF q
<1>11. HasSlot(req'[r])
  BY <1>2, <1>8 DEF HasSlot, Adds, Position, Lists
<1> QED  BY <1>1, <1>10, <1>11, QuietOne

LEMMA AddOne ==
  ASSUME NEW r \in Requests, Requests = {r}, Inv, OneInv, Add(r)
  PROVE  OneInv'
<1> DEFINE k == Lacking(req[r])  new == bookings + 1 .. bookings + k
           own == Base(r) \cup new
<1>1. /\ UNCHANGED <<opening, contact, booking, list, cached, unchecked>>
      /\ At(r, "sync") /\ cached' \in {NoList, list} /\ Course(req[r])
      /\ Alone(req[r]) /\ k > 0 /\ Count(req[r])
      /\ (opening.asParties => HasSlot(req[r]))
  BY DEF Add, OneInv, Inv
<1>2. bookings + k <= MaxBookings /\ k \in Nat /\ bookings \in Nat
      /\ MaxBookings \in Nat
  BY AddInv, LackingOf, Current, BookableAssumption
<1>3. /\ Position(req'[r], "commit", req[r].then, req[r].op, req[r].contact,
                  req[r].size)
      /\ Lists(req'[r], req[r].refs \cup new, req[r].copy, own, new,
               req[r].gone, req[r].todo)
      /\ req'[r].overtaken = req[r].overtaken
  BY <1>2, AddFields
<1>4. /\ req[r].own = NoList /\ req[r].added = {} /\ req[r].gone = {}
      /\ req[r].copy = list /\ list = DOMAIN booking
      /\ req[r].op \in {"book", "edit", "checkIn"}
  BY <1>1 DEF Count, Course, Alone, At, OneInv
<1>5. own = DOMAIN booking \cup new  BY <1>4 DEF Base
<1>6. /\ DOMAIN booking \subseteq 1..bookings
      /\ \A c \in DOMAIN contact : contact[c].refs \subseteq 1..bookings
  BY DEF Inv, Tables
<1>7. \A x \in new : x \notin 1..bookings
  <2> HIDE DEF k
  <2> QED  BY <1>2
<1>8. own # NoList
  <2>1. own \in SUBSET (1..MaxBookings)
    <3> HIDE DEF k
    <3> QED  BY <1>2, <1>5, <1>6
  <2> HIDE DEF own
  <2> QED  BY <2>1, BookableAssumption
<1>9. Adds(req[r])  BY <1>1 DEF Adds, At
<1> HIDE DEF new, own, k
<1>10. Alone(req'[r])
  <2>1. new \cap DOMAIN booking = {}
        /\ \A c \in DOMAIN contact : new \cap contact[c].refs = {}
    BY <1>6, <1>7
  <2> QED  BY <1>1, <1>3, <1>4, <1>5, <1>8, <2>1 DEF Alone, Position, Lists
<1>11. opening.asParties => HasSlot(req'[r])
  BY <1>1, <1>3, <1>9 DEF HasSlot, Position, Lists
<1> QED  BY <1>1, <1>10, <1>11, QuietOne

\* What a commit leaves in the tables, call by call.
LEMMA CommitRows ==
  ASSUME NEW r \in Requests, Inv, Alone(req[r]), Commit(r)
  PROVE  LET q == req[r]  c == q.contact IN
         /\ DOMAIN booking' = (DOMAIN booking \ q.gone) \cup q.added
         /\ \A b \in DOMAIN booking' :
              booking'[b] = IF b \in q.added THEN c ELSE booking[b]
         /\ q.added # {} => q.op \in {"book", "edit", "checkIn"}
         /\ q.todo = {}
         /\ q.op = "drop" => contact' = contact
         /\ q.op = "cancel" =>
              /\ DOMAIN contact' = DOMAIN contact \ {c}
              /\ \A d \in DOMAIN contact' : contact'[d] = contact[d]
         /\ q.op \in {"book", "edit", "checkIn"} =>
              /\ DOMAIN contact' = DOMAIN contact \cup {c}
              /\ contact'[c].refs = q.refs
              /\ \A d \in DOMAIN contact' : d # c => contact'[d] = contact[d]
         /\ q.op = "book" => c \notin DOMAIN contact
         /\ q.op \in {"edit", "checkIn"} =>
              /\ c \in DOMAIN contact
              /\ q.refs = (contact[c].refs \ q.gone) \cup q.added
<1> DEFINE q == req[r]  c == q.contact
           row == [size |-> q.size, refs |-> q.refs]
<1>1. Course(q) /\ q.at = "commit"  BY DEF Inv, Commit, At
<1>2. /\ booking' = [b \in (DOMAIN booking \ q.gone) \cup q.added |->
                      IF b \in q.added THEN c ELSE booking[b]]
      /\ contact' = Saved(r)
  BY DEF Commit
<1>3. /\ q.added # {} => q.op \in {"book", "edit", "checkIn"}
      /\ q.todo = {}
  BY <1>1 DEF Course, Loading
<1>4. q.op = "drop" => contact' = contact  BY <1>2 DEF Saved
<1>5. q.op = "cancel" =>
        /\ DOMAIN contact' = DOMAIN contact \ {c}
        /\ \A d \in DOMAIN contact' : contact'[d] = contact[d]
  <2> SUFFICES ASSUME q.op = "cancel"
               PROVE  /\ DOMAIN contact' = DOMAIN contact \ {c}
                      /\ \A d \in DOMAIN contact' : contact'[d] = contact[d]
    OBVIOUS
  <2>1. contact' = Restrict(contact, DOMAIN contact \ {c})
    BY <1>2 DEF Saved
  <2> QED  BY <2>1 DEF Restrict
<1>6. q.op \in {"book", "edit", "checkIn"} =>
        /\ DOMAIN contact' = DOMAIN contact \cup {c}
        /\ contact'[c].refs = q.refs
        /\ \A d \in DOMAIN contact' : d # c => contact'[d] = contact[d]
  <2> SUFFICES ASSUME q.op \in {"book", "edit", "checkIn"}
               PROVE  /\ DOMAIN contact' = DOMAIN contact \cup {c}
                      /\ contact'[c].refs = q.refs
                      /\ \A d \in DOMAIN contact' :
                           d # c => contact'[d] = contact[d]
    OBVIOUS
  <2> DEFINE others == Restrict(contact, DOMAIN contact \ {c})
  <2>1. /\ DOMAIN others = DOMAIN contact \ {c}
        /\ \A d \in DOMAIN others : others[d] = contact[d]
    BY DEF Restrict
  <2>2. contact' = [d \in DOMAIN others \cup {c} |->
                      IF d = c THEN row ELSE others[d]]
    BY <1>2 DEF Saved
  <2> HIDE DEF others
  <2>3. row.refs = q.refs  OBVIOUS
  <2> HIDE DEF row, q, c
  <2> QED  BY <2>1, <2>2, <2>3
<1>7. /\ q.op = "book" => c \notin DOMAIN contact
      /\ q.op \in {"edit", "checkIn"} =>
           /\ c \in DOMAIN contact
           /\ q.refs = (contact[c].refs \ q.gone) \cup q.added
  BY DEF Alone
<1>8. /\ DOMAIN booking' = (DOMAIN booking \ q.gone) \cup q.added
      /\ \A b \in DOMAIN booking' :
           booking'[b] = IF b \in q.added THEN c ELSE booking[b]
  <2> HIDE DEF q, c
  <2> QED  BY <1>2
<1> QED  BY <1>3, <1>4, <1>5, <1>6, <1>7, <1>8

\* A booking is among those of its contact, and those of a contact are its own.
LEMMA CommitOwned ==
  ASSUME NEW r \in Requests, Inv, OneInv, Commit(r)
  PROVE  OwnedByContact' /\ Belonging'
<1> DEFINE q == req[r]  c == q.contact
<1>1. Alone(q) /\ OwnedByContact /\ Belonging  BY DEF OneInv
<1>2. /\ DOMAIN booking' = (DOMAIN booking \ q.gone) \cup q.added
      /\ \A b \in DOMAIN booking' :
           booking'[b] = IF b \in q.added THEN c ELSE booking[b]
      /\ q.added # {} => q.op \in {"book", "edit", "checkIn"}
      /\ q.todo = {}
      /\ q.op = "drop" => contact' = contact
      /\ q.op = "cancel" =>
           /\ DOMAIN contact' = DOMAIN contact \ {c}
           /\ \A d \in DOMAIN contact' : contact'[d] = contact[d]
      /\ q.op \in {"book", "edit", "checkIn"} =>
           /\ DOMAIN contact' = DOMAIN contact \cup {c}
           /\ contact'[c].refs = q.refs
           /\ \A d \in DOMAIN contact' : d # c => contact'[d] = contact[d]
      /\ q.op = "book" => c \notin DOMAIN contact
      /\ q.op \in {"edit", "checkIn"} =>
           /\ c \in DOMAIN contact
           /\ q.refs = (contact[c].refs \ q.gone) \cup q.added
  BY <1>1, CommitRows
<1>3. q.op \in {"book", "edit", "checkIn", "cancel", "drop"}
  BY Current DEF RequestOf
<1>4. /\ q.op = "cancel" =>
           contact[c].refs \cap DOMAIN booking \subseteq q.gone
      /\ q.op = "book" => q.refs = q.added
      /\ \A d \in DOMAIN contact : q.added \cap contact[d].refs = {}
  BY <1>1, <1>2 DEF Alone
<1> HIDE DEF q, c
<1>5. ASSUME NEW b \in DOMAIN booking'
      PROVE  booking'[b] \in DOMAIN contact' /\ b \in contact'[booking'[b]].refs
  <2>1. CASE b \in q.added
    <3>1. booking'[b] = c /\ q.op \in {"book", "edit", "checkIn"}
      BY <1>2, <2>1
    <3>2. b \in q.refs  BY <1>2, <1>4, <2>1, <3>1
    <3> QED  BY <1>2, <3>1, <3>2
  <2>2. CASE b \notin q.added
    <3> DEFINE d == booking[b]
    <3>1. /\ b \in DOMAIN booking \ q.gone /\ booking'[b] = d
          /\ d \in DOMAIN contact /\ b \in contact[d].refs
      BY <1>1, <1>2, <2>2 DEF OwnedByContact
    <3> HIDE DEF d
    <3>2. CASE q.op = "drop"  BY <1>2, <3>1, <3>2
    <3>3. CASE q.op = "cancel"
      <4>1. d # c  BY <1>4, <3>1, <3>3
      <4> QED  BY <1>2, <3>1, <3>3, <4>1
    <3>4. CASE q.op \in {"book", "edit", "checkIn"}
      <4>1. CASE d # c  BY <1>2, <3>1, <3>4, <4>1
      <4>2. CASE d = c
        <5>1. b \in q.refs  BY <1>2, <3>1, <3>4, <4>2
        <5> QED  BY <1>2, <3>1, <3>4, <4>2, <5>1
      <4> QED  BY <4>1, <4>2
    <3> QED  BY <1>3, <3>2, <3>3, <3>4
  <2> QED  BY <2>1, <2>2
<1>6. ASSUME NEW d \in DOMAIN contact',
             NEW b \in contact'[d].refs \cap DOMAIN booking'
      PROVE  booking'[b] = d
  <2>1. CASE d = c /\ q.op \in {"book", "edit", "checkIn"}
    <3>1. CASE b \in q.added  BY <1>2, <2>1, <3>1
    <3>2. CASE b \notin q.added
      <4>1. b \in DOMAIN booking /\ b \in q.refs /\ booking'[b] = booking[b]
        BY <1>2, <2>1, <3>2
      <4>2. q.op \in {"edit", "checkIn"}  BY <1>4, <2>1, <3>2, <4>1
      <4>3. c \in DOMAIN contact /\ b \in contact[c].refs
        BY <1>2, <3>2, <4>1, <4>2
      <4> QED  BY <1>1, <2>1, <4>1, <4>3 DEF Belonging
    <3> QED  BY <3>1, <3>2
  <2>2. CASE ~(d = c /\ q.op \in {"book", "edit", "checkIn"})
    <3>1. d \in DOMAIN contact /\ contact'[d] = contact[d]
      BY <1>2, <1>3, <2>2
    <3>2. b \notin q.added  BY <1>4, <3>1
    <3>3. b \in DOMAIN booking /\ booking'[b] = booking[b]
      BY <1>2, <3>2
    <3> QED  BY <1>1, <3>1, <3>3 DEF Belonging
  <2> QED  BY <2>1, <2>2
<1> QED  BY <1>5, <1>6 DEF OwnedByContact, Belonging

\* Parties that have a slot after the commit had one before, or the contact
\* of the call has found one that was free.
LEMMA CommitSettled ==
  ASSUME NEW r \in Requests, Inv, OneInv, opening.asParties, Commit(r)
  PROVE  Cardinality(Settled') <= opening.slots
<1> DEFINE q == req[r]  c == q.contact
<1>1. /\ Alone(q) /\ OwnedByContact /\ Belonging /\ list = DOMAIN booking
      /\ HasSlot(q) /\ Cardinality(Settled) <= opening.slots
  BY DEF OneInv
<1>2. /\ DOMAIN booking' = (DOMAIN booking \ q.gone) \cup q.added
      /\ \A b \in DOMAIN booking' :
           booking'[b] = IF b \in q.added THEN c ELSE booking[b]
      /\ q.op = "drop" => contact' = contact
      /\ q.op = "cancel" =>
           /\ DOMAIN contact' = DOMAIN contact \ {c}
           /\ \A d \in DOMAIN contact' : contact'[d] = contact[d]
      /\ q.op \in {"book", "edit", "checkIn"} =>
           /\ DOMAIN contact' = DOMAIN contact \cup {c}
           /\ contact'[c].refs = q.refs
           /\ \A d \in DOMAIN contact' : d # c => contact'[d] = contact[d]
      /\ q.op = "book" => c \notin DOMAIN contact
      /\ q.op \in {"edit", "checkIn"} =>
           /\ c \in DOMAIN contact
           /\ q.refs = (contact[c].refs \ q.gone) \cup q.added
  BY <1>1, CommitRows
<1>3. q.op \in {"book", "edit", "checkIn", "cancel", "drop"}
  BY Current DEF RequestOf
<1>4. /\ q.gone \subseteq DOMAIN booking
      /\ \A d \in DOMAIN contact : q.added \cap contact[d].refs = {}
  BY <1>1 DEF Alone
<1>5. OwnedByContact'  BY CommitOwned
<1>6. HasSlot(q) /\ q.added # {} =>
        \/ Cardinality(Owners) < opening.slots
        \/ q.op = "edit" /\ contact[c].refs # {}
  BY DEF HasSlot
<1> HIDE DEF q, c
\* A contact that is not damaged after the commit was not damaged before.
<1>7. ASSUME NEW d \in DOMAIN contact, d \in DOMAIN contact',
             contact'[d].refs \subseteq DOMAIN booking'
      PROVE  contact[d].refs \subseteq DOMAIN booking
  <2>1. CASE d = c /\ q.op \in {"edit", "checkIn"}
    <3>1. contact[c].refs \subseteq q.refs \cup q.gone  BY <1>2, <2>1
    <3>2. q.refs \subseteq DOMAIN booking'  BY <1>2, <1>7, <2>1
    <3> QED  BY <1>2, <1>4, <2>1, <3>1, <3>2
  <2>2. CASE ~(d = c /\ q.op \in {"edit", "checkIn"})
    <3>1. contact'[d] = contact[d]  BY <1>2, <1>3, <1>7, <2>2
    <3> QED  BY <1>2, <1>4, <1>7, <3>1
  <2> QED  BY <2>1, <2>2
\* So its party had a slot, unless the call has just added its bookings.
<1>8. ASSUME NEW x \in Settled'
      PROVE  \/ x \in Settled
             \/ x = c /\ Cardinality(Owners) < opening.slots
  <2>1. PICK b \in DOMAIN booking' :
          booking'[b] \notin Damaged' /\ x = booking'[b]
    BY DEF Settled, OwnerOf
  <2>2. x \in DOMAIN contact' /\ contact'[x].refs \subseteq DOMAIN booking'
    BY <1>5, <2>1 DEF OwnedByContact, Damaged
  <2>3. ASSUME NEW e \in DOMAIN booking, booking[e] = x, x \in DOMAIN contact
        PROVE  x \in Settled
    <3>1. contact[x].refs \subseteq DOMAIN booking  BY <1>7, <2>2, <2>3
    <3>2. booking[e] \notin Damaged  BY <2>3, <3>1 DEF Damaged
    <3> QED  BY <2>3, <3>2 DEF Settled, OwnerOf
  <2>4. CASE b \notin q.added
    <3>1. b \in DOMAIN booking /\ booking[b] = x  BY <1>2, <2>1, <2>4
    <3>2. x \in DOMAIN contact  BY <1>1, <3>1 DEF OwnedByContact
    <3> QED  BY <2>3, <3>1, <3>2
  <2>5. CASE b \in q.added
    <3>1. x = c  BY <1>2, <2>1, <2>5
    <3>2. CASE q.op = "edit" /\ contact[c].refs # {}
      <4>1. c \in DOMAIN contact  BY <1>2, <3>2
      <4>2. PICK e \in contact[c].refs : TRUE  BY <3>2
      <4>3. contact[c].refs \subseteq DOMAIN booking
        BY <1>7, <2>2, <3>1, <4>1
      <4>4. booking[e] = c  BY <1>1, <4>1, <4>2, <4>3 DEF Belonging
      <4> QED  BY <2>3, <3>1, <4>1, <4>2, <4>3, <4>4
    <3> QED  BY <1>1, <1>6, <2>5, <3>1, <3>2
  <2> QED  BY <2>4, <2>5
<1>9. /\ Owners \in SUBSET (1..contacts) /\ Settled \subseteq Owners
      /\ contacts \in Nat /\ opening.slots \in Nat
  <2>1. Owners \in SUBSET (1..contacts)
    BY <1>1 DEF Owners, OwnerOf, Inv, Tables
  <2>2. Settled \subseteq Owners  BY <1>1 DEF Settled, Owners
  <2> QED  BY <2>1, <2>2, Current, SlotsAreNat
<1>10. CASE Settled' \subseteq Settled
  <2> DEFINE A == Settled'  B == Settled
  <2>1. B \in SUBSET (1..contacts) /\ A \in SUBSET B
    BY <1>9, <1>10
  <2>2. Cardinality(B) <= opening.slots  BY <1>1
  <2> HIDE DEF A, B
  <2>3. Cardinality(A) <= opening.slots  BY <1>9, <2>1, <2>2, FewerAre
  <2> QED  BY <2>3 DEF A
<1>11. CASE ~(Settled' \subseteq Settled)
  <2>1. Cardinality(Owners) < opening.slots /\ Settled' \subseteq Owners \cup {c}
    BY <1>8, <1>9, <1>11
  <2>2. IsFiniteSet(Owners) /\ Cardinality(Owners) \in Nat
    BY <1>9, FiniteIds
  <2>3. /\ IsFiniteSet(Owners \cup {c})
        /\ Cardinality(Owners \cup {c}) <= Cardinality(Owners) + 1
        /\ Cardinality(Owners \cup {c}) \in Nat
    <3>1. /\ IsFiniteSet(Owners \cup {c})
          /\ Cardinality(Owners \cup {c})
               = IF c \in Owners THEN Cardinality(Owners)
                 ELSE Cardinality(Owners) + 1
      BY <2>2, FS_AddElement
    <3>2. Cardinality(Owners \cup {c}) \in Nat  BY <3>1, FS_CardinalityType
    <3> QED  BY <2>2, <3>1, <3>2
  <2> DEFINE A == Settled'  B == Owners \cup {c}
  <2>4. IsFiniteSet(B) /\ A \subseteq B  BY <2>1, <2>3
  <2> HIDE DEF A
  <2>5. /\ Cardinality(A) <= Cardinality(B) /\ IsFiniteSet(A)
        /\ Cardinality(A) \in Nat
    <3> HIDE DEF B
    <3>1. IsFiniteSet(A) /\ Cardinality(A) <= Cardinality(B)
      BY <2>4, FS_Subset
    <3> QED  BY <3>1, FS_CardinalityType
  <2>6. Cardinality(A) <= opening.slots
    BY <1>9, <2>1, <2>2, <2>3, <2>5
  <2> QED  BY <2>6 DEF A
<1> QED  BY <1>10, <1>11

LEMMA CommitOne ==
  ASSUME NEW r \in Requests, Requests = {r}, Inv, Inv', OneInv, Commit(r)
  PROVE  OneInv'
<1>1. /\ Return(r) /\ contacts' = contacts /\ bookings' = bookings
      /\ opening' = opening
      /\ list' = IF req[r].own = NoList THEN list ELSE req[r].own
      /\ cached' = IF req[r].saved THEN NoList ELSE cached
      /\ unchecked' = unchecked \cup Excused(req[r])
  BY DEF Commit, Excused
<1>2. /\ Alone(req[r]) /\ list = DOMAIN booking /\ cached \in {NoList, list}
      /\ unchecked = {} /\ Course(req[r])
  BY DEF OneInv, Inv
<1>3. req'[r] = Idle  BY <1>1, ReturnFields
<1>4. DOMAIN booking' = (DOMAIN booking \ req[r].gone) \cup req[r].added
  BY <1>2, CommitRows
<1>5. list' = DOMAIN booking'
  BY <1>1, <1>2, <1>4 DEF Alone
<1>6. cached' \in {NoList, list'}
  BY <1>1, <1>2 DEF Course
<1>7. unchecked' = {}
  BY <1>1, <1>2 DEF Alone, Excused
<1>8. OwnedByContact' /\ Belonging'  BY CommitOwned
<1>9. Alone(req[r])' /\ HasSlot(req[r])'
  <2>1. NoContact \notin DOMAIN contact'
    BY BookableAssumption DEF Inv, Tables
  <2>2. ~Adds(Idle)  BY DEF Adds, Idle
  <2>3. ~Adds(req[r])'  BY <1>3, <2>2 DEF Adds, Lacking
  <2>4. Idle.added = {}  BY DEF Idle
  <2> QED  BY <1>3, <2>1, <2>3, <2>4 DEF Alone, HasSlot, Idle
<1>10. opening.asParties => Cardinality(Settled') <= opening.slots
  BY CommitSettled
<1>11. \A s \in Requests : s = r  OBVIOUS
<1> QED  BY <1>1, <1>5, <1>6, <1>7, <1>8, <1>9, <1>10, <1>11 DEF OneInv

LEMMA NextOne ==
  ASSUME NEW r \in Requests, Requests = {r}, Inv, OneInv, [Next]_vars
  PROVE  OneInv'
<1>1. CASE UNCHANGED vars
  <2>1. Alone(req[r]) /\ (opening.asParties => HasSlot(req[r]))
    BY DEF OneInv
  <2>2. req' = req /\ cached' \in {NoList, list}
        /\ UNCHANGED <<opening, contact, booking, list, unchecked>>
    BY <1>1 DEF vars, OneInv
  <2> QED  BY <2>1, <2>2, QuietOne
<1>2. CASE Call(r)
  <2>1. Inv'  BY NextInv
  <2> QED  BY <1>2, <2>1, CallOne
<1>3. CASE Step(r)
  <2>1. CASE Load(r)  BY <2>1, LoadOne
  <2>2. CASE Fill(r)  BY <2>2, MoveOne
  <2>3. CASE Validate(r)  BY <2>3, ValidateOne
  <2>4. CASE Refuse(r)  BY <2>4, ReturnOne DEF Refuse
  <2>5. CASE CreateContact(r)  BY <2>5, CreateContactOne
  <2>6. CASE SaveContact(r)  BY <2>6, MoveOne
  <2>7. CASE Gone(r)  BY <2>7, ReturnOne DEF Gone
  <2>8. CASE Add(r)  BY <2>8, AddOne
  <2>9. CASE Shrink(r)  BY <2>9, ShrinkOne
  <2>10. CASE InSync(r)  BY <2>10, MoveOne
  <2>11. CASE Skip(r)  BY <2>11, SkipOne
  <2>12. CASE Remove(r)  BY <2>12, RemoveListed
  <2>13. CASE Removed(r)  BY <2>13, MoveOne
  <2>14. CASE Commit(r)
    <3>1. Inv'  BY NextInv
    <3> QED  BY <2>14, <3>1, CommitOne
  <2> QED  BY <1>3, <2>1, <2>2, <2>3, <2>4, <2>5, <2>6, <2>7, <2>8, <2>9,
              <2>10, <2>11, <2>12, <2>13, <2>14 DEF Step
<1>4. CASE Fail(r)  BY <1>4, ReturnOne DEF Fail
<1> QED  BY <1>1, <1>2, <1>3, <1>4 DEF Next

LEMMA OneInvariance ==
  ASSUME NEW CONSTANT r, Requests = {r}
  PROVE  Spec => [](Inv /\ PeopleInv /\ OneInv)
<1>1. r \in Requests  OBVIOUS
<1>2. Init => Inv /\ PeopleInv /\ OneInv  BY InitInv, InitPeople, InitOne
<1>3. Inv /\ PeopleInv /\ OneInv /\ [Next]_vars
        => (Inv /\ PeopleInv /\ OneInv)'
  BY <1>1, NextInv, NextPeople, NextOne
<1> QED  BY <1>2, <1>3, PTL DEF Spec

\* As long as calls follow each other, the list of the instance has the
\* bookings there are: a call reads it, and what it writes leaves out exactly
\* the bookings it deletes and has those it creates.
THEOREM ListIsExact ==
  ASSUME NEW CONSTANT r, Requests = {r}
  PROVE  Spec => []ListExact
<1>1. OneInv => ListExact  BY DEF OneInv, ListExact
<1> QED  BY <1>1, OneInvariance, PTL

\* ... and every booking has its contact, which refers to it, whatever calls
\* were made before and wherever they failed.
THEOREM BookingsAreOwned ==
  ASSUME NEW CONSTANT r, Requests = {r}
  PROVE  Spec => []OwnedByContact
<1>1. OneInv => OwnedByContact  BY DEF OneInv
<1> QED  BY <1>1, OneInvariance, PTL

LEMMA OneIsWithinSlots ==
  ASSUME Inv, PeopleInv, OneInv
  PROVE  WithinSlotsOneByOne
<1> DEFINE bs == {b \in DOMAIN booking :
                    ~opening.asParties \/ booking[b] \notin Damaged}
<1>1. CASE opening.asParties
  <2>1. {OwnerOf(b) : b \in bs} = Settled  BY <1>1 DEF Settled
  <2>2. Cardinality(Settled) <= opening.slots /\ opening.slots \in Nat
    BY <1>1, SlotsAreNat DEF OneInv
  <2>3. Cardinality(Settled) \in Nat
    <3>1. Settled \in SUBSET (1..contacts)
      BY DEF Settled, OwnerOf, Inv, Tables
    <3>2. contacts \in Nat  BY BookableAssumption DEF Inv, Tables
    <3> QED  BY <3>1, <3>2, FiniteIds
  <2>4. Booked(bs) = Cardinality(Settled)
    <3> HIDE DEF bs
    <3>1. SlotsAvailable(bs) = opening.slots - Cardinality(Settled)
      BY <1>1, <2>1 DEF SlotsAvailable
    <3> QED  BY <2>2, <2>3, <3>1 DEF Booked
  <2> QED  BY <2>2, <2>4 DEF WithinSlotsOneByOne
<1>2. CASE ~opening.asParties
  <2>1. bs = list \ unchecked  BY <1>2 DEF OneInv
  <2>2. Booked(list \ unchecked) <= opening.slots  BY <1>2, PeopleAreShown
  <2> HIDE DEF bs
  <2>3. Booked(bs) <= opening.slots  BY <2>1, <2>2
  <2> QED  BY <2>3 DEF WithinSlotsOneByOne, bs
<1> QED  BY <1>1, <1>2

\* ... and there are never more bookings than slots, be a slot for a person or
\* for a party, but for the party of a contact that a deleted booking damaged.
THEOREM OneByOneIsWithinSlots ==
  ASSUME NEW CONSTANT r, Requests = {r}
  PROVE  Spec => []WithinSlotsOneByOne
<1> QED  BY OneInvariance, OneIsWithinSlots, PTL
=============================================================================
