--------------------------- MODULE ChainedFastProofs ---------------------------
(***************************************************************************)
(* StaleHasCause for any number of requests, nodes, values and ticks.  It  *)
(* is not inductive: that a copy is stale says nothing of the write that   *)
(* made it so.  CopiesInv relates every stale copy to such a write, by     *)
(* time: one that is not stamped yet, that was lost, or that was stamped   *)
(* later than the copy was made.                                           *)
(***************************************************************************)
EXTENDS ChainedFast, TLAPS

(* The clock was read for the write that is under way, and not compared. *)
Marked(r) == (At(r, "load") /\ req[r].for = "write") \/ At(r, "compare")

(* Nothing was made or written after now, and a request knows no stamp     *)
(* that was never written, its next one aside.                             *)
TimesInv ==
  /\ \A n \in Nodes : fast[n] # Nothing => fast[n].created <= now
  /\ \A r \in Requests :
       /\ req[r].wroteAt <= now
       /\ ~At(r, "stamp") /\ req[r].last # Unknown => req[r].last <= highest
       /\ At(r, "stamp") => req[r].last > req[r].wroteAt
       /\ Marked(r) => req[r].mark > req[r].wroteAt

(* What a request is about to copy is the item, or it is marked as raced.  *)
ValuesInv ==
  \A r \in Requests : req[r].value # Nothing /\ ~req[r].raced
                        => req[r].value = row

Stale(n) == fast[n] # Nothing /\ ~fast[n].raced /\ fast[n].value # row

Unstamped(r, time) == Writing(r) /\ req[r].wroteAt >= time

CopiesInv ==
  \A n \in Nodes : Stale(n) =>
    \/ highest > fast[n].created
    \/ lostAt >= fast[n].created
    \/ \E r \in Requests : Unstamped(r, fast[n].created)

Inv == TypeOK /\ TimesInv /\ ValuesInv /\ CopiesInv

(* The initial state: no copy, no write. *)
LEMMA InvInit == Init => Inv
  BY ChainedFastAssumption
     DEF Init, Inv, TypeOK, TimesInv, ValuesInv, CopiesInv, Stale,
         Marked, NewRequest, Request, At, Values

(* Inv speaks of the variables only. *)
LEMMA InvStutter == Inv /\ UNCHANGED vars => Inv'
  BY DEF Inv, TypeOK, TimesInv, Marked, ValuesInv, CopiesInv, Stale, Unstamped,
         Writing, At, vars

(* What TypeOK says of one request. *)
RequestOK(q) ==
  /\ q \in Request
  /\ q.at = "fill" => q.value # Nothing
  /\ q.at \in {"fast", "compare", "stamp"} => q.last # Unknown

LEMMA RequestsOK == TypeOK <=>
  /\ now \in 1..MaxTime
  /\ row \in Values \cup {Nothing}
  /\ stamp \in Nat /\ stamp <= highest
  /\ fast \in [Nodes -> Copy \cup {Nothing}]
  /\ version \in 0..MaxVersion
  /\ req \in [Requests -> Request]
  /\ \A r \in Requests : RequestOK(req[r])
  /\ highest \in Nat
  /\ lostAt \in Nat
  BY DEF TypeOK, RequestOK, At

(* A step that changes the state of one request, to a good one. *)
LEMMA OneRequest ==
  ASSUME TypeOK, NEW r \in Requests, NEW q, RequestOK(q),
         req' = [req EXCEPT ![r] = q]
  PROVE  /\ req' \in [Requests -> Request]
         /\ \A s \in Requests : RequestOK(req'[s])
  BY RequestsOK DEF RequestOK

(* A write also marks what other requests are about to copy. *)
LEMMA WrittenTypes ==
  ASSUME TypeOK, NEW r \in Requests, NEW v \in Values \cup {Nothing},
         Written(r, v)
  PROVE  /\ req' \in [Requests -> Request]
         /\ \A s \in Requests : RequestOK(req'[s])
  <1> DEFINE q == [req[r] EXCEPT !.at = "mark", !.for = "write", !.value = v,
                                 !.raced = FALSE, !.wroteAt = now]
             m(s) == [req[s] EXCEPT !.raced = req[s].value # Nothing]
  <1>2. RequestOK(req[r]) /\ now \in Nat
    BY RequestsOK, ChainedFastAssumption
  <1>3. RequestOK(q)
    BY <1>2 DEF RequestOK, Request
  <1>4. ASSUME NEW s \in Requests PROVE RequestOK(m(s))
    <2> DEFINE b == req[s].value # Nothing
    <2>1. b \in BOOLEAN
      OBVIOUS
    <2> HIDE DEF b
    <2>2. RequestOK(req[s])
      BY RequestsOK
    <2>3. RequestOK([req[s] EXCEPT !.raced = b])
      BY <2>1, <2>2 DEF RequestOK, Request
    <2> QED
      BY <2>3 DEF b
  <1>5. req' = [s \in Requests |-> IF s = r THEN q ELSE m(s)]
    BY DEF Written
  <1> HIDE DEF q, m
  <1> QED
    BY <1>3, <1>4, <1>5 DEF RequestOK

(* Every action keeps the types. *)
LEMMA TypeNext == TypeOK /\ TimesInv /\ Next => TypeOK'
  <1> SUFFICES ASSUME TypeOK, TimesInv, Next PROVE TypeOK'
    OBVIOUS
  <1> USE ChainedFastAssumption
  <1>0. /\ now \in 1..MaxTime /\ now \in Nat
        /\ row \in Values \cup {Nothing}
        /\ stamp \in Nat /\ stamp <= highest /\ highest \in Nat
        /\ lostAt \in Nat
        /\ \A r \in Requests : RequestOK(req[r])
    BY RequestsOK
  <1>1. ASSUME NEW r \in Requests, Get(r) PROVE TypeOK'
    <2> DEFINE place == LoadOr(r, "fast")
               q == [req[r] EXCEPT !.at = place, !.for = "get"]
    <2>1. /\ place \in {"load", "fast"}
          /\ place = "fast" => req[r].last # Unknown
      BY <1>0 DEF LoadOr
    <2>2. RequestOK(q)
      <3> HIDE DEF place
      <3> QED
        BY <1>0, <2>1 DEF RequestOK, Request
    <2>3. req' = [req EXCEPT ![r] = q]
      BY <1>1, <1>0 DEF Get, RequestOK, Request
    <2> HIDE DEF q
    <2>4. /\ req' \in [Requests -> Request]
          /\ \A s \in Requests : RequestOK(req'[s])
      BY <2>2, <2>3, OneRequest
    <2> QED
      BY <1>1, <1>0, <2>4, RequestsOK DEF Get, TypeOK, At, RequestOK
  <1>2. ASSUME NEW r \in Requests, Load(r) PROVE TypeOK'
    <2> DEFINE place == IF req[r].for = "get" THEN "fast" ELSE "compare"
               q == [req[r] EXCEPT !.last = stamp, !.at = place]
    <2>1. place \in {"fast", "compare"}
      BY <1>0 DEF LoadOr
    <2>2. RequestOK(q)
      <3> HIDE DEF place
      <3> QED
        BY <1>0, <2>1 DEF RequestOK, Request
    <2>3. req' = [req EXCEPT ![r] = q]
      BY <1>2, <1>0 DEF Load, RequestOK, Request
    <2> HIDE DEF q
    <2>4. /\ req' \in [Requests -> Request]
          /\ \A s \in Requests : RequestOK(req'[s])
      BY <2>2, <2>3, OneRequest
    <2> QED
      BY <1>2, <1>0, <2>4, RequestsOK DEF Load, TypeOK, At, RequestOK
  <1>3. ASSUME NEW r \in Requests, GetFast(r) PROVE TypeOK'
    <2> DEFINE place == IF Newer(fast[NodeOf[r]], req[r].last)
                        THEN "idle" ELSE "slow"
               q == [req[r] EXCEPT !.at = place]
    <2>1. place \in {"idle", "slow"}
      BY <1>0 DEF LoadOr
    <2>2. RequestOK(q)
      <3> HIDE DEF place
      <3> QED
        BY <1>0, <2>1 DEF RequestOK, Request
    <2>3. req' = [req EXCEPT ![r] = q]
      BY <1>3, <1>0 DEF GetFast, RequestOK, Request
    <2> HIDE DEF q
    <2>4. /\ req' \in [Requests -> Request]
          /\ \A s \in Requests : RequestOK(req'[s])
      BY <2>2, <2>3, OneRequest
    <2> QED
      BY <1>3, <1>0, <2>4, RequestsOK DEF GetFast, TypeOK, At, RequestOK
  <1>4. ASSUME NEW r \in Requests, GetConsistent(r) PROVE TypeOK'
    <2> DEFINE place == IF row = Nothing THEN "idle" ELSE "fill"
               q == [req[r] EXCEPT !.at = place, !.value = row,
                                   !.raced = FALSE]
    <2>1. /\ place \in {"idle", "fill"}
          /\ place = "fill" => row # Nothing
      BY <1>0 DEF LoadOr
    <2>2. RequestOK(q)
      <3> HIDE DEF place
      <3> QED
        BY <1>0, <2>1 DEF RequestOK, Request
    <2>3. req' = [req EXCEPT ![r] = q]
      BY <1>4, <1>0 DEF GetConsistent, RequestOK, Request
    <2> HIDE DEF q
    <2>4. /\ req' \in [Requests -> Request]
          /\ \A s \in Requests : RequestOK(req'[s])
      BY <2>2, <2>3, OneRequest
    <2> QED
      BY <1>4, <1>0, <2>4, RequestsOK DEF GetConsistent, TypeOK, At, RequestOK
  <1>5. ASSUME NEW r \in Requests, Fill(r) PROVE TypeOK'
    <2> DEFINE q == [req[r] EXCEPT !.at = "idle", !.value = Nothing,
                                   !.raced = FALSE]
               copy == [value |-> req[r].value, created |-> now,
                        raced |-> req[r].raced]
    <2>1. copy \in Copy
      BY <1>0, <1>5 DEF Fill, At, RequestOK, Request, Copy
    <2>2. RequestOK(q)
      BY <1>0 DEF RequestOK, Request
    <2>3. /\ req' = [req EXCEPT ![r] = q]
          /\ fast' = [fast EXCEPT ![NodeOf[r]] = copy]
      BY <1>5, <1>0 DEF Fill, RequestOK, Request
    <2> HIDE DEF q, copy
    <2>4. /\ req' \in [Requests -> Request]
          /\ \A s \in Requests : RequestOK(req'[s])
      BY <2>2, <2>3, OneRequest
    <2>5. fast' \in [Nodes -> Copy \cup {Nothing}]
      BY <2>1, <2>3 DEF TypeOK
    <2> QED
      BY <1>5, <1>0, <2>4, <2>5 DEF Fill, TypeOK, At, RequestOK
  <1>6. ASSUME NEW r \in Requests, SetItem(r) PROVE TypeOK'
    <2>1. version' \in Values /\ version' \in 0..MaxVersion
      BY <1>6, ChainedFastAssumption DEF SetItem, TypeOK, Values
    <2>2. /\ req' \in [Requests -> Request]
          /\ \A s \in Requests : RequestOK(req'[s])
      BY <1>6, <2>1, WrittenTypes DEF SetItem
    <2> QED
      BY <1>6, <1>0, <2>1, <2>2 DEF SetItem, Written, TypeOK, At, RequestOK
  <1>7. ASSUME NEW r \in Requests, Delete(r) PROVE TypeOK'
    <2>1. PICK v \in Values \cup {Nothing} : Written(r, v) /\ row' = v
      BY <1>7 DEF Delete, Written, TypeOK, Values
    <2>2. /\ req' \in [Requests -> Request]
          /\ \A s \in Requests : RequestOK(req'[s])
      BY <2>1, WrittenTypes
    <2> QED
      BY <1>7, <1>0, <2>1, <2>2 DEF Delete, TypeOK, At, RequestOK
  <1>8. ASSUME NEW r \in Requests, DeleteAll(r) PROVE TypeOK'
    <2>1. PICK v \in Values \cup {Nothing} : Written(r, v) /\ row' = v
      BY <1>8 DEF DeleteAll, Written, TypeOK, Values
    <2>2. /\ req' \in [Requests -> Request]
          /\ \A s \in Requests : RequestOK(req'[s])
      BY <2>1, WrittenTypes
    <2> QED
      BY <1>8, <1>0, <2>1, <2>2 DEF DeleteAll, TypeOK, At, RequestOK
  <1>9. ASSUME NEW r \in Requests, Compare(r) PROVE TypeOK'
    <2> DEFINE place == AfterMark(r)
               q == IF req[r].mark > req[r].last
                    THEN [req[r] EXCEPT !.at = "stamp", !.last = req[r].mark,
                                        !.mark = 0]
                    ELSE [req[r] EXCEPT !.at = place, !.mark = 0, !.wroteAt = 0]
    <2>1. /\ place \in {"idle", "fill"}
          /\ place = "fill" => req[r].value # Nothing
      BY DEF AfterMark
    <2>2. RequestOK(q)
      <3> HIDE DEF place
      <3> QED
        BY <1>0, <2>1 DEF RequestOK, Request
    <2>3. req' = [req EXCEPT ![r] = q]
      BY <1>9, <1>0 DEF Compare
    <2> HIDE DEF q
    <2>4. /\ req' \in [Requests -> Request]
          /\ \A s \in Requests : RequestOK(req'[s])
      BY <2>2, <2>3, OneRequest
    <2> QED
      BY <1>9, <1>0, <2>4 DEF Compare, TypeOK, At, RequestOK
  <1>10. ASSUME NEW r \in Requests, WriteStamp(r) PROVE TypeOK'
    <2> DEFINE place == AfterMark(r)
               q == [req[r] EXCEPT !.at = place, !.wroteAt = 0]
    <2>1. /\ place \in {"idle", "fill"}
          /\ place = "fill" => req[r].value # Nothing
      BY DEF AfterMark
    <2>2. RequestOK(q)
      <3> HIDE DEF place
      <3> QED
        BY <1>0, <2>1 DEF RequestOK, Request
    <2>3. req' = [req EXCEPT ![r] = q]
      BY <1>10, <1>0 DEF WriteStamp, RequestOK, Request
    <2> HIDE DEF q
    <2>4. /\ req' \in [Requests -> Request]
          /\ \A s \in Requests : RequestOK(req'[s])
      BY <2>2, <2>3, OneRequest
    <2>5. req[r].last \in Nat
      BY <1>0, <1>10 DEF WriteStamp, At, RequestOK, Request
    <2> QED
      BY <1>10, <1>0, <2>4, <2>5 DEF WriteStamp, TypeOK, At, RequestOK
  <1>11. ASSUME NEW r \in Requests, End(r) PROVE TypeOK'
    <2>1. RequestOK(NewRequest)
      BY ChainedFastAssumption DEF RequestOK, NewRequest, Request
    <2>2. /\ req' \in [Requests -> Request]
          /\ \A s \in Requests : RequestOK(req'[s])
      BY <1>11, <2>1, OneRequest DEF End
    <2>3. lostAt' \in Nat
      BY <1>11, <1>0 DEF End, RequestOK, Request
    <2> QED
      BY <1>11, <1>0, <2>2, <2>3 DEF End, TypeOK, At, RequestOK
  <1>12. ASSUME NEW n \in Nodes, Evict(n) PROVE TypeOK'
    BY <1>12 DEF Evict, TypeOK, At
  <1>13. CASE Tick
    BY <1>13 DEF Tick, TypeOK, At
  <1>14. ASSUME NEW r \in Requests, ReadClock(r) PROVE TypeOK'
    <2> DEFINE place == LoadOr(r, "compare")
               q == [req[r] EXCEPT !.mark = Mark, !.at = place]
    <2>1. /\ place \in {"load", "compare"}
          /\ place = "compare" => req[r].last # Unknown
      BY DEF LoadOr
    <2>2. RequestOK(q)
      <3> HIDE DEF place
      <3>1. Mark \in Nat
        BY <1>0 DEF Mark
      <3> QED
        BY <1>0, <2>1, <3>1 DEF RequestOK, Request
    <2>3. req' = [req EXCEPT ![r] = q]
      BY <1>14, <1>0 DEF ReadClock, RequestOK, Request
    <2> HIDE DEF q
    <2>4. /\ req' \in [Requests -> Request]
          /\ \A s \in Requests : RequestOK(req'[s])
      BY <2>2, <2>3, OneRequest
    <2> QED
      BY <1>14, <1>0, <2>4, RequestsOK DEF ReadClock, TypeOK, At, RequestOK
  <1> QED
    BY <1>1, <1>2, <1>3, <1>4, <1>5, <1>6, <1>7, <1>8, <1>9, <1>10, <1>11,
       <1>12, <1>13, <1>14 DEF Next

(* What Written leaves of the requests, in the words of the invariants.    *)
LEMMA WrittenFields ==
  ASSUME TypeOK, NEW r \in Requests, NEW v, Written(r, v)
  PROVE  /\ row' = v
         /\ At(r, "mark")' /\ req'[r].for = "write"
         /\ req'[r].value = v /\ req'[r].wroteAt = now
         /\ req'[r].last = req[r].last
         /\ \A s \in Requests \ {r} :
              /\ req'[s].at = req[s].at /\ req'[s].for = req[s].for
              /\ req'[s].last = req[s].last /\ req'[s].mark = req[s].mark
              /\ req'[s].value = req[s].value
              /\ req'[s].wroteAt = req[s].wroteAt
              /\ req'[s].raced = (req[s].value # Nothing)
  <1>1. \A s \in Requests : req[s] \in Request
    BY DEF TypeOK
  <1> QED
    BY <1>1 DEF Written, At, Request

(* Clocks and stamps only grow, and a stamp to write is later than its write. *)
LEMMA TimesNext == TypeOK /\ TimesInv /\ Next => TimesInv'
  <1> SUFFICES ASSUME TypeOK, TimesInv, Next PROVE TimesInv'
    OBVIOUS
  <1> USE ChainedFastAssumption
  <1>0. /\ now \in Nat /\ stamp \in Nat /\ stamp <= highest
        /\ highest \in Nat /\ lostAt \in Nat
        /\ fast \in [Nodes -> Copy \cup {Nothing}]
        /\ req \in [Requests -> Request]
        /\ \A r \in Requests :
             /\ req[r].wroteAt \in Nat /\ req[r].last \in Nat \cup {Unknown}
             /\ req[r].mark \in Nat
        /\ \A r \in Requests :
             req[r].at \in {"fast", "compare", "stamp"} => req[r].last # Unknown
    BY DEF TypeOK, Request
  <1>1. ASSUME NEW r \in Requests, Get(r) PROVE TimesInv'
    BY <1>0, <1>1 DEF Get, TimesInv, Marked, At, LoadOr, Request
  <1>2. ASSUME NEW r \in Requests, Load(r) PROVE TimesInv'
    BY <1>0, <1>2 DEF Load, TimesInv, Marked, At, Request
  <1>3. ASSUME NEW r \in Requests, GetFast(r) PROVE TimesInv'
    BY <1>0, <1>3 DEF GetFast, TimesInv, Marked, At, Request
  <1>4. ASSUME NEW r \in Requests, GetConsistent(r) PROVE TimesInv'
    BY <1>0, <1>4 DEF GetConsistent, TimesInv, Marked, At, Request
  <1>5. ASSUME NEW r \in Requests, Fill(r) PROVE TimesInv'
    BY <1>0, <1>5 DEF Fill, TimesInv, Marked, At, Request
  <1>6. ASSUME NEW r \in Requests,
               SetItem(r) \/ Delete(r) \/ DeleteAll(r)
        PROVE  TimesInv'
    <2>1. PICK v : Written(r, v)
      BY <1>6 DEF SetItem, Delete, DeleteAll
    <2>2. At(r, "idle") /\ UNCHANGED <<now, fast, highest>>
      BY <1>6 DEF SetItem, Delete, DeleteAll
    <2> QED
      BY <1>0, <2>1, <2>2, WrittenFields DEF TimesInv, Marked, At
  <1>7. ASSUME NEW r \in Requests, Compare(r) PROVE TimesInv'
    BY <1>0, <1>7 DEF Compare, TimesInv, Marked, At, Request, AfterMark
  <1>8. ASSUME NEW r \in Requests, WriteStamp(r) PROVE TimesInv'
    BY <1>0, <1>8 DEF WriteStamp, TimesInv, Marked, At, Request, AfterMark
  <1>9. ASSUME NEW r \in Requests, End(r) PROVE TimesInv'
    BY <1>0, <1>9 DEF End, TimesInv, Marked, At, Request, NewRequest
  <1>10. ASSUME NEW n \in Nodes, Evict(n) PROVE TimesInv'
    BY <1>0, <1>10 DEF Evict, TimesInv, Marked, At
  <1>11. CASE Tick
    BY <1>0, <1>11 DEF Tick, TimesInv, Marked, At, Copy
  <1>12. ASSUME NEW r \in Requests, ReadClock(r) PROVE TimesInv'
    BY <1>0, <1>12 DEF ReadClock, TimesInv, Marked, At, LoadOr, Request, Mark
  <1> QED
    BY <1>1, <1>2, <1>3, <1>4, <1>5, <1>6, <1>7, <1>8, <1>9, <1>10, <1>11, <1>12
       DEF Next

(* Only GetConsistent and the writes give a request a value. *)
LEMMA ValuesNext == TypeOK /\ ValuesInv /\ Next => ValuesInv'
  <1> SUFFICES ASSUME TypeOK, ValuesInv, Next PROVE ValuesInv'
    OBVIOUS
  <1>0. req \in [Requests -> Request]
    BY DEF TypeOK
  <1>1. ASSUME NEW r \in Requests,
               \/ Get(r) \/ Load(r) \/ GetFast(r) \/ GetConsistent(r)
               \/ Fill(r)
        PROVE  ValuesInv'
    BY <1>0, <1>1 DEF Get, Load, GetFast, GetConsistent, Fill, ValuesInv,
                      Request
  <1>2. ASSUME NEW r \in Requests,
               SetItem(r) \/ Delete(r) \/ DeleteAll(r)
        PROVE  ValuesInv'
    <2>1. PICK v : Written(r, v)
      BY <1>2 DEF SetItem, Delete, DeleteAll
    <2> QED
      BY <2>1, WrittenFields DEF ValuesInv
  <1>3. ASSUME NEW r \in Requests,
               ReadClock(r) \/ Compare(r) \/ WriteStamp(r) \/ End(r)
        PROVE  ValuesInv'
    <2>1. CASE Compare(r)
      BY <1>0, <2>1 DEF Compare, ValuesInv, Request
    <2>2. CASE WriteStamp(r)
      BY <1>0, <2>2 DEF WriteStamp, ValuesInv, Request
    <2>3. CASE End(r)
      BY <1>0, <2>3 DEF End, NewRequest, ValuesInv, Request
    <2>4. CASE ReadClock(r)
      BY <1>0, <2>4 DEF ReadClock, ValuesInv, Request
    <2> QED
      BY <1>3, <2>1, <2>2, <2>3, <2>4
  <1>4. ASSUME NEW n \in Nodes, Evict(n) PROVE ValuesInv'
    BY <1>4 DEF Evict, ValuesInv
  <1>5. CASE Tick
    BY <1>5 DEF Tick, ValuesInv
  <1> QED
    BY <1>1, <1>2, <1>3, <1>4, <1>5 DEF Next

(* The reasons why a copy may be stale, as a function of when it was made. *)
Cause(created) ==
  \/ highest > created
  \/ lostAt >= created
  \/ \E r \in Requests : Unstamped(r, created)

(* A cause is there until the write is stamped or lost, which is one, too. *)
LEMMA CauseKept ==
  ASSUME TypeOK, TimesInv, Next, NEW created \in Nat, created <= now,
         Cause(created)
  PROVE  Cause(created)'
  <1> USE ChainedFastAssumption
  <1>0. /\ now \in Nat /\ stamp \in Nat /\ stamp <= highest
        /\ highest \in Nat /\ lostAt \in Nat
        /\ req \in [Requests -> Request]
        /\ \A r \in Requests :
             /\ req[r].wroteAt \in Nat /\ req[r].last \in Nat \cup {Unknown}
             /\ req[r].mark \in Nat
        /\ \A r \in Requests :
             req[r].at \in {"fast", "compare", "stamp"} => req[r].last # Unknown
    BY DEF TypeOK, Request
  <1> DEFINE Others(r) ==
        \A s \in Requests \ {r} :
          Unstamped(s, created) => Unstamped(s, created)'
  <1>1. ASSUME NEW r \in Requests,
               Get(r) \/ GetFast(r) \/ GetConsistent(r) \/ Fill(r)
        PROVE  Cause(created)'
    <2>1. /\ ~Writing(r) /\ Others(r)
          /\ UNCHANGED <<highest, lostAt>>
      BY <1>0, <1>1 DEF Get, GetFast, GetConsistent, Fill, Writing, At,
                        Unstamped, Request
    <2> QED
      BY <2>1 DEF Cause, Unstamped
  <1>2. ASSUME NEW r \in Requests, Load(r) \/ ReadClock(r)
        PROVE  Cause(created)'
    <2>1. /\ \A s \in Requests : Unstamped(s, created)
                                  => Unstamped(s, created)'
          /\ UNCHANGED <<highest, lostAt>>
      BY <1>0, <1>2 DEF Load, ReadClock, LoadOr, Writing, At, Unstamped, Request
    <2> QED
      BY <2>1 DEF Cause
  <1>3. ASSUME NEW r \in Requests,
               SetItem(r) \/ Delete(r) \/ DeleteAll(r)
        PROVE  Cause(created)'
    <2>1. PICK v : Written(r, v)
      BY <1>3 DEF SetItem, Delete, DeleteAll
    <2>2. UNCHANGED <<highest, lostAt>>
      BY <1>3 DEF SetItem, Delete, DeleteAll
    <2>3. Unstamped(r, created)'
      BY <1>0, <2>1, WrittenFields DEF Unstamped, Writing, At
    <2> QED
      BY <2>2, <2>3 DEF Cause
  <1>4. ASSUME NEW r \in Requests, Compare(r) PROVE Cause(created)'
    <2>1. Others(r) /\ UNCHANGED <<highest, lostAt>>
      BY <1>0, <1>4 DEF Compare, Writing, At, Unstamped, Request
    <2>2. CASE req[r].mark > req[r].last
      <3>1. Unstamped(r, created) => Unstamped(r, created)'
        BY <1>0, <1>4, <2>2 DEF Compare, Writing, At, Unstamped, Request
      <3> QED
        BY <2>1, <3>1 DEF Cause
    <2>3. CASE ~(req[r].mark > req[r].last)
      <3>1. Unstamped(r, created) => highest > created
        BY <1>0, <1>4, <2>3 DEF Compare, TimesInv, Marked, Unstamped, At
      <3> QED
        BY <2>1, <3>1 DEF Cause
    <2> QED
      BY <2>2, <2>3
  <1>5. ASSUME NEW r \in Requests, WriteStamp(r) PROVE Cause(created)'
    <2>1. Others(r) /\ UNCHANGED lostAt
      BY <1>0, <1>5 DEF WriteStamp, Writing, At, Unstamped, Request
    <2>2. highest' >= highest /\ highest' >= req[r].last /\ highest' \in Nat
      BY <1>0, <1>5 DEF WriteStamp, At
    <2>3. Unstamped(r, created) => highest' > created
      BY <1>0, <1>5, <2>2 DEF WriteStamp, TimesInv, Unstamped, At
    <2> QED
      BY <1>0, <2>1, <2>2, <2>3 DEF Cause
  <1>6. ASSUME NEW r \in Requests, End(r) PROVE Cause(created)'
    <2>1. Others(r) /\ UNCHANGED highest
      BY <1>0, <1>6 DEF End, Writing, At, Unstamped, Request
    <2>2. /\ lostAt' >= lostAt
          /\ Unstamped(r, created) => lostAt' >= created
          /\ lostAt' \in Nat
      BY <1>0, <1>6 DEF End, Unstamped
    <2> QED
      BY <1>0, <2>1, <2>2 DEF Cause
  <1>7. ASSUME NEW n \in Nodes, Evict(n) PROVE Cause(created)'
    BY <1>7 DEF Evict, Cause, Unstamped, Writing, At
  <1>8. CASE Tick
    BY <1>8 DEF Tick, Cause, Unstamped, Writing, At
  <1> QED
    BY <1>1, <1>2, <1>3, <1>4, <1>5, <1>6, <1>7, <1>8 DEF Next

(* A write is a cause for every copy there is. *)
LEMMA CopiesNext == Inv /\ Next => CopiesInv'
  <1> SUFFICES ASSUME Inv, Next, NEW n \in Nodes, Stale(n)'
               PROVE  Cause(fast[n].created)'
    BY DEF CopiesInv, Cause
  <1>0. /\ now \in Nat /\ fast \in [Nodes -> Copy \cup {Nothing}]
        /\ req \in [Requests -> Request]
        /\ \A r \in Requests : At(r, "fill") => req[r].value # Nothing
        /\ TypeOK /\ TimesInv
    BY DEF Inv, TypeOK
  <1>1. CASE fast'[n] = fast[n] /\ row' = row
    <2>1. Stale(n)
      BY <1>1 DEF Stale
    <2>2. /\ fast[n].created \in Nat /\ fast[n].created <= now
          /\ Cause(fast[n].created)
      BY <1>0, <2>1 DEF Inv, CopiesInv, Cause, Stale, TimesInv, Copy
    <2>3. \A c \in Nat : c <= now /\ Cause(c) => Cause(c)'
      BY <1>0, CauseKept
    <2>4. PICK c \in Nat : c = fast[n].created /\ c = fast'[n].created
      BY <1>1, <2>2
    <2>5. Cause(c)'
      BY <2>2, <2>3, <2>4
    <2> QED
      BY <2>4, <2>5 DEF Cause, Unstamped
  <1>2. CASE row' # row
    <2>1. PICK r \in Requests : SetItem(r) \/ Delete(r) \/ DeleteAll(r)
      BY <1>2 DEF Next, Get, Load, GetFast, GetConsistent, Fill, ReadClock,
                  Compare, WriteStamp, End, Evict, Tick
    <2>2. PICK v : Written(r, v)
      BY <2>1 DEF SetItem, Delete, DeleteAll
    <2>3. fast' = fast
      BY <2>1 DEF SetItem, Delete, DeleteAll
    <2>4. fast[n].created <= now
      BY <1>0, <2>3 DEF Stale, TimesInv
    <2>5. Writing(r)' /\ req'[r].wroteAt = now
      BY <1>0, <2>2, WrittenFields DEF Writing, At
    <2> QED
      BY <1>0, <2>3, <2>4, <2>5 DEF Cause, Unstamped
  <1>3. CASE fast'[n] # fast[n] /\ row' = row
    <2>1. CASE \E m \in Nodes : Evict(m)
      BY <1>0, <1>3, <2>1 DEF Evict, Stale
    <2>2. ASSUME NEW r \in Requests, Fill(r) PROVE FALSE
      <3>1. fast'[n] = [value |-> req[r].value, created |-> now,
                        raced |-> req[r].raced]
        BY <1>0, <1>3, <2>2 DEF Fill
      <3>2. req[r].value # Nothing
        BY <1>0, <2>2 DEF Fill
      <3> QED
        BY <1>3, <3>1, <3>2 DEF Stale, Inv, ValuesInv
    <2> QED
      BY <1>3, <2>1, <2>2 DEF Next, Get, Load, GetFast, GetConsistent, SetItem,
         Delete, DeleteAll, ReadClock, Compare, WriteStamp, End, Evict, Tick
  <1> QED
    BY <1>1, <1>2, <1>3

(* The invariant holds in every reachable state.                           *)
LEMMA InvAlways == Spec => []Inv
  <1>1. Inv /\ [Next]_vars => Inv'
    BY InvStutter, TypeNext, TimesNext, ValuesNext, CopiesNext DEF Inv
  <1> QED
    BY InvInit, <1>1, PTL DEF Spec

(* Every reachable state is well typed: among others, a request decides    *)
(* whether a copy is new enough, or a stamp later, only after it has       *)
(* loaded the timestamp.                                                   *)
THEOREM RequestsWellTyped == Spec => []TypeOK
  <1>1. Inv => TypeOK
    BY DEF Inv
  <1> QED
    BY InvAlways, <1>1, PTL

(* Whatever the number of requests and nodes: when a reader gets an old    *)
(* value from the fast backend, the value was copied after another write,  *)
(* or a write made since the copy is not stamped yet or never was, or an   *)
(* earlier stamp has replaced one later than the copy.                     *)
THEOREM StaleCopiesExplained == Spec => []StaleHasCause
  <1>1. Inv => StaleHasCause
    <2> SUFFICES ASSUME Inv, NEW n \in Nodes, Usable(n),
                        fast[n].value # row, ~fast[n].raced
                 PROVE  Cause(fast[n].created)
      BY DEF StaleHasCause, Cause, Unstamped
    <2>1. Stale(n)
      BY DEF Usable, Newer, Stale
    <2> QED
      BY <2>1 DEF Inv, CopiesInv, Cause
  <1> QED
    BY InvAlways, <1>1, PTL
================================================================================
