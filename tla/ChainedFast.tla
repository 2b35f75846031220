------------------------------ MODULE ChainedFast ------------------------------
(***************************************************************************)
(* ChainedFastBackend: the item of one cache id in a consistent backend    *)
(* that all web nodes share, a copy of it in the fast backend (APCu) of    *)
(* each node, and the timestamp of the last write in the consistent        *)
(* backend by which a reader tells which copies to discard.                *)
(***************************************************************************)
EXTENDS Integers

CONSTANTS
  Requests,   \* PHP requests; a request that ended begins again
  Nodes,      \* web nodes, each with its APCu
  NodeOf,     \* request -> the node it runs on
  Nothing,    \* no item, or no answer
  Unknown,    \* $this->lastWriteTimestamp === NULL
  MaxVersion, \* bound: how many values are ever set
  MaxTime     \* bound: the clock stops there

ASSUME ChainedFastAssumption ==
  /\ NodeOf \in [Requests -> Nodes]
  /\ MaxVersion \in Nat
  /\ MaxTime \in Nat \ {0}
  /\ Nothing \notin Nat
  /\ Unknown \notin Nat

VARIABLES
  now,        \* microtime() in ms, rounded, on every node
  row,        \* the valid item in the consistent backend: its value
  stamp,      \* the row last_write_timestamp_<bin>: 0 if there is none
  fast,       \* node -> the copy in APCu: value and created
  version,    \* how many values were ever set: values are numbered
  req,        \* request -> its state, see Request
  highest,    \* auxiliary: the highest stamp ever written
  lostAt      \* auxiliary: the time of the last write that was never stamped
              \* because its request died

vars == <<now, row, stamp, fast, version, req, highest, lostAt>>

Values == 1..MaxVersion

(* "raced" is auxiliary: a write to the consistent backend came between    *)
(* the read of the value there and its copy to the fast one.               *)
Copy == [value : Values, created : Nat, raced : BOOLEAN]

(***************************************************************************)
(* "at" is what the request does next, "for" what it loads the timestamp   *)
(* for: a get() or a write.  "last" is $this->lastWriteTimestamp, "mark"   *)
(* the $now of markAsOutdated(), 0 outside of it, "value" what it is to    *)
(* copy to the fast backend.  "raced" and "wroteAt" are auxiliary: the     *)
(* consistent backend was written since the value was read or written      *)
(* there; the time of its write that is being marked, 0 for none.          *)
(***************************************************************************)
Request ==
  [at     : {"idle", "load", "fast", "slow", "fill", "mark", "compare",
             "stamp"},
   for    : {"get", "write"},
   last   : Nat \cup {Unknown},
   mark   : Nat,
   value  : Values \cup {Nothing},
   raced  : BOOLEAN,
   wroteAt : Nat]

NewRequest == [at |-> "idle", for |-> "get", last |-> Unknown,
               mark |-> 0, value |-> Nothing, raced |-> FALSE, wroteAt |-> 0]

At(r, place) == req[r].at = place

(* getLastWriteTimestamp() asks the backend once in a request. *)
LoadOr(r, place) == IF req[r].last = Unknown THEN "load" ELSE place

Init ==
  /\ now = 1
  /\ row = Nothing
  /\ stamp = 0
  /\ fast = [n \in Nodes |-> Nothing]
  /\ version = 0
  /\ req = [r \in Requests |-> NewRequest]
  /\ highest = 0
  /\ lostAt = 0

--------------------------------------------------------------------------------
(* getMultiple(), of one id *)

Get(r) ==
  /\ At(r, "idle")
  /\ req' = [req EXCEPT ![r].at = LoadOr(r, "fast"), ![r].for = "get"]
  /\ UNCHANGED <<now, row, stamp, fast, version, highest, lostAt>>

Load(r) ==
  /\ At(r, "load")
  /\ req' = [req EXCEPT ![r].last = stamp,
                        ![r].at = IF req[r].for = "get" THEN "fast"
                                  ELSE "compare"]
  /\ UNCHANGED <<now, row, stamp, fast, version, highest, lostAt>>

(* A copy older than the last write is discarded; if the time of the last  *)
(* write is not known (0), any copy is.                                    *)
Newer(copy, last) == copy # Nothing /\ last # 0 /\ copy.created >= last

GetFast(r) ==
  LET copy == fast[NodeOf[r]]
  IN
  /\ At(r, "fast")
  /\ req' = [req EXCEPT ![r] =
       IF Newer(copy, req[r].last)
       THEN [@ EXCEPT !.at = "idle"]
       ELSE [@ EXCEPT !.at = "slow"]]
  /\ UNCHANGED <<now, row, stamp, fast, version, highest, lostAt>>

GetConsistent(r) ==
  /\ At(r, "slow")
  /\ req' = [req EXCEPT ![r].at = IF row = Nothing THEN "idle" ELSE "fill",
                        ![r].value = row, ![r].raced = FALSE]
  /\ UNCHANGED <<now, row, stamp, fast, version, highest, lostAt>>

(* fastBackend->set(), of what was read or of what was written. *)
Fill(r) ==
  /\ At(r, "fill")
  /\ fast' = [fast EXCEPT ![NodeOf[r]] =
       [value |-> req[r].value, created |-> now, raced |-> req[r].raced]]
  /\ req' = [req EXCEPT ![r].at = "idle", ![r].value = Nothing,
                        ![r].raced = FALSE]
  /\ UNCHANGED <<now, row, stamp, version, highest, lostAt>>

--------------------------------------------------------------------------------
(* set() and the operations that remove the item *)

(* The consistent backend now holds v, which goes to the fast one later.   *)
Written(r, v) ==
  /\ row' = v
  /\ req' = [s \in Requests |->
       IF s = r
       THEN [req[r] EXCEPT !.at = "mark", !.for = "write",
                           !.value = v, !.raced = FALSE, !.wroteAt = now]
       ELSE [req[s] EXCEPT !.raced = req[s].value # Nothing]]

SetItem(r) ==
  /\ At(r, "idle")
  /\ version < MaxVersion
  /\ version' = version + 1
  /\ Written(r, version')
  /\ UNCHANGED <<now, stamp, fast, highest, lostAt>>

(* delete(): the copies stay. *)
Delete(r) ==
  /\ At(r, "idle")
  /\ row # Nothing
  /\ Written(r, Nothing)
  /\ UNCHANGED <<now, stamp, fast, version, highest, lostAt>>

(* deleteAll() also deletes the row of the timestamp. *)
DeleteAll(r) ==
  /\ At(r, "idle")
  /\ row # Nothing \/ stamp # 0
  /\ Written(r, Nothing)
  /\ stamp' = 0
  /\ UNCHANGED <<now, fast, version, highest, lostAt>>

(* Mutant of Mark: not one millisecond later. *)
MarkNow == now

(* round(microtime(TRUE) + .001, 3) *)
Mark == now + 1

(* markAsOutdated() reads the clock before it asks for the last stamp.     *)
ReadClock(r) ==
  /\ At(r, "mark")
  /\ req' = [req EXCEPT ![r].mark = Mark, ![r].at = LoadOr(r, "compare")]
  /\ UNCHANGED <<now, row, stamp, fast, version, highest, lostAt>>

(* Mutant of AfterMark: the fast backend is written after a removal, too.  *)
AlwaysFill(r) == "fill"

(* A set() writes its value to the fast backend as well. *)
AfterMark(r) == IF req[r].value = Nothing THEN "idle" ELSE "fill"

(* Only a later timestamp is written. *)
Compare(r) ==
  /\ At(r, "compare")
  /\ req' = [req EXCEPT ![r] =
       IF req[r].mark > req[r].last
       THEN [@ EXCEPT !.at = "stamp", !.last = req[r].mark, !.mark = 0]
       ELSE [@ EXCEPT !.at = AfterMark(r), !.mark = 0, !.wroteAt = 0]]
  /\ UNCHANGED <<now, row, stamp, fast, version, highest, lostAt>>

WriteStamp(r) ==
  /\ At(r, "stamp")
  /\ stamp' = req[r].last
  /\ highest' = IF stamp' > highest THEN stamp' ELSE highest
  /\ req' = [req EXCEPT ![r].at = AfterMark(r), ![r].wroteAt = 0]
  /\ UNCHANGED <<now, row, fast, version, lostAt>>

--------------------------------------------------------------------------------
(* The environment *)

(* The request has written the consistent backend and not yet the stamp. *)
Writing(r) ==
  \/ At(r, "mark")
  \/ At(r, "load") /\ req[r].for = "write"
  \/ At(r, "compare")
  \/ At(r, "stamp")

(* The request ends, or its process dies; the next one loads everything.   *)
End(r) ==
  /\ req[r] # NewRequest
  /\ req' = [req EXCEPT ![r] = NewRequest]
  /\ lostAt' = IF Writing(r) /\ req[r].wroteAt > lostAt THEN req[r].wroteAt
               ELSE lostAt
  /\ UNCHANGED <<now, row, stamp, fast, version, highest>>

(* APCu drops an entry, or the node restarts. *)
Evict(n) ==
  /\ fast[n] # Nothing
  /\ fast' = [fast EXCEPT ![n] = Nothing]
  /\ UNCHANGED <<now, row, stamp, version, req, highest, lostAt>>

Tick ==
  /\ now < MaxTime
  /\ now' = now + 1
  /\ UNCHANGED <<row, stamp, fast, version, req, highest, lostAt>>

Next ==
  \/ \E r \in Requests :
       \/ Get(r) \/ Load(r) \/ GetFast(r) \/ GetConsistent(r) \/ Fill(r)
       \/ SetItem(r) \/ Delete(r) \/ DeleteAll(r) \/ ReadClock(r)
       \/ Compare(r) \/ WriteStamp(r) \/ End(r)
  \/ \E n \in Nodes : Evict(n)
  \/ Tick

Spec == Init /\ [][Next]_vars

--------------------------------------------------------------------------------
(* Properties *)

TypeOK ==
  /\ now \in 1..MaxTime
  /\ row \in Values \cup {Nothing}
  /\ stamp \in Nat /\ stamp <= highest
  /\ fast \in [Nodes -> Copy \cup {Nothing}]
  /\ version \in 0..MaxVersion
  /\ req \in [Requests -> Request]
  /\ \A r \in Requests :
       /\ At(r, "fill") => req[r].value # Nothing
       /\ req[r].at \in {"fast", "compare", "stamp"} => req[r].last # Unknown
  /\ highest \in Nat
  /\ lostAt \in Nat

(* A request that starts on n now would return the copy there. *)
Usable(n) == Newer(fast[n], stamp)

(* A copy that a reader takes for good is the item of the consistent       *)
(* backend, save for four reasons: its value was read before a write and   *)
(* copied after it, a write made since is not stamped yet or never was, or *)
(* a slow writer has put an earlier stamp over one that was later than the *)
(* copy.                                                                   *)
StaleHasCause ==
  \A n \in Nodes :
    Usable(n) /\ fast[n].value # row
      => \/ fast[n].raced
         \/ \E r \in Requests : Writing(r) /\ req[r].wroteAt >= fast[n].created
         \/ lostAt >= fast[n].created
         \/ highest > fast[n].created

(* The comment on the class: "Hence we can guarantee that the cache        *)
(* entries we return are all up-to-date".  Asked only when no write is     *)
(* under way and none was lost.                                            *)
UpToDate ==
  (\A r \in Requests : ~Writing(r)) /\ lostAt = 0 =>
    \A n \in Nodes : Usable(n) => fast[n].value = row
================================================================================
