----------------------------- MODULE DatabaseLock -----------------------------
(***************************************************************************)
(* The lock service of Drupal core: DatabaseLockBackend, with the wait()   *)
(* of LockBackendAbstract.  Every request is a PHP process with its own    *)
(* lock id and its own memory of the locks it took; the requests share     *)
(* one row per lock name in the table "semaphore".  Each action is at most *)
(* one database statement, so between any two of them other requests run,  *)
(* the clock advances or a process is killed.                              *)
(***************************************************************************)
EXTENDS Integers, FiniteSets

CONSTANTS
  Requests,    \* the processes; a request's lock id is the request itself
  Names,       \* lock names, after normalizeName()
  NoRow,       \* a name without a row in {semaphore}
  Timeouts,    \* the lock lifetimes callers ask acquire() for
  Delays,      \* the delays callers ask wait() for
  MinTimeout,  \* the 0.001 s acquire() raises a shorter timeout to
  Epsilon,     \* the 0.0001 s lockMayBeAvailable() adds, in clock ticks
  SleepStep,   \* first sleep of wait(), and the step it grows by (25 ms)
  MaxSleep,    \* longest sleep of wait() (500 ms)
  MaxClock     \* bound: the clock stops there

ASSUME RowAssumption == NoRow \notin [value : Requests, expire : Nat]

ASSUME TimeAssumption ==
  /\ Timeouts \subseteq Nat
  /\ Delays \subseteq Nat \ {0}
  /\ MinTimeout \in Nat
  /\ Epsilon \in Nat
  /\ SleepStep \in Nat \ {0}
  /\ MaxSleep \in Nat \ {0}
  /\ MaxClock \in Nat

VARIABLES
  clock,      \* microtime(TRUE) of the web server
  semaphore,  \* the table: name -> NoRow or [value, expire]
  locks,      \* request -> the keys of $this->locks
  frame,      \* request -> where its call of the service stands, see Frame
  lease       \* auxiliary: request -> name -> the expire it last wrote there

vars == <<clock, semaphore, locks, frame, lease>>

Row == [value : Requests, expire : Nat]

(***************************************************************************)
(* A frame holds the local variables of the call a request is executing.   *)
(* "at" is the statement it executes next and "caller" what runs           *)
(* lockMayBeAvailable(): acquire(), wait() or the request itself.          *)
(***************************************************************************)
Places == {"extend", "insert", "remember", "select", "break", "sleep"}

Frame == [at     : Places,
          caller : {"acquire", "wait", "request"},
          name   : Names,
          expire : Nat,      \* $expire of acquire()
          retry  : BOOLEAN,  \* $retry of acquire()
          seen   : Nat,      \* expire of the row lockMayBeAvailable() read
          victim : Requests, \* value of that row
          delay  : Nat,      \* $delay of wait()
          sleep  : Nat]      \* $sleep of wait()

(* A request outside the service; "ended" and "killed" stay so for ever. *)
Outside == [at : {"idle", "ended", "killed"}]

At(p, place) == frame[p].at = place
Calling(p) == frame[p].at \in Places
NameOf(p) == frame[p].name
Goto(p, place) == frame' = [frame EXCEPT ![p].at = place]
Leave(p, how) == frame' = [frame EXCEPT ![p] = [at |-> how]]

(* The frame of a call by p about the lock n that starts at a statement. *)
Call(p, n, caller, place) ==
  [at |-> place, caller |-> caller, name |-> n, expire |-> 0, retry |-> FALSE,
   seen |-> 0, victim |-> p, delay |-> 0, sleep |-> 0]

Larger(a, b) == IF a >= b THEN a ELSE b
Smaller(a, b) == IF a <= b THEN a ELSE b

(* Mutant of OwnRow: the condition on the value is forgotten. *)
AnyRow(p, n) == semaphore[n] # NoRow

(* The row an UPDATE or DELETE WHERE name = n AND value = p matches. *)
OwnRow(p, n) == semaphore[n] # NoRow /\ semaphore[n].value = p

Init ==
  /\ clock = 0
  /\ semaphore = [n \in Names |-> NoRow]
  /\ locks = [p \in Requests |-> {}]
  /\ frame = [p \in Requests |-> [at |-> "idle"]]
  /\ lease = [p \in Requests |-> [n \in Names |-> 0]]

--------------------------------------------------------------------------------
(* acquire() *)

(* The request asks for n, or asks to keep it longer; $expire is computed  *)
(* here and not again, however long the statements below take.             *)
BeginAcquire(p, n, timeout) ==
  /\ At(p, "idle")
  /\ frame' = [frame EXCEPT
       ![p] = [Call(p, n, "acquire", IF n \in locks[p] THEN "extend"
                                                       ELSE "insert")
               EXCEPT !.expire = clock + Larger(timeout, MinTimeout)]]
  /\ UNCHANGED <<clock, semaphore, locks, lease>>

(* UPDATE of the own row: the lease moves, or the lock was broken. *)
Extend(p) ==
  LET n == NameOf(p) IN
  /\ At(p, "extend")
  /\ IF OwnRow(p, n)
     THEN /\ semaphore' = [semaphore EXCEPT ![n].expire = frame[p].expire]
          /\ lease' = [lease EXCEPT ![p][n] = frame[p].expire]
          /\ UNCHANGED locks
     ELSE /\ locks' = [locks EXCEPT ![p] = @ \ {n}]
          /\ lease' = [lease EXCEPT ![p][n] = 0]
          /\ UNCHANGED semaphore
  /\ Leave(p, "idle")
  /\ UNCHANGED clock

(* Mutant of Insert: a MERGE, which overwrites the row of another request. *)
Upsert(p) ==
  /\ At(p, "insert")
  /\ semaphore' = [semaphore EXCEPT
        ![NameOf(p)] = [value |-> p, expire |-> frame[p].expire]]
  /\ lease' = [lease EXCEPT ![p][NameOf(p)] = frame[p].expire]
  /\ Goto(p, "remember")
  /\ UNCHANGED <<clock, locks>>

(* INSERT of a row for a name that has none. *)
Insert(p) ==
  LET n == NameOf(p) IN
  /\ At(p, "insert")
  /\ semaphore[n] = NoRow
  /\ semaphore' = [semaphore EXCEPT
                     ![n] = [value |-> p, expire |-> frame[p].expire]]
  /\ lease' = [lease EXCEPT ![p][n] = frame[p].expire]
  /\ Goto(p, "remember")
  /\ UNCHANGED <<clock, locks>>

(* Mutant of Remember: a lock got by the retry is not recorded. *)
RememberFirstTry(p) ==
  /\ At(p, "remember")
  /\ locks' = IF frame[p].retry THEN locks
              ELSE [locks EXCEPT ![p] = @ \cup {NameOf(p)}]
  /\ Leave(p, "idle")
  /\ UNCHANGED <<clock, semaphore, lease>>

(* $this->locks[$name] = TRUE, and acquire() returns. *)
Remember(p) ==
  /\ At(p, "remember")
  /\ locks' = [locks EXCEPT ![p] = @ \cup {NameOf(p)}]
  /\ Leave(p, "idle")
  /\ UNCHANGED <<clock, semaphore, lease>>

(* Mutant of InsertConflict: the loop has no "retry only once". *)
InsertConflictForever(p) ==
  /\ At(p, "insert")
  /\ semaphore[NameOf(p)] # NoRow
  /\ Goto(p, "select")
  /\ UNCHANGED <<clock, semaphore, locks, lease>>

(* INSERT fails on the primary key: the first time lockMayBeAvailable()    *)
(* decides whether to retry, the second time acquire() gives up.           *)
InsertConflict(p) ==
  /\ At(p, "insert")
  /\ semaphore[NameOf(p)] # NoRow
  /\ IF frame[p].retry THEN Leave(p, "idle") ELSE Goto(p, "select")
  /\ UNCHANGED <<clock, semaphore, locks, lease>>

--------------------------------------------------------------------------------
(* lockMayBeAvailable() *)

BeginCheck(p, n) ==
  /\ At(p, "idle")
  /\ frame' = [frame EXCEPT ![p] = Call(p, n, "request", "select")]
  /\ UNCHANGED <<clock, semaphore, locks, lease>>

(* Where lockMayBeAvailable() takes p back to: a retry of the INSERT, the  *)
(* next sleep of wait(), or out of the service.                            *)
Return(p, available) ==
  LET f == frame[p] IN
  CASE f.caller = "acquire" /\ available ->
         frame' = [frame EXCEPT ![p] = Call(p, f.name, "acquire", "insert"),
                                ![p].expire = f.expire,
                                ![p].retry = TRUE]
    [] f.caller = "wait" /\ ~available /\ f.delay > 0 ->
         frame' = [frame EXCEPT ![p] = Call(p, f.name, "wait", "sleep"),
                                ![p].delay = f.delay,
                                ![p].sleep = f.sleep]
    [] OTHER -> Leave(p, "idle")

(* SELECT: no row, so the lock may be available, or a row to judge. *)
Select(p) ==
  LET row == semaphore[NameOf(p)] IN
  /\ At(p, "select")
  /\ IF row = NoRow
     THEN Return(p, TRUE)
     ELSE frame' = [frame EXCEPT ![p].at = "break",
                                 ![p].seen = row.expire,
                                 ![p].victim = row.value]
  /\ UNCHANGED <<clock, semaphore, locks, lease>>

(* The row read has not expired by the clock. *)
SeenAlive(p) ==
  /\ At(p, "break")
  /\ clock <= frame[p].seen
  /\ Return(p, FALSE)
  /\ UNCHANGED <<clock, semaphore, locks, lease>>

(* Mutant of Breakable: the DELETE does not look at the expire. *)
BreakableByOwner(p) ==
  /\ semaphore[NameOf(p)] # NoRow
  /\ semaphore[NameOf(p)].value = frame[p].victim

(* The DELETE of lockMayBeAvailable() matches: the row is the victim's and *)
(* was not given a later expire since it was read.                         *)
Breakable(p) ==
  LET row == semaphore[NameOf(p)] IN
  /\ row # NoRow
  /\ row.value = frame[p].victim
  /\ row.expire <= frame[p].seen + Epsilon

(* The row read had expired: it is deleted if it is still the same.  The   *)
(* clock only grows, so reading it together with the DELETE allows every   *)
(* outcome that reading it before does.                                    *)
BreakExpired(p) ==
  /\ At(p, "break")
  /\ clock > frame[p].seen
  /\ semaphore' = IF Breakable(p)
                  THEN [semaphore EXCEPT ![NameOf(p)] = NoRow]
                  ELSE semaphore
  /\ Return(p, Breakable(p))
  /\ UNCHANGED <<clock, locks, lease>>

--------------------------------------------------------------------------------
(* wait() *)

BeginWait(p, n, delay) ==
  /\ At(p, "idle")
  /\ frame' = [frame EXCEPT
       ![p] = [Call(p, n, "wait", "sleep") EXCEPT !.delay = delay,
                                                  !.sleep = SleepStep]]
  /\ UNCHANGED <<clock, semaphore, locks, lease>>

(* Mutant of Sleep: the delay is charged twice and passes below zero. *)
SleepTwice(p) ==
  /\ At(p, "sleep")
  /\ frame' = [frame EXCEPT ![p].at = "select",
                            ![p].delay = @ - 2 * frame[p].sleep]
  /\ UNCHANGED <<clock, semaphore, locks, lease>>

(* usleep(); the next, longer sleep is computed from the delay left, where *)
(* 0 stands for every delay that ends the loop.                            *)
Sleep(p) ==
  LET left == Larger(0, frame[p].delay - frame[p].sleep)
      next == Smaller(Smaller(MaxSleep, frame[p].sleep + SleepStep), left)
  IN
  /\ At(p, "sleep")
  /\ frame' = [frame EXCEPT ![p].at = "select", ![p].delay = left,
                            ![p].sleep = next]
  /\ UNCHANGED <<clock, semaphore, locks, lease>>

--------------------------------------------------------------------------------
(* release(), the end of a request, and the environment *)

(* The memory is private to the process, so unset() and DELETE are one     *)
(* step: nobody can tell a kill between them from one before both.         *)
Release(p, n) ==
  /\ At(p, "idle")
  /\ locks' = [locks EXCEPT ![p] = @ \ {n}]
  /\ semaphore' = IF OwnRow(p, n) THEN [semaphore EXCEPT ![n] = NoRow]
                                  ELSE semaphore
  /\ lease' = [lease EXCEPT ![p][n] = 0]
  /\ UNCHANGED <<clock, frame>>

(* The memory of the process is gone. *)
Forget(p) ==
  /\ locks' = [locks EXCEPT ![p] = {}]
  /\ lease' = [lease EXCEPT ![p] = [n \in Names |-> 0]]

(* One DELETE of every row with the lock id, only if the request remembers *)
(* that it took a lock.                                                    *)
releaseAll(p) ==
  /\ semaphore' = [n \in Names |-> IF locks[p] # {} /\ OwnRow(p, n)
                                   THEN NoRow ELSE semaphore[n]]
  /\ Forget(p)

(* The request ends and its shutdown functions run. *)
End(p) ==
  /\ At(p, "idle")
  /\ releaseAll(p)
  /\ Leave(p, "ended")
  /\ UNCHANGED clock

(* A fatal error strikes inside the service, say the time limit of the     *)
(* request; PHP still runs the shutdown functions.                         *)
Fatal(p) ==
  /\ Calling(p)
  /\ releaseAll(p)
  /\ Leave(p, "killed")
  /\ UNCHANGED clock

(* A killed process runs no shutdown function. *)
Kill(p) ==
  /\ Calling(p) \/ At(p, "idle")
  /\ Forget(p)
  /\ Leave(p, "killed")
  /\ UNCHANGED <<clock, semaphore>>

Tick ==
  /\ clock < MaxClock
  /\ clock' = clock + 1
  /\ UNCHANGED <<semaphore, locks, frame, lease>>

(* The statements of a call under way. *)
Continue(p) ==
  \/ Extend(p) \/ Insert(p) \/ Remember(p) \/ InsertConflict(p)
  \/ Select(p) \/ SeenAlive(p) \/ BreakExpired(p)
  \/ Sleep(p)

Begin(p, n) ==
  \/ \E t \in Timeouts : BeginAcquire(p, n, t)
  \/ \E d \in Delays : BeginWait(p, n, d)
  \/ BeginCheck(p, n)
  \/ Release(p, n)

Next ==
  \/ \E p \in Requests :
       \/ Continue(p)
       \/ End(p) \/ Fatal(p) \/ Kill(p)
       \/ \E n \in Names : Begin(p, n)
  \/ Tick

(* PHP keeps executing the statements of a call it entered.  Nothing else  *)
(* is owed: requests need not call, end or die, and the clock may stand.   *)
Fairness == \A p \in Requests : WF_vars(Continue(p))

Spec == Init /\ [][Next]_vars

FairSpec == Spec /\ Fairness

--------------------------------------------------------------------------------
(* Properties *)

TypeOK ==
  /\ clock \in Nat
  /\ semaphore \in [Names -> Row \cup {NoRow}]
  /\ locks \in [Requests -> SUBSET Names]
  /\ frame \in [Requests -> Frame \cup Outside]
  /\ lease \in [Requests -> [Names -> Nat]]

(* The request runs the code a lock guards, or is about to: it remembers   *)
(* the lock or has just inserted its row.                                  *)
Holds(p, n) ==
  \/ n \in locks[p]
  \/ At(p, "remember") /\ NameOf(p) = n

(* By the clock, and but for the epsilon, the lease still runs. *)
Current(p, n) == Holds(p, n) /\ clock + Epsilon <= lease[p][n]

(* A lock whose lease still runs is in the table, with the expire its      *)
(* holder asked for last: no wait() or acquire() of another request, acting *)
(* on a row it read long ago, takes it away (lockMayBeAvailable()).        *)
LeaseHonoured ==
  \A p \in Requests, n \in Names :
    Current(p, n) => semaphore[n] = [value |-> p, expire |-> lease[p][n]]

(* Two requests never both hold a lock with time left on it, whatever      *)
(* races, kills and late statements there were (acquire()).                *)
MutualExclusion ==
  \A p, q \in Requests, n \in Names :
    Current(p, n) /\ Current(q, n) => p = q

(* A row is remembered by the request it names, or that request was cut    *)
(* off: so a request never waits for itself, and one that ends leaves no   *)
(* row behind although releaseAll() trusts its memory (releaseAll()).      *)
NoStrayRow ==
  \A p \in Requests, n \in Names :
    OwnRow(p, n) => Holds(p, n) \/ At(p, "killed")

(* Every call returns, even if other requests take and free the lock for   *)
(* ever: acquire() retries once and wait() runs out of delay.              *)
CallReturns == \A p \in Requests : Calling(p) ~> ~Calling(p)

(* The rows of the table are the leases of the abstract service. *)
Promise == INSTANCE LeaseLock WITH
  now <- clock, lease <- semaphore, NoLease <- NoRow, Slack <- Epsilon

(* Every step of every request is one LeaseLock allows: taking a free      *)
(* name, moving or freeing its own lease, clearing one that has run out.   *)
ImplementsPromise == Promise!Spec
================================================================================
