------------------------------- MODULE CronQueue -------------------------------
(***************************************************************************)
(* Cron and the queue it works on: Cron::run() and processQueues(), the    *)
(* table of DatabaseQueue, and the garbage collection system_cron() runs.  *)
(* Cron runs start on their own, by a crontab or by automated_cron, and    *)
(* overlap: the lock "cron" guards the hook_cron handlers alone, while     *)
(* every run works on the queues.  acquire('cron') is one step here, which *)
(* is what DatabaseLock guarantees of it.                                  *)
(***************************************************************************)
EXTENDS Integers, FiniteSets, FiniteSetsExt

CONSTANTS
  Runs,          \* PHP processes that execute cron, each again and again
  ItemCount,     \* bound: items are numbered in the order of their creation
  TimeDeclared,  \* settings: whether the worker declares cron = {"time" = ...}
  CronTime,      \* seconds cron works on the queue: the time declared, or 15
  CronLease,     \* the 900 s acquire('cron') asks for
  Delays,        \* delays of a DelayedRequeueException
  NoOne,         \* the holder of a lock nobody has
  Dead,          \* the lock id of a process that was killed
  MaxTime        \* bound: the clock stops there

ASSUME CronAssumption ==
  /\ ItemCount \in Nat
  /\ TimeDeclared \subseteq BOOLEAN
  /\ CronTime \in Nat
  /\ CronLease \in Nat
  /\ Delays \subseteq Nat
  /\ MaxTime \in Nat
  /\ NoOne \notin Runs
  /\ Dead \notin Runs
  /\ Dead # NoOne

VARIABLES
  declared,  \* the setting of this worker, of TimeDeclared; never changes
  now,       \* time(), in seconds
  cronLock,  \* the row "cron" of {semaphore}: its owner and its expire
  cronLast,  \* the state system.cron_last
  created,   \* how many items were ever put into the queue
  expire,    \* the rows of {queue}: item -> the column expire, 0 if available
  run,       \* process -> where its cron run stands, see Run
  executed,  \* auxiliary: the items a worker has processed to the end
  late,      \* auxiliary: items on which a worker outstayed its lease
  delayedTo  \* auxiliary: item -> the time up to which a worker delayed it

vars == <<declared, now, cronLock, cronLast, created, expire, run, executed,
          late, delayedTo>>

Items == 1..ItemCount

(* isset($info['cron']['time']) ?: NULL, added to a time: TRUE is 1 and    *)
(* NULL is 0, whatever number of seconds is declared.                      *)
LeaseTime == IF declared THEN 1 ELSE 0

(***************************************************************************)
(* "at" is what the run does next.  "started" is its REQUEST_TIME, "end"   *)
(* the local $end, "item" the local $item (0: none), "lease" the expire    *)
(* this run wrote into the row of its item.                                *)
(***************************************************************************)
Run == [at      : {"off", "acquire", "handlers", "record", "release", "queue",
                   "loop", "select", "update", "work", "delete"},
        started : Nat,
        end     : Nat,
        item    : 0..ItemCount,
        lease   : Nat,
        until   : Nat]   \* auxiliary: the expire of its cron lock

Off == [at |-> "off", started |-> 0, end |-> 0, item |-> 0, lease |-> 0,
        until |-> 0]

At(r, places) == run[r].at \in places
Item(r) == run[r].item
Goto(r, place) == run' = [run EXCEPT ![r].at = place]
Stop(r) == run' = [run EXCEPT ![r] = Off]

(* Mutant of NextItem: the item of the last round is kept. *)
NextItemToo(r) == run' = [run EXCEPT ![r].at = "loop"]

(* Back at the head of the loop, with no item. *)
NextItem(r) ==
  run' = [run EXCEPT ![r].at = "loop", ![r].item = 0, ![r].lease = 0]

Queued == DOMAIN expire
Available == {i \in Queued : expire[i] = 0}

(* The run has claimed its item and is not yet done with it. *)
Working(r) == At(r, {"work", "delete"})
Workers(i) == {r \in Runs : Working(r) /\ Item(r) = i}

(* UPDATE {queue} SET expire = t WHERE item_id = i: nothing if i is gone.  *)
SetExpire(i, t) ==
  expire' = IF i \in Queued THEN [expire EXCEPT ![i] = t] ELSE expire

Lower(a, b) == IF a <= b THEN a ELSE b

Init ==
  /\ declared \in TimeDeclared
  /\ now = 1
  /\ cronLock = [owner |-> NoOne, expire |-> 0]
  /\ cronLast = 0
  /\ created = 0
  /\ expire = [i \in {} |-> 0]
  /\ run = [r \in Runs |-> Off]
  /\ executed = {}
  /\ late = {}
  /\ delayedTo = [i \in Items |-> 0]

--------------------------------------------------------------------------------
(* The hook_cron handlers, under the lock *)

Start(r) ==
  /\ At(r, {"off"})
  /\ run' = [run EXCEPT ![r] = [Off EXCEPT !.at = "acquire", !.started = now]]
  /\ UNCHANGED <<declared, now, cronLock, cronLast, created, expire, executed,
                 late, delayedTo>>

(* acquire('cron') succeeds: the lock is free or its lease has run out. *)
LockFree == cronLock.owner = NoOne \/ now > cronLock.expire

Acquire(r) ==
  /\ At(r, {"acquire"})
  /\ LockFree
  /\ cronLock' = [owner |-> r, expire |-> now + CronLease]
  /\ run' = [run EXCEPT ![r].at = "handlers", ![r].until = now + CronLease]
  /\ UNCHANGED <<declared, now, cronLast, created, expire, executed, late,
                 delayedTo>>

(* "Attempting to re-run cron while it is already running": the handlers   *)
(* are skipped, the queues are not.                                        *)
Refuse(r) ==
  /\ At(r, {"acquire"})
  /\ ~LockFree
  /\ Goto(r, "queue")
  /\ UNCHANGED <<declared, now, cronLock, cronLast, created, expire, executed,
                 late, delayedTo>>

(* Mutant of Expired: the comparison is reversed. *)
NotExpired(r) == {i \in Queued : expire[i] # 0 /\ expire[i] > run[r].started}

(* The rows garbageCollection() resets. *)
Expired(r) == {i \in Queued : expire[i] # 0 /\ expire[i] < run[r].started}

(* Mutant of CollectGarbage: expired rows are deleted, as in other bins.   *)
DropExpired(r) ==
  /\ At(r, {"handlers"})
  /\ expire' = [i \in Queued \ Expired(r) |-> expire[i]]
  /\ Goto(r, "record")
  /\ UNCHANGED <<declared, now, cronLock, cronLast, created, executed, late,
                 delayedTo>>

(* system_cron() collects garbage; it judges leases by its REQUEST_TIME.   *)
CollectGarbage(r) ==
  /\ At(r, {"handlers"})
  /\ expire' = [i \in Queued |-> IF i \in Expired(r) THEN 0 ELSE expire[i]]
  /\ Goto(r, "record")
  /\ UNCHANGED <<declared, now, cronLock, cronLast, created, executed, late,
                 delayedTo>>

(* setCronLastTime() *)
RecordTime(r) ==
  /\ At(r, {"record"})
  /\ cronLast' = run[r].started
  /\ Goto(r, "release")
  /\ UNCHANGED <<declared, now, cronLock, created, expire, executed, late,
                 delayedTo>>

(* Mutant of FreeLock: the row is deleted by its name alone. *)
FreeAnyLock(r) == cronLock' = [owner |-> NoOne, expire |-> 0]

(* release('cron') deletes the row only if it is still this run's. *)
FreeLock(r) ==
  cronLock' = IF cronLock.owner = r THEN [owner |-> NoOne, expire |-> 0]
              ELSE cronLock

ReleaseLock(r) ==
  /\ At(r, {"release"})
  /\ FreeLock(r)
  /\ run' = [run EXCEPT ![r].at = "queue", ![r].until = 0]
  /\ UNCHANGED <<declared, now, cronLast, created, expire, executed, late,
                 delayedTo>>

--------------------------------------------------------------------------------
(* processQueues(), whether or not the run had the lock *)

(* $end, not past the last tick: at the bound of the clock the loop would  *)
(* never see its end.                                                      *)
BeginQueue(r) ==
  /\ At(r, {"queue"})
  /\ run' = [run EXCEPT ![r].at = "loop",
                        ![r].end = Lower(now + CronTime, MaxTime)]
  /\ UNCHANGED <<declared, now, cronLock, cronLast, created, expire, executed,
                 late, delayedTo>>

(* while (time() < $end ... *)
CheckTime(r) ==
  /\ At(r, {"loop"})
  /\ IF now < run[r].end THEN Goto(r, "select") ELSE Stop(r)
  /\ UNCHANGED <<declared, now, cronLock, cronLast, created, expire, executed,
                 late, delayedTo>>

(* claimItem(): SELECT the oldest item that is not leased. *)
SelectItem(r) ==
  /\ At(r, {"select"})
  /\ IF Available = {} THEN Stop(r)
     ELSE run' = [run EXCEPT ![r].at = "update", ![r].item = Min(Available)]
  /\ UNCHANGED <<declared, now, cronLock, cronLast, created, expire, executed,
                 late, delayedTo>>

(* Mutant of Claimable: the UPDATE has no condition on expire. *)
StillQueued(r) == Item(r) \in Queued

(* The row read is matched by UPDATE ... WHERE item_id AND expire = 0. *)
Claimable(r) == Item(r) \in Available

(* claimItem(): UPDATE of the row read; if another run was faster, claim   *)
(* again.                                                                  *)
ClaimItem(r) ==
  /\ At(r, {"update"})
  /\ IF Claimable(r)
     THEN /\ SetExpire(Item(r), now + LeaseTime)
          /\ run' = [run EXCEPT ![r].at = "work", ![r].lease = now + LeaseTime]
     ELSE /\ run' = [run EXCEPT ![r].at = "select", ![r].item = 0]
          /\ UNCHANGED expire
  /\ UNCHANGED <<declared, now, cronLock, cronLast, created, executed, late,
                 delayedTo>>

(* processItem() returns. *)
Process(r) ==
  /\ At(r, {"work"})
  /\ executed' = executed \cup {Item(r)}
  /\ Goto(r, "delete")
  /\ UNCHANGED <<declared, now, cronLock, cronLast, created, expire, late,
                 delayedTo>>

(* deleteItem() *)
DeleteItem(r) ==
  /\ At(r, {"delete"})
  /\ expire' = [i \in Queued \ {Item(r)} |-> expire[i]]
  /\ NextItem(r)
  /\ UNCHANGED <<declared, now, cronLock, cronLast, created, executed, late,
                 delayedTo>>

(* Mutant of DelayItem: the delay is written as if it were a time. *)
DelayItemTo(r, d) ==
  /\ At(r, {"work"})
  /\ now + d < MaxTime
  /\ SetExpire(Item(r), d)
  /\ delayedTo' = [delayedTo EXCEPT ![Item(r)] = now + d]
  /\ NextItem(r)
  /\ UNCHANGED <<declared, now, cronLock, cronLast, created, executed, late>>

(* DelayedRequeueException: delayItem(), from now on and for any leaser.   *)
DelayItem(r, d) ==
  /\ At(r, {"work"})
  /\ now + d < MaxTime
  /\ SetExpire(Item(r), now + d)
  /\ delayedTo' = [delayedTo EXCEPT ![Item(r)] = now + d]
  /\ NextItem(r)
  /\ UNCHANGED <<declared, now, cronLock, cronLast, created, executed, late>>

(* RequeueException: releaseItem(), whoever leases the item now. *)
RequeueItem(r) ==
  /\ At(r, {"work"})
  /\ SetExpire(Item(r), 0)
  /\ NextItem(r)
  /\ UNCHANGED <<declared, now, cronLock, cronLast, created, executed, late,
                 delayedTo>>

(* SuspendQueueException: releaseItem(), and no more of this queue. *)
SuspendQueue(r) ==
  /\ At(r, {"work"})
  /\ SetExpire(Item(r), 0)
  /\ Stop(r)
  /\ UNCHANGED <<declared, now, cronLock, cronLast, created, executed, late,
                 delayedTo>>

(* A failure early enough for its leases to run out within the bound of    *)
(* the clock; the last tick stands for the time after the last failure.    *)
Recoverable(r) ==
  /\ now < MaxTime
  /\ Working(r) => run[r].lease < MaxTime
  /\ cronLock.owner = r => cronLock.expire < MaxTime

(* Any other exception leaves the item leased. *)
FailItem(r) ==
  /\ At(r, {"work"})
  /\ Recoverable(r)
  /\ NextItem(r)
  /\ UNCHANGED <<declared, now, cronLock, cronLast, created, expire, executed,
                 late, delayedTo>>

--------------------------------------------------------------------------------
(* The environment *)

(* createItem(), by whatever module has work to queue. *)
CreateItem ==
  /\ created < ItemCount
  /\ created' = created + 1
  /\ expire' = [i \in Queued \cup {created + 1} |->
                  IF i \in Queued THEN expire[i] ELSE 0]
  /\ UNCHANGED <<declared, now, cronLock, cronLast, run, executed, late,
                 delayedTo>>

(* A fatal error ends the run; its shutdown function frees the lock. *)
Abort(r) ==
  /\ ~At(r, {"off"})
  /\ Recoverable(r)
  /\ FreeLock(r)
  /\ Stop(r)
  /\ UNCHANGED <<declared, now, cronLast, created, expire, executed, late,
                 delayedTo>>

(* The process is killed: its lock id is one no later process has.         *)
Kill(r) ==
  /\ ~At(r, {"off"})
  /\ Recoverable(r)
  /\ cronLock' = IF cronLock.owner = r THEN [cronLock EXCEPT !.owner = Dead]
                 ELSE cronLock
  /\ Stop(r)
  /\ UNCHANGED <<declared, now, cronLast, created, expire, executed, late,
                 delayedTo>>

Tick ==
  /\ now < MaxTime
  /\ now' = now + 1
  /\ late' = late \cup {Item(r) : r \in {s \in Runs : /\ Working(s)
                                                     /\ run[s].lease < now'}}
  /\ UNCHANGED <<declared, cronLock, cronLast, created, expire, run, executed,
                 delayedTo>>

Step(r) ==
  \/ Acquire(r) \/ Refuse(r) \/ CollectGarbage(r) \/ RecordTime(r)
  \/ ReleaseLock(r) \/ BeginQueue(r) \/ CheckTime(r) \/ SelectItem(r)
  \/ ClaimItem(r) \/ Process(r) \/ DeleteItem(r)
  \/ \E d \in Delays : DelayItem(r, d)
  \/ RequeueItem(r) \/ SuspendQueue(r) \/ FailItem(r)

Next ==
  \/ \E r \in Runs : Start(r) \/ Step(r) \/ Abort(r) \/ Kill(r)
  \/ CreateItem
  \/ Tick

(* Time passes, cron is triggered again and again, and a process executes  *)
(* its statements until it ends.                                           *)
Fairness ==
  /\ WF_vars(Tick)
  /\ \A r \in Runs : WF_vars(Start(r)) /\ WF_vars(Step(r))

Spec == Init /\ [][Next]_vars

FairSpec == Spec /\ Fairness

--------------------------------------------------------------------------------
(* Properties *)

TypeOK ==
  /\ declared \in TimeDeclared
  /\ now \in Nat
  /\ cronLock \in [owner : Runs \cup {NoOne, Dead}, expire : Nat]
  /\ cronLast \in Nat
  /\ created \in 0..ItemCount
  /\ Queued \subseteq 1..created
  /\ expire \in [Queued -> Nat]
  /\ run \in [Runs -> Run]
  /\ \A r \in Runs : Item(r) # 0 <=> At(r, {"update", "work", "delete"})
  /\ executed \subseteq 1..created
  /\ late \subseteq Items
  /\ delayedTo \in [Items -> Nat]

(* Every item is executed at least once, as ReliableQueueInterface says:   *)
(* it leaves the table only after some worker processed it to the end.     *)
AtLeastOnce == \A i \in 1..created : i \notin Queued => i \in executed

(* Two runs work on one item only after one of them outstayed its lease on *)
(* it: the UPDATE of claimItem() lets one of them through, and the garbage *)
(* collection of a third resets no lease that still runs.                  *)
SharedOnlyIfLate ==
  \A i \in Items : Cardinality(Workers(i)) > 1 => i \in late

(* No run is handed a delayed item before its delay is over, unless an     *)
(* earlier worker outstayed its lease on it (delayItem()).                 *)
DelayRespected ==
  [][\A r \in Runs :
       At(r, {"update"}) /\ Working(r)' /\ Item(r) \notin late
         => now >= delayedTo[Item(r)]]_vars

(* Two runs execute the cron handlers at once only if one has had the lock *)
(* for longer than it asked for: the release of a run that overstayed does *)
(* not free the lock for a third (run()).                                  *)
InHandlers(r) == At(r, {"handlers", "record", "release"})

HandlersExclusive ==
  \A r, s \in Runs :
    /\ InHandlers(r) /\ now <= run[r].until
    /\ InHandlers(s) /\ now <= run[s].until
    => r = s

(* An item nobody works on any more, because its worker failed, was killed *)
(* or delayed it, does not stay leased for ever: which takes a later run    *)
(* that gets the lock, though a killed one left it in the table.            *)
AbandonedReturns ==
  \A i \in Items :
    (i \in Queued /\ expire[i] # 0 /\ Workers(i) = {})
      ~> (i \notin Queued \/ expire[i] = 0 \/ Workers(i) # {})

(* What CronQueueTest::testDelayException() takes for granted: an item is  *)
(* leased for the time its worker declares for cron (processQueues()).     *)
LeasedForCronTime ==
  [][\A r \in Runs :
       At(r, {"update"}) /\ Working(r)' => run'[r].lease = now + CronTime]_vars
================================================================================
