--------------------------- MODULE CronQueueProofs ---------------------------
(***************************************************************************)
(* CronQueue for any number of overlapping runs, items, leases and delays: *)
(* the types, the handlers, and what becomes of an item.                   *)
(***************************************************************************)
EXTENDS CronQueue, TLAPS, FiniteSetTheorems, WellFoundedInduction

Places == {"off", "acquire", "handlers", "record", "release", "queue",
           "loop", "select", "update", "work", "delete"}

\* The fields of r after a step of it, and the other runs as they were.
Becomes(r, at, started, end, item, lease, until) ==
  /\ run' \in [Runs -> Run]
  /\ run'[r].at = at /\ run'[r].started = started /\ run'[r].end = end
  /\ run'[r].item = item /\ run'[r].lease = lease /\ run'[r].until = until
  /\ \A s \in Runs : s # r => run'[s] = run[s]

-----------------------------------------------------------------------------
(* What the steps do to the run that takes them.                             *)

LEMMA FieldTypes ==
  ASSUME TypeOK, NEW r \in Runs
  PROVE  /\ run \in [Runs -> Run] /\ run[r] \in Run
         /\ run[r].at \in Places /\ run[r].started \in Nat /\ run[r].end \in Nat
         /\ run[r].item \in 0 .. ItemCount /\ run[r].lease \in Nat
         /\ run[r].until \in Nat
  BY DEF TypeOK, Run, Places

LEMMA PutRun ==
  ASSUME TypeOK, NEW r \in Runs, NEW x \in Run, run' = [run EXCEPT ![r] = x]
  PROVE  Becomes(r, x.at, x.started, x.end, x.item, x.lease, x.until)
  BY DEF TypeOK, Becomes

LEMMA GotoRun ==
  ASSUME TypeOK, NEW r \in Runs, NEW p \in Places, Goto(r, p)
  PROVE  Becomes(r, p, run[r].started, run[r].end, run[r].item, run[r].lease,
                 run[r].until)
<1> DEFINE x == [run[r] EXCEPT !.at = p]
<1>1. x \in Run  BY FieldTypes DEF Run, Places
<1>2. /\ x.at = p /\ x.started = run[r].started /\ x.end = run[r].end
      /\ x.item = run[r].item /\ x.lease = run[r].lease /\ x.until = run[r].until
  BY FieldTypes DEF Run
<1>3. run' = [run EXCEPT ![r] = x]  BY DEF Goto
<1> HIDE DEF x
<1> QED  BY <1>1, <1>2, <1>3, PutRun

LEMMA StopRun ==
  ASSUME TypeOK, NEW r \in Runs, Stop(r)
  PROVE  Becomes(r, "off", 0, 0, 0, 0, 0)
<1>1. Off \in Run  BY CronAssumption DEF Off, Run
<1>2. /\ Off.at = "off" /\ Off.started = 0 /\ Off.end = 0 /\ Off.item = 0
      /\ Off.lease = 0 /\ Off.until = 0
  BY DEF Off
<1>3. run' = [run EXCEPT ![r] = Off]  BY DEF Stop
<1> QED  BY <1>1, <1>2, <1>3, PutRun

LEMMA NextItemRun ==
  ASSUME TypeOK, NEW r \in Runs, NextItem(r)
  PROVE  Becomes(r, "loop", run[r].started, run[r].end, 0, 0, run[r].until)
<1> DEFINE y == [run[r] EXCEPT !.at = "loop"]
           z == [y EXCEPT !.item = 0]
           x == [z EXCEPT !.lease = 0]
<1>1. run[r] \in Run  BY FieldTypes
<1>2. y \in Run  BY <1>1 DEF Run
<1>3. z \in Run
  <2>1. 0 \in 0 .. ItemCount  BY CronAssumption
  <2> HIDE DEF y
  <2> QED  BY <1>2, <2>1 DEF Run
<1>4. x \in Run  BY <1>3 DEF Run
<1>5. /\ x.at = "loop" /\ x.started = run[r].started /\ x.end = run[r].end
      /\ x.item = 0 /\ x.lease = 0 /\ x.until = run[r].until
  BY <1>1 DEF Run
<1>6. run' = [run EXCEPT ![r] = x]  BY DEF NextItem
<1> HIDE DEF x
<1> QED  BY <1>4, <1>5, <1>6, PutRun

LEMMA StartRun ==
  ASSUME TypeOK, NEW r \in Runs, Start(r)
  PROVE  Becomes(r, "acquire", now, 0, 0, 0, 0)
<1> DEFINE y == [Off EXCEPT !.at = "acquire"]
           x == [y EXCEPT !.started = now]
<1>1. Off \in Run /\ now \in Nat  BY CronAssumption DEF Off, Run, TypeOK
<1>2. y \in Run  BY <1>1 DEF Run
<1>3. x \in Run  BY <1>1, <1>2 DEF Run
<1>4. /\ x.at = "acquire" /\ x.started = now /\ x.end = 0 /\ x.item = 0
      /\ x.lease = 0 /\ x.until = 0
  BY DEF Off
<1>5. run' = [run EXCEPT ![r] = x]  BY DEF Start
<1> HIDE DEF x
<1> QED  BY <1>3, <1>4, <1>5, PutRun

\* Steps that change the place and one other field.
LEMMA AcquireRun ==
  ASSUME TypeOK, NEW r \in Runs, Acquire(r)
  PROVE  Becomes(r, "handlers", run[r].started, run[r].end, run[r].item,
                 run[r].lease, now + CronLease)
<1> DEFINE y == [run[r] EXCEPT !.at = "handlers"]
           x == [y EXCEPT !.until = now + CronLease]
<1>1. run[r] \in Run /\ now + CronLease \in Nat
  BY FieldTypes, CronAssumption DEF TypeOK
<1>2. y \in Run  BY <1>1 DEF Run
<1>3. x \in Run  BY <1>1, <1>2 DEF Run
<1>4. /\ x.at = "handlers" /\ x.started = run[r].started /\ x.end = run[r].end
      /\ x.item = run[r].item /\ x.lease = run[r].lease
      /\ x.until = now + CronLease
  BY <1>1 DEF Run
<1>5. run' = [run EXCEPT ![r] = x]  BY DEF Acquire
<1> HIDE DEF x
<1> QED  BY <1>3, <1>4, <1>5, PutRun

LEMMA ReleaseLockRun ==
  ASSUME TypeOK, NEW r \in Runs, ReleaseLock(r)
  PROVE  Becomes(r, "queue", run[r].started, run[r].end, run[r].item,
                 run[r].lease, 0)
<1> DEFINE y == [run[r] EXCEPT !.at = "queue"]
           x == [y EXCEPT !.until = 0]
<1>1. run[r] \in Run  BY FieldTypes
<1>2. y \in Run  BY <1>1 DEF Run
<1>3. x \in Run  BY <1>2 DEF Run
<1>4. /\ x.at = "queue" /\ x.started = run[r].started /\ x.end = run[r].end
      /\ x.item = run[r].item /\ x.lease = run[r].lease /\ x.until = 0
  BY <1>1 DEF Run
<1>5. run' = [run EXCEPT ![r] = x]  BY DEF ReleaseLock
<1> HIDE DEF x
<1> QED  BY <1>3, <1>4, <1>5, PutRun

LEMMA BeginQueueRun ==
  ASSUME TypeOK, NEW r \in Runs, BeginQueue(r)
  PROVE  Becomes(r, "loop", run[r].started, Lower(now + CronTime, MaxTime),
                 run[r].item, run[r].lease, run[r].until)
<1> DEFINE t == Lower(now + CronTime, MaxTime)
           y == [run[r] EXCEPT !.at = "loop"]
           x == [y EXCEPT !.end = t]
<1>1. run[r] \in Run /\ t \in Nat
  BY FieldTypes, CronAssumption DEF TypeOK, Lower
<1>2. run' = [run EXCEPT ![r] = x]  BY DEF BeginQueue
<1> HIDE DEF t
<1>3. y \in Run  BY <1>1 DEF Run
<1>4. x \in Run  BY <1>1, <1>3 DEF Run
<1>5. /\ x.at = "loop" /\ x.started = run[r].started /\ x.end = t
      /\ x.item = run[r].item /\ x.lease = run[r].lease
      /\ x.until = run[r].until
  BY <1>1 DEF Run
<1> HIDE DEF x
<1> QED  BY <1>2, <1>4, <1>5, PutRun DEF t

\* Of a set of numbers there is a least one.
LEMMA MinIsIn ==
  ASSUME NEW S \in SUBSET Nat, S # {}
  PROVE  Min(S) \in S
<1>1. PICK t \in S : \A u \in S : ~ (<<u, t>> \in OpToRel(<, Nat))
  BY NatLessThanWellFounded, WFMin
<1>2. ASSUME NEW u \in S  PROVE t <= u
  <2>1. ~ (u < t)  BY <1>1 DEF OpToRel
  <2>2. u \in Nat /\ t \in Nat  OBVIOUS
  <2> QED  BY <2>1, <2>2
<1> QED  BY <1>2 DEF Min

LEMMA AvailableItems ==
  ASSUME TypeOK
  PROVE  /\ Available \subseteq Queued /\ Queued \subseteq 1 .. created
         /\ created \in Nat /\ created <= ItemCount
         /\ 1 .. created \subseteq Items /\ Items \subseteq Nat
         /\ Available # {} => Min(Available) \in Available
<1>1. /\ Available \subseteq Queued /\ Queued \subseteq 1 .. created
      /\ created \in 0 .. ItemCount
  BY DEF TypeOK, Available
<1>2. created \in Nat /\ created <= ItemCount  BY <1>1, CronAssumption
<1>3. Available \in SUBSET Nat  BY <1>1, <1>2
<1>4. 1 .. created \subseteq Items /\ Items \subseteq Nat
  BY <1>2, CronAssumption DEF Items
<1> QED  BY <1>1, <1>2, <1>3, <1>4, MinIsIn

\* SelectItem() where there is one.
LEMMA SelectRun ==
  ASSUME TypeOK, NEW r \in Runs, SelectItem(r), Available # {}
  PROVE  /\ Becomes(r, "update", run[r].started, run[r].end, Min(Available),
                    run[r].lease, run[r].until)
         /\ Min(Available) \in 1 .. created /\ Min(Available) \in 1 .. ItemCount
<1> DEFINE i == Min(Available)
           y == [run[r] EXCEPT !.at = "update"]
           x == [y EXCEPT !.item = i]
<1>1. i \in 1 .. created /\ i \in Items  BY AvailableItems
<1>2. run[r] \in Run /\ i \in 0 .. ItemCount /\ i \in 1 .. ItemCount
  BY <1>1, FieldTypes, CronAssumption DEF Items
<1>3. run' = [run EXCEPT ![r] = x]  BY DEF SelectItem
<1> HIDE DEF i
<1>4. y \in Run  BY <1>2 DEF Run
<1>5. x \in Run  BY <1>2, <1>4 DEF Run
<1>6. /\ x.at = "update" /\ x.started = run[r].started /\ x.end = run[r].end
      /\ x.item = i /\ x.lease = run[r].lease /\ x.until = run[r].until
  BY <1>2 DEF Run
<1> HIDE DEF x
<1> QED  BY <1>1, <1>2, <1>3, <1>5, <1>6, PutRun DEF i

\* ClaimItem() of a row that is available, and of one that is not.
LEMMA ClaimRun ==
  ASSUME TypeOK, NEW r \in Runs, ClaimItem(r), Claimable(r)
  PROVE  /\ Becomes(r, "work", run[r].started, run[r].end, run[r].item,
                    now + LeaseTime, run[r].until)
         /\ now + LeaseTime \in Nat /\ now + LeaseTime >= now
<1> DEFINE t == now + LeaseTime
           y == [run[r] EXCEPT !.at = "work"]
           x == [y EXCEPT !.lease = t]
<1>1. run[r] \in Run /\ t \in Nat /\ t >= now
  BY FieldTypes DEF TypeOK, LeaseTime
<1>2. run' = [run EXCEPT ![r] = x]  BY DEF ClaimItem
<1> HIDE DEF t
<1>3. y \in Run  BY <1>1 DEF Run
<1>4. x \in Run  BY <1>1, <1>3 DEF Run
<1>5. /\ x.at = "work" /\ x.started = run[r].started /\ x.end = run[r].end
      /\ x.item = run[r].item /\ x.lease = t /\ x.until = run[r].until
  BY <1>1 DEF Run
<1> HIDE DEF x
<1> QED  BY <1>1, <1>2, <1>4, <1>5, PutRun DEF t

LEMMA AgainRun ==
  ASSUME TypeOK, NEW r \in Runs, ClaimItem(r), ~Claimable(r)
  PROVE  Becomes(r, "select", run[r].started, run[r].end, 0, run[r].lease,
                 run[r].until)
<1> DEFINE y == [run[r] EXCEPT !.at = "select"]
           x == [y EXCEPT !.item = 0]
<1>1. run[r] \in Run  BY FieldTypes
<1>2. y \in Run  BY <1>1 DEF Run
<1>3. x \in Run
  <2>1. 0 \in 0 .. ItemCount  BY CronAssumption
  <2> QED  BY <1>2, <2>1 DEF Run
<1>4. /\ x.at = "select" /\ x.started = run[r].started /\ x.end = run[r].end
      /\ x.item = 0 /\ x.lease = run[r].lease /\ x.until = run[r].until
  BY <1>1 DEF Run
<1>5. run' = [run EXCEPT ![r] = x]  BY DEF ClaimItem
<1> HIDE DEF x
<1> QED  BY <1>3, <1>4, <1>5, PutRun

-----------------------------------------------------------------------------
(* The invariant.                                                            *)

Holding == {"update", "work", "delete"}

\* Runs started in the past, on items that exist.
TimeInv == /\ now >= 1
           /\ \A r \in Runs : run[r].started <= now /\ Item(r) \in 0 .. created

\* A run in the handlers whose lease has not run out has the lock.
LockInv == \A r \in Runs : InHandlers(r) /\ now <= run[r].until =>
                             cronLock.owner = r /\ cronLock.expire = run[r].until

\* What is about to be deleted was executed.
ExecInv == /\ AtLeastOnce
           /\ \A r \in Runs : At(r, {"delete"}) => Item(r) \in executed

\* An item nobody was late with has one worker, whose lease is in the table.
Leased(r) == /\ Item(r) \in Queued /\ expire[Item(r)] = run[r].lease
             /\ now <= run[r].lease /\ delayedTo[Item(r)] <= now

WorkInv == /\ \A r \in Runs : Working(r) /\ Item(r) \notin late => Leased(r)
           /\ \A r, s \in Runs : /\ Working(r) /\ Working(s) /\ Item(r) = Item(s)
                                 /\ Item(r) \notin late
                                 => r = s

\* A delay that is not over is the item's expire; new items have none.
DelayInv ==
  /\ \A i \in Queued \ late : delayedTo[i] <= now \/ delayedTo[i] <= expire[i]
  /\ \A i \in Items : i > created => delayedTo[i] = 0

Inv == TypeOK /\ TimeInv /\ LockInv /\ ExecInv /\ WorkInv /\ DelayInv

LEMMA InitInv == Init => Inv
<1> SUFFICES ASSUME Init  PROVE Inv  OBVIOUS
<1>1. /\ declared \in TimeDeclared /\ now = 1 /\ cronLast = 0 /\ created = 0
      /\ cronLock = [owner |-> NoOne, expire |-> 0]
      /\ expire = [i \in {} |-> 0] /\ executed = {} /\ late = {}
      /\ run = [r \in Runs |-> Off] /\ delayedTo = [i \in Items |-> 0]
  BY DEF Init
<1>2. Queued = {}  BY <1>1 DEF Queued
<1>3. Off \in Run  BY CronAssumption DEF Off, Run
<1>4. \A r \in Runs : run[r].at = "off" /\ run[r].started = 0 /\ run[r].item = 0
  BY <1>1 DEF Off
<1>5. TypeOK
  <2>1. expire \in [Queued -> Nat]  BY <1>1, <1>2
  <2>2. created \in 0 .. ItemCount  BY <1>1, CronAssumption
  <2>3. \A r \in Runs : Item(r) # 0 <=> At(r, {"update", "work", "delete"})
    BY <1>4 DEF Item, At
  <2>4. run \in [Runs -> Run]  BY <1>1, <1>3
  <2> QED  BY <1>1, <1>2, <2>1, <2>2, <2>3, <2>4, CronAssumption DEF TypeOK
<1>6. TimeInv  BY <1>1, <1>4 DEF TimeInv, Item
<1>7. LockInv  BY <1>4 DEF LockInv, InHandlers, At
<1>8. ExecInv  BY <1>1, <1>4 DEF ExecInv, AtLeastOnce, At
<1>9. WorkInv  BY <1>4 DEF WorkInv, Working, At
<1>10. DelayInv  BY <1>1, <1>2 DEF DelayInv
<1> QED  BY <1>5, <1>6, <1>7, <1>8, <1>9, <1>10 DEF Inv

\* What every step of a run has in common.
Moves(r) ==
  /\ run' \in [Runs -> Run] /\ \A s \in Runs : s # r => run'[s] = run[s]
  /\ run'[r].started <= now /\ run'[r].item \in 0 .. created
  /\ run'[r].item # 0 <=> run'[r].at \in Holding

LEMMA MovesBy ==
  ASSUME TypeOK, NEW r \in Runs, NEW at, NEW a, NEW b, NEW i, NEW l, NEW u,
         Becomes(r, at, a, b, i, l, u), a <= now, i \in 0 .. created,
         i # 0 <=> at \in Holding
  PROVE  Moves(r)
  BY DEF Becomes, Moves

\* The places: the same item in a new place, or none.
LEMMA MovesOn ==
  ASSUME Inv, NEW r \in Runs, NEW at, NEW b, NEW l, NEW u,
         Becomes(r, at, run[r].started, b, run[r].item, l, u),
         at \in Holding <=> run[r].at \in Holding
  PROVE  Moves(r)
<1>1. run[r].started <= now /\ run[r].item \in 0 .. created
  BY DEF Inv, TimeInv, Item
<1>2. run[r].item # 0 <=> run[r].at \in Holding
  BY DEF Inv, TypeOK, Item, At, Holding
<1> QED  BY <1>1, <1>2, MovesBy DEF Inv

LEMMA MovesOff ==
  ASSUME Inv, NEW r \in Runs, NEW at, NEW a, NEW b, NEW l, NEW u,
         Becomes(r, at, a, b, 0, l, u), at \notin Holding,
         a \in {0, now, run[r].started}
  PROVE  Moves(r)
<1>1. a <= now
  BY DEF Inv, TimeInv, TypeOK
<1>2. 0 \in 0 .. created  BY AvailableItems DEF Inv
<1> QED  BY <1>1, <1>2, MovesBy DEF Inv

LEMMA StepMoves ==
  ASSUME Inv, NEW r \in Runs, Start(r) \/ Step(r) \/ Abort(r) \/ Kill(r)
  PROVE  Moves(r)
<1> USE DEF Holding
<1>0. TypeOK  BY DEF Inv
<1>1. CASE Start(r)
  <2>1. Becomes(r, "acquire", now, 0, 0, 0, 0)  BY <1>0, <1>1, StartRun
  <2> QED  BY <2>1, MovesOff
<1>2. CASE Acquire(r)
  <2>1. run[r].at = "acquire"  BY <1>2 DEF Acquire, At
  <2> QED  BY <1>0, <1>2, <2>1, AcquireRun, MovesOn
<1>3. CASE Refuse(r)
  <2>1. run[r].at = "acquire" /\ Goto(r, "queue")  BY <1>3 DEF Refuse, At
  <2>2. "queue" \in Places  BY DEF Places
  <2> QED  BY <1>0, <2>1, <2>2, GotoRun, MovesOn
<1>4. CASE CollectGarbage(r)
  <2>1. run[r].at = "handlers" /\ Goto(r, "record")
    BY <1>4 DEF CollectGarbage, At
  <2>2. "record" \in Places  BY DEF Places
  <2> QED  BY <1>0, <2>1, <2>2, GotoRun, MovesOn
<1>5. CASE RecordTime(r)
  <2>1. run[r].at = "record" /\ Goto(r, "release")  BY <1>5 DEF RecordTime, At
  <2>2. "release" \in Places  BY DEF Places
  <2> QED  BY <1>0, <2>1, <2>2, GotoRun, MovesOn
<1>6. CASE ReleaseLock(r)
  <2>1. run[r].at = "release"  BY <1>6 DEF ReleaseLock, At
  <2> QED  BY <1>0, <1>6, <2>1, ReleaseLockRun, MovesOn
<1>7. CASE BeginQueue(r)
  <2>1. run[r].at = "queue"  BY <1>7 DEF BeginQueue, At
  <2> QED  BY <1>0, <1>7, <2>1, BeginQueueRun, MovesOn
<1>8. CASE CheckTime(r)
  <2>1. run[r].at = "loop" /\ (Goto(r, "select") \/ Stop(r))
    BY <1>8 DEF CheckTime, At
  <2>2. "select" \in Places  BY DEF Places
  <2>3. CASE Goto(r, "select")  BY <1>0, <2>1, <2>2, <2>3, GotoRun, MovesOn
  <2>4. CASE Stop(r)  BY <1>0, <2>4, StopRun, MovesOff
  <2> QED  BY <2>1, <2>3, <2>4
<1>9. CASE SelectItem(r)
  <2>1. CASE Available = {}
    <3>1. Stop(r)  BY <1>9, <2>1 DEF SelectItem
    <3> QED  BY <1>0, <3>1, StopRun, MovesOff
  <2>2. CASE Available # {}
    <3> DEFINE i == Min(Available)
    <3>1. /\ Becomes(r, "update", run[r].started, run[r].end, i, run[r].lease,
                     run[r].until)
          /\ i \in 1 .. created
      BY <1>0, <1>9, <2>2, SelectRun
    <3>2. run[r].started <= now  BY DEF Inv, TimeInv
    <3> HIDE DEF i
    <3>3. i \in 0 .. created /\ i # 0  BY <1>0, <3>1, AvailableItems
    <3> QED  BY <1>0, <3>1, <3>2, <3>3, MovesBy
  <2> QED  BY <2>1, <2>2
<1>10. CASE ClaimItem(r)
  <2>1. run[r].at = "update"  BY <1>10 DEF ClaimItem, At
  <2>2. CASE Claimable(r)
    <3>1. Becomes(r, "work", run[r].started, run[r].end, run[r].item,
                  now + LeaseTime, run[r].until)
      BY <1>0, <1>10, <2>2, ClaimRun
    <3> QED  BY <2>1, <3>1, MovesOn
  <2>3. CASE ~Claimable(r)  BY <1>0, <1>10, <2>3, AgainRun, MovesOff
  <2> QED  BY <2>2, <2>3
<1>11. CASE Process(r)
  <2>1. run[r].at = "work" /\ Goto(r, "delete")  BY <1>11 DEF Process, At
  <2>2. "delete" \in Places  BY DEF Places
  <2> QED  BY <1>0, <2>1, <2>2, GotoRun, MovesOn
<1>12. CASE NextItem(r)
  BY <1>0, <1>12, NextItemRun, MovesOff
<1>13. CASE Stop(r)
  BY <1>0, <1>13, StopRun, MovesOff
<1>14. DeleteItem(r) \/ RequeueItem(r) \/ FailItem(r)
        \/ (\E d \in Delays : DelayItem(r, d)) => NextItem(r)
  BY DEF DeleteItem, RequeueItem, FailItem, DelayItem
<1>15. SuspendQueue(r) \/ Abort(r) \/ Kill(r) => Stop(r)
  BY DEF SuspendQueue, Abort, Kill
<1> QED  BY <1>1, <1>2, <1>3, <1>4, <1>5, <1>6, <1>7, <1>8, <1>9, <1>10, <1>11,
            <1>12, <1>13, <1>14, <1>15 DEF Step

LEMMA LeaseIsNat == LeaseTime \in Nat
  BY DEF LeaseTime

\* What a step of a run leaves alone.
LEMMA StepSame ==
  ASSUME NEW r \in Runs, Start(r) \/ Step(r) \/ Abort(r) \/ Kill(r)
  PROVE  declared' = declared /\ now' = now /\ created' = created /\ late' = late
  BY DEF Step, Start, Acquire, Refuse, CollectGarbage, RecordTime, ReleaseLock,
         BeginQueue, CheckTime, SelectItem, ClaimItem, Process, DeleteItem,
         DelayItem, RequeueItem, SuspendQueue, FailItem, Abort, Kill

\* The lock.
LEMMA LockTypes ==
  ASSUME Inv, NEW r \in Runs, Start(r) \/ Step(r) \/ Abort(r) \/ Kill(r)
  PROVE  cronLock' \in [owner : Runs \cup {NoOne, Dead}, expire : Nat]
<1>1. /\ cronLock \in [owner : Runs \cup {NoOne, Dead}, expire : Nat]
      /\ now + CronLease \in Nat
  BY CronAssumption DEF Inv, TypeOK
<1>2. [owner |-> NoOne, expire |-> 0]
        \in [owner : Runs \cup {NoOne, Dead}, expire : Nat]
  OBVIOUS
<1>3. [cronLock EXCEPT !.owner = Dead]
        \in [owner : Runs \cup {NoOne, Dead}, expire : Nat]
  BY <1>1
<1>4. [owner |-> r, expire |-> now + CronLease]
        \in [owner : Runs \cup {NoOne, Dead}, expire : Nat]
  BY <1>1
<1>5. CASE Acquire(r)  BY <1>4, <1>5 DEF Acquire
<1>6. CASE ReleaseLock(r) \/ Abort(r)
  BY <1>1, <1>2, <1>6 DEF ReleaseLock, Abort, FreeLock
<1>7. CASE Kill(r)  BY <1>1, <1>3, <1>7 DEF Kill
<1>8. CASE ~(Acquire(r) \/ ReleaseLock(r) \/ Abort(r) \/ Kill(r))
  <2>1. cronLock' = cronLock
    BY <1>8 DEF Step, Start, Refuse, CollectGarbage, RecordTime,
           BeginQueue, CheckTime, SelectItem, ClaimItem, Process, DeleteItem,
           DelayItem, RequeueItem, SuspendQueue, FailItem
  <2> QED  BY <1>1, <2>1
<1> QED  BY <1>5, <1>6, <1>7, <1>8

\* The rows of the table, and what happens to the item that a worker is done
\* with: it is gone, or available, or leased to nobody for a while.
Table(r) ==
  \/ expire' = expire /\ delayedTo' = delayedTo
  \/ /\ At(r, {"handlers"}) /\ delayedTo' = delayedTo /\ ~Working(r)'
     /\ expire' = [i \in Queued |-> IF i \in Expired(r) THEN 0 ELSE expire[i]]
  \/ /\ At(r, {"update"}) /\ Item(r) \in Available /\ delayedTo' = delayedTo
     /\ expire' = [expire EXCEPT ![Item(r)] = now + LeaseTime]
  \/ /\ At(r, {"delete"}) /\ ~Working(r)' /\ delayedTo' = delayedTo
     /\ expire' = [i \in Queued \ {Item(r)} |-> expire[i]]
  \/ /\ At(r, {"work"}) /\ ~Working(r)'
     /\ \E d \in Delays :
          /\ expire' = IF Item(r) \in Queued
                       THEN [expire EXCEPT ![Item(r)] = now + d] ELSE expire
          /\ delayedTo' = [delayedTo EXCEPT ![Item(r)] = now + d]
  \/ /\ At(r, {"work"}) /\ ~Working(r)' /\ delayedTo' = delayedTo
     /\ expire' = IF Item(r) \in Queued
                  THEN [expire EXCEPT ![Item(r)] = 0] ELSE expire

LEMMA StepTable ==
  ASSUME Inv, NEW r \in Runs, Start(r) \/ Step(r) \/ Abort(r) \/ Kill(r)
  PROVE  Table(r)
<1>0. TypeOK  BY DEF Inv
<1>1. CASE CollectGarbage(r)
  <2>1. Goto(r, "record") /\ "record" \in Places
    BY <1>1 DEF CollectGarbage, Places
  <2>2. run'[r].at = "record"  BY <1>0, <2>1, GotoRun DEF Becomes
  <2> QED  BY <1>1, <2>2 DEF CollectGarbage, Table, Working, At
<1>2. CASE ClaimItem(r)
  BY <1>2 DEF ClaimItem, Claimable, Table, SetExpire, Available
<1>3. NextItem(r) \/ Stop(r) => ~Working(r)'
  <2>1. CASE NextItem(r)
    <3>1. run'[r].at = "loop"  BY <1>0, <2>1, NextItemRun DEF Becomes
    <3> QED  BY <3>1 DEF Working, At
  <2>2. CASE Stop(r)
    <3>1. run'[r].at = "off"  BY <1>0, <2>2, StopRun DEF Becomes
    <3> QED  BY <3>1 DEF Working, At
  <2> QED  BY <2>1, <2>2
<1>4. CASE DeleteItem(r)  BY <1>3, <1>4 DEF DeleteItem, Table
<1>5. ASSUME NEW d \in Delays, DelayItem(r, d)  PROVE Table(r)
  BY <1>3, <1>5 DEF DelayItem, Table, SetExpire
<1>6. CASE RequeueItem(r)  BY <1>3, <1>6 DEF RequeueItem, Table, SetExpire
<1>7. CASE SuspendQueue(r)  BY <1>3, <1>7 DEF SuspendQueue, Table, SetExpire
<1>8. CASE ~(\/ CollectGarbage(r) \/ ClaimItem(r) \/ DeleteItem(r)
             \/ RequeueItem(r) \/ SuspendQueue(r)
             \/ \E d \in Delays : DelayItem(r, d))
  <2>1. expire' = expire /\ delayedTo' = delayedTo
    BY <1>8 DEF Step, Start, Acquire, Refuse, RecordTime, ReleaseLock,
         BeginQueue, CheckTime, SelectItem, Process, FailItem, Abort, Kill
  <2> QED  BY <2>1 DEF Table
<1> QED  BY <1>1, <1>2, <1>4, <1>5, <1>6, <1>7, <1>8

LEMMA TableTypes ==
  ASSUME Inv, NEW r \in Runs, Table(r)
  PROVE  /\ Queued' \subseteq Queued /\ expire' \in [Queued' -> Nat]
         /\ delayedTo' \in [Items -> Nat]
         /\ \A i \in Queued : i \notin Queued' => At(r, {"delete"}) /\ i = Item(r)
<1>1. expire \in [Queued -> Nat] /\ delayedTo \in [Items -> Nat]
      /\ now + LeaseTime \in Nat /\ \A d \in Delays : now + d \in Nat
  BY LeaseIsNat, CronAssumption DEF Inv, TypeOK
<1>2. ASSUME NEW S \in SUBSET Queued, expire' \in [S -> Nat]
      PROVE  Queued' = S
  BY <1>2 DEF Queued
<1>3. Queued \in SUBSET Queued /\ Queued \ {Item(r)} \in SUBSET Queued  OBVIOUS
<1>4. CASE expire' = expire /\ delayedTo' = delayedTo
  <2>1. expire' \in [Queued -> Nat]  BY <1>1, <1>4
  <2>2. Queued' = Queued  BY <1>2, <1>3, <2>1
  <2> QED  BY <1>1, <1>4, <2>1, <2>2
<1>5. CASE expire' = [i \in Queued |-> IF i \in Expired(r) THEN 0 ELSE expire[i]]
           /\ delayedTo' = delayedTo
  <2>1. expire' \in [Queued -> Nat]  BY <1>1, <1>5
  <2>2. Queued' = Queued  BY <1>2, <1>3, <2>1
  <2> QED  BY <1>1, <1>5, <2>1, <2>2
<1>6. CASE expire' = [expire EXCEPT ![Item(r)] = now + LeaseTime]
           /\ delayedTo' = delayedTo
  <2>1. expire' \in [Queued -> Nat]  BY <1>1, <1>6
  <2>2. Queued' = Queued  BY <1>2, <1>3, <2>1
  <2> QED  BY <1>1, <1>6, <2>1, <2>2
<1>7. CASE expire' = [i \in Queued \ {Item(r)} |-> expire[i]] /\ At(r, {"delete"})
           /\ delayedTo' = delayedTo
  <2>1. expire' \in [Queued \ {Item(r)} -> Nat]  BY <1>1, <1>7
  <2>2. Queued' = Queued \ {Item(r)}  BY <1>2, <1>3, <2>1
  <2> QED  BY <1>1, <1>7, <2>1, <2>2
<1>8. ASSUME NEW d \in Delays,
             expire' = IF Item(r) \in Queued
                       THEN [expire EXCEPT ![Item(r)] = now + d] ELSE expire,
             delayedTo' = [delayedTo EXCEPT ![Item(r)] = now + d]
      PROVE  /\ Queued' = Queued /\ expire' \in [Queued' -> Nat]
             /\ delayedTo' \in [Items -> Nat]
  <2>1. expire' \in [Queued -> Nat]  BY <1>1, <1>8
  <2>2. Queued' = Queued  BY <1>2, <1>3, <2>1
  <2>3. delayedTo' \in [Items -> Nat]  BY <1>1, <1>8
  <2> QED  BY <2>1, <2>2, <2>3
<1>9. CASE /\ delayedTo' = delayedTo
           /\ expire' = IF Item(r) \in Queued
                        THEN [expire EXCEPT ![Item(r)] = 0] ELSE expire
  <2>1. expire' \in [Queued -> Nat]  BY <1>1, <1>9
  <2>2. Queued' = Queued  BY <1>2, <1>3, <2>1
  <2> QED  BY <1>1, <1>9, <2>1, <2>2
<1> QED  BY <1>4, <1>5, <1>6, <1>7, <1>8, <1>9 DEF Table

LEMMA StepType ==
  ASSUME Inv, NEW r \in Runs, Start(r) \/ Step(r) \/ Abort(r) \/ Kill(r)
  PROVE  TypeOK'
<1>1. Moves(r)  BY StepMoves
<1>2. declared' = declared /\ now' = now /\ created' = created /\ late' = late
  BY StepSame
<1>3. /\ Queued' \subseteq Queued /\ expire' \in [Queued' -> Nat]
      /\ delayedTo' \in [Items -> Nat]
  BY StepTable, TableTypes
<1>4. cronLock' \in [owner : Runs \cup {NoOne, Dead}, expire : Nat]
  BY LockTypes
<1>5. cronLast' \in Nat
  <2>1. cronLast' = cronLast \/ cronLast' = run[r].started
    BY DEF Step, Start, Acquire, Refuse, CollectGarbage, RecordTime, ReleaseLock,
         BeginQueue, CheckTime, SelectItem, ClaimItem, Process, DeleteItem,
         DelayItem, RequeueItem, SuspendQueue, FailItem, Abort, Kill
  <2> QED  BY <2>1, FieldTypes DEF Inv, TypeOK
<1>6. executed' \subseteq 1 .. created
  <2>1. executed' = executed \/ (Process(r) /\ executed' = executed \cup {Item(r)})
    BY DEF Step, Start, Acquire, Refuse, CollectGarbage, RecordTime, ReleaseLock,
         BeginQueue, CheckTime, SelectItem, ClaimItem, Process, DeleteItem,
         DelayItem, RequeueItem, SuspendQueue, FailItem, Abort, Kill
  <2>2. executed \subseteq 1 .. created  BY DEF Inv, TypeOK
  <2>3. Process(r) => Item(r) \in 1 .. created
    <3> SUFFICES ASSUME Process(r)  PROVE Item(r) \in 1 .. created  OBVIOUS
    <3>1. Item(r) # 0  BY DEF Process, Inv, TypeOK, At
    <3>2. Item(r) \in 0 .. created /\ created \in Nat
      BY AvailableItems DEF Inv, TimeInv
    <3> QED  BY <3>1, <3>2
  <2> QED  BY <2>1, <2>2, <2>3
<1>7. \A s \in Runs : run'[s].item # 0 <=> run'[s].at \in Holding
  <2>1. \A s \in Runs : run[s].item # 0 <=> run[s].at \in Holding
    BY DEF Inv, TypeOK, Item, At, Holding
  <2> QED  BY <1>1, <2>1 DEF Moves
<1>8. /\ declared \in TimeDeclared /\ now \in Nat /\ created \in 0 .. ItemCount
      /\ late \subseteq Items /\ Queued \subseteq 1 .. created
  BY DEF Inv, TypeOK
<1>9. run' \in [Runs -> Run]  BY <1>1 DEF Moves
<1>10. \A s \in Runs : (Item(s) # 0 <=> At(s, {"update", "work", "delete"}))'
  BY <1>7 DEF Item, At, Holding
<1> QED  BY <1>2, <1>3, <1>4, <1>5, <1>6, <1>8, <1>9, <1>10 DEF TypeOK

LEMMA StepTime ==
  ASSUME Inv, NEW r \in Runs, Start(r) \/ Step(r) \/ Abort(r) \/ Kill(r)
  PROVE  TimeInv'
<1>1. Moves(r) /\ now' = now /\ created' = created  BY StepMoves, StepSame
<1> QED  BY <1>1 DEF Moves, Inv, TimeInv, Item

\* Only acquire() starts the handlers, and only when no lease of them runs.
LEMMA StepLock ==
  ASSUME Inv, NEW r \in Runs, Start(r) \/ Step(r) \/ Abort(r) \/ Kill(r)
  PROVE  LockInv'
<1> SUFFICES ASSUME NEW s \in Runs, InHandlers(s)', now' <= run'[s].until
             PROVE  cronLock'.owner = s /\ cronLock'.expire = run'[s].until
  BY DEF LockInv
<1>0. TypeOK /\ LockInv  BY DEF Inv
<1>1. Moves(r) /\ now' = now  BY StepMoves, StepSame
<1>2. ASSUME InHandlers(s), run'[s].until = run[s].until, cronLock' = cronLock
      PROVE  cronLock'.owner = s /\ cronLock'.expire = run'[s].until
  BY <1>0, <1>1, <1>2 DEF LockInv
<1>3. CASE s # r
  <2>1. run'[s] = run[s]  BY <1>1, <1>3 DEF Moves
  <2>2. InHandlers(s) /\ now <= run[s].until  BY <1>1, <2>1 DEF InHandlers, At
  <2>3. cronLock.owner = s /\ cronLock.expire = run[s].until
    BY <1>0, <2>2 DEF LockInv
  <2>4. ~Acquire(r)
    <3>1. s # NoOne /\ cronLock.expire \in Nat /\ now \in Nat
      BY <1>0, CronAssumption DEF TypeOK
    <3>2. ~LockFree  BY <2>2, <2>3, <3>1 DEF LockFree
    <3> QED  BY <3>2 DEF Acquire
  <2>5. cronLock' = cronLock
    BY <1>3, <2>3, <2>4
       DEF Step, Start, Refuse, CollectGarbage, RecordTime, ReleaseLock,
         BeginQueue, CheckTime, SelectItem, ClaimItem, Process, DeleteItem,
         DelayItem, RequeueItem, SuspendQueue, FailItem, Abort, Kill, FreeLock
  <2> QED  BY <1>2, <2>1, <2>2, <2>5
<1>4. CASE s = r
  <2>1. run'[r].at \in {"handlers", "record", "release"}
    BY <1>4 DEF InHandlers, At
  <2>2. CASE Acquire(r)
    <3>1. run'[r].until = now + CronLease  BY <1>0, <2>2, AcquireRun DEF Becomes
    <3> QED  BY <1>4, <2>2, <3>1 DEF Acquire
  <2>3. CASE CollectGarbage(r)
    <3>1. Goto(r, "record") /\ run[r].at = "handlers" /\ "record" \in Places
          /\ cronLock' = cronLock
      BY <2>3 DEF CollectGarbage, At, Places
    <3>2. run'[r].until = run[r].until  BY <1>0, <3>1, GotoRun DEF Becomes
    <3> QED  BY <1>2, <1>4, <3>1, <3>2 DEF InHandlers, At
  <2>4. CASE RecordTime(r)
    <3>1. Goto(r, "release") /\ run[r].at = "record" /\ "release" \in Places
          /\ cronLock' = cronLock
      BY <2>4 DEF RecordTime, At, Places
    <3>2. run'[r].until = run[r].until  BY <1>0, <3>1, GotoRun DEF Becomes
    <3> QED  BY <1>2, <1>4, <3>1, <3>2 DEF InHandlers, At
  <2>5. ~Start(r)  BY <1>0, <2>1, StartRun DEF Becomes
  <2>6. ~Stop(r)  BY <1>0, <2>1, StopRun DEF Becomes
  <2>7. ~NextItem(r)  BY <1>0, <2>1, NextItemRun DEF Becomes
  <2>8. ~Refuse(r)
    <3>1. "queue" \in Places  BY DEF Places
    <3> QED  BY <1>0, <2>1, <3>1, GotoRun DEF Becomes, Refuse
  <2>9. ~Process(r)
    <3>1. "delete" \in Places  BY DEF Places
    <3> QED  BY <1>0, <2>1, <3>1, GotoRun DEF Becomes, Process
  <2>10. ~CheckTime(r)
    <3>1. "select" \in Places  BY DEF Places
    <3>2. ~Goto(r, "select")  BY <1>0, <2>1, <3>1, GotoRun DEF Becomes
    <3> QED  BY <2>6, <3>2 DEF CheckTime
  <2>11. ~ReleaseLock(r)  BY <1>0, <2>1, ReleaseLockRun DEF Becomes
  <2>12. ~BeginQueue(r)  BY <1>0, <2>1, BeginQueueRun DEF Becomes
  <2>13. ~SelectItem(r)
    <3>1. CASE Available = {}  BY <2>6, <3>1 DEF SelectItem
    <3>2. CASE Available # {}  BY <1>0, <2>1, <3>2, SelectRun DEF Becomes
    <3> QED  BY <3>1, <3>2
  <2>14. ~ClaimItem(r)  BY <1>0, <2>1, ClaimRun, AgainRun DEF Becomes
  <2> QED  BY <2>2, <2>3, <2>4, <2>5, <2>6, <2>7, <2>8, <2>9, <2>10, <2>11,
              <2>12, <2>13, <2>14
           DEF Step, DeleteItem, DelayItem, RequeueItem, SuspendQueue, FailItem,
               Abort, Kill
<1> QED  BY <1>3, <1>4

\* A run that deletes has executed, and stays where it is but by its own steps.
LEMMA StepExec ==
  ASSUME Inv, NEW r \in Runs, Start(r) \/ Step(r) \/ Abort(r) \/ Kill(r)
  PROVE  ExecInv'
<1>0. TypeOK /\ ExecInv  BY DEF Inv
<1>1. Moves(r) /\ created' = created  BY StepMoves, StepSame
<1>2. executed \subseteq executed'
  BY DEF Step, Start, Acquire, Refuse, CollectGarbage, RecordTime, ReleaseLock,
         BeginQueue, CheckTime, SelectItem, ClaimItem, Process, DeleteItem,
         DelayItem, RequeueItem, SuspendQueue, FailItem, Abort, Kill
<1>3. \A i \in Queued : i \notin Queued' => At(r, {"delete"}) /\ i = Item(r)
  BY StepTable, TableTypes
<1>4. AtLeastOnce'
  BY <1>0, <1>1, <1>2, <1>3 DEF AtLeastOnce, ExecInv
<1>5. ASSUME NEW s \in Runs, At(s, {"delete"})'  PROVE Item(s)' \in executed'
  <2>1. CASE s # r
    <3>1. run'[s] = run[s]  BY <1>1, <2>1 DEF Moves
    <3> QED  BY <1>0, <1>2, <1>5, <3>1 DEF ExecInv, At, Item
  <2>2. CASE s = r
    <3>1. run'[r].at = "delete"  BY <1>5, <2>2 DEF At
    <3>2. CASE Process(r)
      <4>1. Goto(r, "delete") /\ "delete" \in Places
            /\ executed' = executed \cup {Item(r)}
        BY <3>2 DEF Process, Places
      <4>2. run'[r].item = run[r].item  BY <1>0, <4>1, GotoRun DEF Becomes
      <4> QED  BY <2>2, <4>1, <4>2 DEF Item
    <3>3. CASE ~Process(r)
      <4>1. ~Start(r)  BY <1>0, <3>1, StartRun DEF Becomes
      <4>2. ~Stop(r)  BY <1>0, <3>1, StopRun DEF Becomes
      <4>3. ~NextItem(r)  BY <1>0, <3>1, NextItemRun DEF Becomes
      <4>4. ~Goto(r, "queue") /\ ~Goto(r, "record") /\ ~Goto(r, "release")
            /\ ~Goto(r, "select")
        <5>1. {"queue", "record", "release", "select"} \subseteq Places
          BY DEF Places
        <5>2. ASSUME NEW p \in {"queue", "record", "release", "select"}, Goto(r, p)
              PROVE  FALSE
          <6>1. run'[r].at = p  BY <1>0, <5>1, <5>2, GotoRun DEF Becomes
          <6> QED  BY <3>1, <6>1
        <5> QED  BY <5>2
      <4>5. ~Acquire(r)  BY <1>0, <3>1, AcquireRun DEF Becomes
      <4>6. ~ReleaseLock(r)  BY <1>0, <3>1, ReleaseLockRun DEF Becomes
      <4>7. ~BeginQueue(r)  BY <1>0, <3>1, BeginQueueRun DEF Becomes
      <4>8. ~SelectItem(r)
        <5>1. CASE Available = {}  BY <4>2, <5>1 DEF SelectItem
        <5>2. CASE Available # {}  BY <1>0, <3>1, <5>2, SelectRun DEF Becomes
        <5> QED  BY <5>1, <5>2
      <4>9. ~ClaimItem(r)  BY <1>0, <3>1, ClaimRun, AgainRun DEF Becomes
      <4> QED  BY <3>3, <4>1, <4>2, <4>3, <4>4, <4>5, <4>6, <4>7, <4>8, <4>9
               DEF Step, Refuse, CollectGarbage, RecordTime, CheckTime,
                   DeleteItem, DelayItem, RequeueItem, SuspendQueue, FailItem,
                   Abort, Kill
    <3> QED  BY <3>2, <3>3
  <2> QED  BY <2>1, <2>2
<1> QED  BY <1>4, <1>5 DEF ExecInv

\* A run that works after its step did so before, or has claimed its item.
LEMMA StepWorker ==
  ASSUME Inv, NEW r \in Runs, Start(r) \/ Step(r) \/ Abort(r) \/ Kill(r),
         Working(r)'
  PROVE  /\ Item(r)' = Item(r) /\ delayedTo' = delayedTo
         /\ \/ Working(r) /\ run'[r].lease = run[r].lease /\ expire' = expire
            \/ /\ Item(r) \in Available /\ run'[r].lease = now + LeaseTime
               /\ expire' = [expire EXCEPT ![Item(r)] = now + LeaseTime]
<1>0. TypeOK  BY DEF Inv
<1>1. run'[r].at \in {"work", "delete"}  BY DEF Working, At
<1>2. CASE Process(r)
  <2>1. Goto(r, "delete") /\ "delete" \in Places /\ Working(r)
        /\ expire' = expire /\ delayedTo' = delayedTo
    BY <1>2 DEF Process, Places, Working, At
  <2>2. run'[r].item = run[r].item /\ run'[r].lease = run[r].lease
    BY <1>0, <2>1, GotoRun DEF Becomes
  <2> QED  BY <2>1, <2>2 DEF Item
<1>3. CASE ClaimItem(r) /\ Claimable(r)
  <2>1. run'[r].item = run[r].item /\ run'[r].lease = now + LeaseTime
    BY <1>0, <1>3, ClaimRun DEF Becomes
  <2>2. Item(r) \in Available /\ delayedTo' = delayedTo
        /\ expire' = [expire EXCEPT ![Item(r)] = now + LeaseTime]
    BY <1>3 DEF ClaimItem, Claimable, SetExpire, Available
  <2> QED  BY <2>1, <2>2 DEF Item
<1>4. CASE ~Process(r) /\ ~(ClaimItem(r) /\ Claimable(r))
  <2>1. ~Start(r)  BY <1>0, <1>1, StartRun DEF Becomes
  <2>2. ~Stop(r)  BY <1>0, <1>1, StopRun DEF Becomes
  <2>3. ~NextItem(r)  BY <1>0, <1>1, NextItemRun DEF Becomes
  <2>4. ~Goto(r, "queue") /\ ~Goto(r, "record") /\ ~Goto(r, "release")
        /\ ~Goto(r, "select")
    <3>1. {"queue", "record", "release", "select"} \subseteq Places
      BY DEF Places
    <3>2. ASSUME NEW p \in {"queue", "record", "release", "select"}, Goto(r, p)
          PROVE  FALSE
      <4>1. run'[r].at = p  BY <1>0, <3>1, <3>2, GotoRun DEF Becomes
      <4> QED  BY <1>1, <4>1
    <3> QED  BY <3>2
  <2>5. ~Acquire(r)  BY <1>0, <1>1, AcquireRun DEF Becomes
  <2>6. ~ReleaseLock(r)  BY <1>0, <1>1, ReleaseLockRun DEF Becomes
  <2>7. ~BeginQueue(r)  BY <1>0, <1>1, BeginQueueRun DEF Becomes
  <2>8. ~SelectItem(r)
    <3>1. CASE Available = {}  BY <2>2, <3>1 DEF SelectItem
    <3>2. CASE Available # {}  BY <1>0, <1>1, <3>2, SelectRun DEF Becomes
    <3> QED  BY <3>1, <3>2
  <2>9. ~ClaimItem(r)  BY <1>0, <1>1, <1>4, AgainRun DEF Becomes
  <2> QED  BY <1>4, <2>1, <2>2, <2>3, <2>4, <2>5, <2>6, <2>7, <2>8, <2>9
           DEF Step, Refuse, CollectGarbage, RecordTime, CheckTime,
               DeleteItem, DelayItem, RequeueItem, SuspendQueue, FailItem,
               Abort, Kill
<1> QED  BY <1>2, <1>3, <1>4

\* The item of a worker that nobody was late with is not available, and no
\* other run has it.
LEMMA ItsOwn ==
  ASSUME Inv, NEW s \in Runs, Working(s), Item(s) \notin late
  PROVE  /\ Item(s) \in Queued /\ Item(s) \notin Available
         /\ expire[Item(s)] = run[s].lease /\ now <= run[s].lease
         /\ delayedTo[Item(s)] <= now
         /\ \A r \in Runs : Working(r) /\ Item(r) = Item(s) => r = s
         /\ \A r \in Runs : Item(s) \notin Expired(r)
<1>1. Leased(s)  BY DEF Inv, WorkInv
<1>2. /\ Item(s) \in Queued /\ expire[Item(s)] = run[s].lease
      /\ now <= run[s].lease /\ delayedTo[Item(s)] <= now
  BY <1>1 DEF Leased
<1>3. now \in Nat /\ now >= 1 /\ run[s].lease \in Nat
  BY FieldTypes DEF Inv, TypeOK, TimeInv
<1>4. expire[Item(s)] # 0  BY <1>2, <1>3
<1>5. ASSUME NEW r \in Runs  PROVE Item(s) \notin Expired(r)
  <2>1. run[r].started <= now /\ run[r].started \in Nat
    BY FieldTypes DEF Inv, TimeInv
  <2>2. ~ (expire[Item(s)] < run[r].started)  BY <1>2, <1>3, <2>1
  <2> QED  BY <2>2 DEF Expired
<1>6. \A r \in Runs : Working(r) /\ Item(r) = Item(s) => r = s
  BY DEF Inv, WorkInv
<1> QED  BY <1>2, <1>4, <1>5, <1>6 DEF Available

\* A step of r leaves the item of another worker alone.
LEMMA StepOther ==
  ASSUME Inv, NEW r \in Runs, Table(r), NEW s \in Runs, s # r, Working(s),
         Item(s) \notin late
  PROVE  Item(s) \in Queued' /\ expire'[Item(s)] = expire[Item(s)]
         /\ delayedTo'[Item(s)] = delayedTo[Item(s)]
<1>1. /\ Item(s) \in Queued /\ Item(s) \notin Available
      /\ \A q \in Runs : Working(q) /\ Item(q) = Item(s) => q = s
      /\ Item(s) \notin Expired(r)
  BY ItsOwn
<1>2. At(r, {"delete"}) \/ At(r, {"work"}) => Item(r) # Item(s)
  BY <1>1 DEF Working, At
<1>3. Item(s) \in Queued'
  BY <1>1, <1>2, TableTypes
<1>4. expire \in [Queued -> Nat] /\ delayedTo \in [Items -> Nat]
      /\ Item(s) \in Items
  BY <1>1, AvailableItems DEF Inv, TypeOK
<1>5. CASE expire' = expire /\ delayedTo' = delayedTo  BY <1>3, <1>5
<1>6. CASE expire' = [i \in Queued |-> IF i \in Expired(r) THEN 0 ELSE expire[i]]
           /\ delayedTo' = delayedTo
  BY <1>1, <1>3, <1>6
<1>7. CASE Item(r) \in Available /\ delayedTo' = delayedTo
           /\ expire' = [expire EXCEPT ![Item(r)] = now + LeaseTime]
  BY <1>1, <1>3, <1>4, <1>7
<1>8. CASE At(r, {"delete"}) /\ delayedTo' = delayedTo
           /\ expire' = [i \in Queued \ {Item(r)} |-> expire[i]]
  BY <1>1, <1>2, <1>3, <1>8
<1>9. CASE At(r, {"work"}) /\
        \E d \in Delays :
          /\ expire' = IF Item(r) \in Queued
                       THEN [expire EXCEPT ![Item(r)] = now + d] ELSE expire
          /\ delayedTo' = [delayedTo EXCEPT ![Item(r)] = now + d]
  BY <1>1, <1>2, <1>3, <1>4, <1>9
<1>10. CASE At(r, {"work"}) /\ delayedTo' = delayedTo
            /\ expire' = IF Item(r) \in Queued
                         THEN [expire EXCEPT ![Item(r)] = 0] ELSE expire
  BY <1>1, <1>2, <1>3, <1>4, <1>10
<1> QED  BY <1>5, <1>6, <1>7, <1>8, <1>9, <1>10 DEF Table

LEMMA StepWork ==
  ASSUME Inv, NEW r \in Runs, Start(r) \/ Step(r) \/ Abort(r) \/ Kill(r)
  PROVE  WorkInv'
<1>0. Table(r)  BY StepTable
<1>1. Moves(r) /\ now' = now /\ late' = late  BY StepMoves, StepSame
<1>2. \A s \in Runs : s # r => run'[s] = run[s]  BY <1>1 DEF Moves
<1>3. \A s \in Runs : s # r => /\ Working(s)' <=> Working(s)
                              /\ Item(s)' = Item(s)
  BY <1>2 DEF Working, At, Item
<1>4. ASSUME NEW s \in Runs, Working(s)', Item(s)' \notin late'
      PROVE  Leased(s)'
  <2>1. CASE s # r
    <3>1. Working(s) /\ Item(s)' = Item(s) /\ Item(s) \notin late
      BY <1>1, <1>3, <1>4, <2>1
    <3>2. run'[s].lease = run[s].lease  BY <1>2, <2>1
    <3>3. Item(s) \in Queued' /\ expire'[Item(s)] = expire[Item(s)]
          /\ delayedTo'[Item(s)] = delayedTo[Item(s)]
      BY <1>0, <2>1, <3>1, StepOther
    <3>4. /\ expire[Item(s)] = run[s].lease /\ now <= run[s].lease
          /\ delayedTo[Item(s)] <= now
      BY <3>1, ItsOwn
    <3> QED  BY <1>1, <3>1, <3>2, <3>3, <3>4 DEF Leased
  <2>2. CASE s = r
    <3>1. Working(r)' /\ Item(r)' \notin late  BY <1>1, <1>4, <2>2
    <3>2. Item(r)' = Item(r) /\ delayedTo' = delayedTo  BY <3>1, StepWorker
    <3>3. CASE Working(r) /\ run'[r].lease = run[r].lease /\ expire' = expire
      <4>1. Leased(r)  BY <3>1, <3>2, <3>3 DEF Inv, WorkInv
      <4> QED  BY <1>1, <2>2, <3>2, <3>3, <4>1 DEF Leased, Queued
    <3>4. CASE /\ Item(r) \in Available /\ run'[r].lease = now + LeaseTime
               /\ expire' = [expire EXCEPT ![Item(r)] = now + LeaseTime]
      <4>1. Item(r) \in Queued /\ expire[Item(r)] = 0 /\ Item(r) \in Items
        BY <3>4, AvailableItems DEF Inv, Available
      <4>2. delayedTo[Item(r)] <= now
        <5>1. delayedTo[Item(r)] <= now \/ delayedTo[Item(r)] <= 0
          BY <3>1, <3>2, <4>1 DEF Inv, DelayInv
        <5>2. delayedTo[Item(r)] \in Nat /\ now \in Nat
          BY <4>1 DEF Inv, TypeOK
        <5> QED  BY <5>1, <5>2
      <4>3. expire \in [Queued -> Nat]  BY DEF Inv, TypeOK
      <4>4. Item(r) \in Queued' /\ expire'[Item(r)] = now + LeaseTime
        BY <3>4, <4>1, <4>3 DEF Queued
      <4>5. now <= now + LeaseTime  BY LeaseIsNat DEF Inv, TypeOK
      <4> QED  BY <1>1, <2>2, <3>2, <3>4, <4>2, <4>4, <4>5 DEF Leased
    <3> QED  BY <3>1, <3>3, <3>4, StepWorker
  <2> QED  BY <2>1, <2>2
<1>5. ASSUME NEW s \in Runs, Working(s)', s # r, Working(r)',
             Item(r)' = Item(s)', Item(s)' \notin late'
      PROVE  FALSE
  <2>1. Working(s) /\ Item(s) \notin late /\ Item(r) = Item(s)
    <3>1. Item(r)' = Item(r)  BY <1>5, StepWorker
    <3> QED  BY <1>1, <1>3, <1>5, <3>1
  <2>2. Working(r) \/ Item(r) \in Available  BY <1>5, StepWorker
  <2> QED  BY <1>5, <2>1, <2>2, ItsOwn
<1>6. ASSUME NEW q \in Runs, NEW s \in Runs, Working(q)', Working(s)',
             Item(q)' = Item(s)', Item(q)' \notin late'
      PROVE  q = s
  <2>1. CASE q # r /\ s # r
    <3>1. Working(q) /\ Working(s) /\ Item(q) = Item(s) /\ Item(s) \notin late
      BY <1>1, <1>3, <1>6, <2>1
    <3> QED  BY <3>1, ItsOwn
  <2>2. CASE q = r /\ s # r  BY <1>5, <1>6, <2>2
  <2>3. CASE q # r /\ s = r  BY <1>5, <1>6, <2>3
  <2> QED  BY <2>1, <2>2, <2>3
<1> QED  BY <1>4, <1>6 DEF WorkInv

LEMMA StepDelay ==
  ASSUME Inv, NEW r \in Runs, Start(r) \/ Step(r) \/ Abort(r) \/ Kill(r)
  PROVE  DelayInv'
<1>0. Table(r)  BY StepTable
<1>1. now' = now /\ late' = late /\ created' = created  BY StepSame
<1>2. /\ Queued' \subseteq Queued /\ expire \in [Queued -> Nat]
      /\ delayedTo \in [Items -> Nat] /\ now \in Nat /\ Queued \subseteq Items
  BY <1>0, TableTypes, AvailableItems DEF Inv, TypeOK
<1>3. DelayInv  BY DEF Inv
<1>4. Item(r) \in 0 .. created /\ created \in Nat
  BY AvailableItems DEF Inv, TimeInv
<1>5. ASSUME NEW i \in Items, i > created  PROVE delayedTo'[i] = 0
  <2>1. delayedTo[i] = 0  BY <1>3, <1>5 DEF DelayInv
  <2>2. i # Item(r)  BY <1>4, <1>5
  <2>3. delayedTo' = delayedTo \/ \E d \in Delays :
                                    delayedTo' = [delayedTo EXCEPT ![Item(r)] = now + d]
    BY <1>0 DEF Table
  <2> QED  BY <1>2, <2>1, <2>2, <2>3
<1>6. ASSUME NEW i \in Queued', i \notin late
      PROVE  delayedTo'[i] <= now \/ delayedTo'[i] <= expire'[i]
  <2>1. i \in Queued /\ i \in Items /\ delayedTo[i] \in Nat /\ expire[i] \in Nat
        /\ (delayedTo[i] <= now \/ delayedTo[i] <= expire[i])
    BY <1>2, <1>3, <1>6 DEF DelayInv
  <2>2. CASE expire' = expire /\ delayedTo' = delayedTo  BY <2>1, <2>2
  <2>3. CASE expire' = [j \in Queued |-> IF j \in Expired(r) THEN 0 ELSE expire[j]]
             /\ delayedTo' = delayedTo
    <3>1. CASE i \notin Expired(r)  BY <2>1, <2>3, <3>1
    <3>2. CASE i \in Expired(r)
      <4>1. expire[i] < run[r].started  BY <3>2 DEF Expired
      <4>2. run[r].started <= now /\ run[r].started \in Nat
        BY FieldTypes DEF Inv, TimeInv
      <4>3. delayedTo[i] <= now  BY <1>2, <2>1, <4>1, <4>2
      <4> QED  BY <2>3, <4>3
    <3> QED  BY <3>1, <3>2
  <2>4. CASE Item(r) \in Available /\ delayedTo' = delayedTo
             /\ expire' = [expire EXCEPT ![Item(r)] = now + LeaseTime]
    <3>1. CASE i # Item(r)  BY <1>2, <2>1, <2>4, <3>1
    <3>2. CASE i = Item(r)
      <4>1. expire[i] = 0  BY <2>4, <3>2 DEF Available
      <4>2. delayedTo[i] <= now  BY <1>2, <2>1, <4>1
      <4> QED  BY <2>4, <4>2
    <3> QED  BY <3>1, <3>2
  <2>5. CASE expire' = [j \in Queued \ {Item(r)} |-> expire[j]]
             /\ delayedTo' = delayedTo
    <3>1. i \in Queued \ {Item(r)}  BY <1>6, <2>5 DEF Queued
    <3> QED  BY <2>1, <2>5, <3>1
  <2>6. ASSUME NEW d \in Delays,
               expire' = IF Item(r) \in Queued
                         THEN [expire EXCEPT ![Item(r)] = now + d] ELSE expire,
               delayedTo' = [delayedTo EXCEPT ![Item(r)] = now + d]
        PROVE  delayedTo'[i] <= now \/ delayedTo'[i] <= expire'[i]
    <3>1. CASE i # Item(r)  BY <1>2, <2>1, <2>6, <3>1
    <3>2. CASE i = Item(r)
      <4>1. expire'[i] = now + d /\ delayedTo'[i] = now + d
        BY <1>2, <2>1, <2>6, <3>2
      <4>2. now + d \in Nat  BY <1>2, CronAssumption
      <4> QED  BY <4>1, <4>2
    <3> QED  BY <3>1, <3>2
  <2>7. CASE /\ At(r, {"work"}) /\ delayedTo' = delayedTo
             /\ expire' = IF Item(r) \in Queued
                          THEN [expire EXCEPT ![Item(r)] = 0] ELSE expire
    <3>1. CASE i # Item(r)  BY <1>2, <2>1, <2>7, <3>1
    <3>2. CASE i = Item(r)
      <4>1. Working(r)  BY <2>7 DEF Working, At
      <4>2. delayedTo[i] <= now  BY <1>6, <3>2, <4>1, ItsOwn
      <4> QED  BY <2>7, <4>2
    <3> QED  BY <3>1, <3>2
  <2> QED  BY <1>0, <2>2, <2>3, <2>4, <2>5, <2>6, <2>7 DEF Table
<1> QED  BY <1>1, <1>5, <1>6 DEF DelayInv

\* A new item is available and was never delayed.
LEMMA CreateInv ==
  ASSUME Inv, CreateItem
  PROVE  Inv'
<1>1. /\ created' = created + 1 /\ created < ItemCount
      /\ expire' = [i \in Queued \cup {created + 1} |->
                      IF i \in Queued THEN expire[i] ELSE 0]
      /\ declared' = declared /\ now' = now /\ cronLock' = cronLock
      /\ cronLast' = cronLast /\ run' = run /\ executed' = executed
      /\ late' = late /\ delayedTo' = delayedTo
  BY DEF CreateItem
<1>2. /\ Queued \subseteq 1 .. created /\ created \in Nat /\ ItemCount \in Nat
      /\ 1 .. created \subseteq Items
  BY AvailableItems, CronAssumption DEF Inv
<1>3. /\ created + 1 \in 0 .. ItemCount /\ created + 1 \in Items
      /\ 1 .. created \subseteq 1 .. created + 1
      /\ \A i \in 1 .. created + 1 : i \in 1 .. created \/ i = created + 1
      /\ \A i \in 0 .. created : i \in 0 .. created + 1
      /\ \A i \in Items : i > created + 1 => i > created
  BY <1>1, <1>2 DEF Items
<1>4. Queued' = Queued \cup {created + 1}  BY <1>1 DEF Queued
<1>5. \A i \in Queued : expire'[i] = expire[i]  BY <1>1
<1>6. expire \in [Queued -> Nat]  BY DEF Inv, TypeOK
<1>7. /\ \A r \in Runs : /\ Working(r)' <=> Working(r)
                         /\ Item(r)' = Item(r)
                         /\ InHandlers(r)' <=> InHandlers(r)
  BY <1>1 DEF Working, At, Item, InHandlers
<1>8. TypeOK'
  <2>1. expire' \in [Queued' -> Nat]  BY <1>1, <1>4, <1>6
  <2>2. Queued' \subseteq 1 .. created'
    <3>1. created + 1 \in 1 .. created + 1  BY <1>2
    <3> QED  BY <1>1, <1>2, <1>3, <1>4, <3>1
  <2>3. executed' \subseteq 1 .. created'  BY <1>1, <1>3 DEF Inv, TypeOK
  <2>4. created' \in 0 .. ItemCount  BY <1>1, <1>3
  <2>5. \A r \in Runs : Item(r)' # 0 <=> At(r, {"update", "work", "delete"})'
    BY <1>1 DEF Inv, TypeOK, Item, At
  <2> QED  BY <1>1, <2>1, <2>2, <2>3, <2>4, <2>5 DEF Inv, TypeOK
<1>9. TimeInv'  BY <1>1, <1>3, <1>7 DEF Inv, TimeInv
<1>10. LockInv'  BY <1>1, <1>7 DEF Inv, LockInv
<1>11. ExecInv'
  <2>1. AtLeastOnce'
    BY <1>1, <1>3, <1>4 DEF Inv, ExecInv, AtLeastOnce
  <2> QED  BY <1>1, <2>1 DEF Inv, ExecInv, At, Item
<1>12. WorkInv'
  <2>1. \A r \in Runs : Leased(r) => Leased(r)'
    BY <1>1, <1>4, <1>5, <1>7 DEF Leased
  <2>2. WorkInv  BY DEF Inv
  <2> QED  BY <1>1, <1>7, <2>1, <2>2 DEF WorkInv
<1>13. DelayInv'
  <2>1. DelayInv /\ now >= 1 /\ now \in Nat  BY DEF Inv, TimeInv, TypeOK
  <2>2. \A i \in Items : i > created + 1 => delayedTo'[i] = 0
    BY <1>1, <1>3, <2>1 DEF DelayInv
  <2>3. created + 1 > created  BY <1>2
  <2>4. delayedTo[created + 1] = 0  BY <1>3, <2>1, <2>3 DEF DelayInv
  <2>5. delayedTo'[created + 1] <= now'  BY <1>1, <2>1, <2>4
  <2>6. \A i \in Queued \ late : delayedTo'[i] <= now' \/ delayedTo'[i] <= expire'[i]
    BY <1>1, <1>5, <2>1 DEF DelayInv
  <2>7. \A i \in Queued' \ late' : delayedTo'[i] <= now' \/ delayedTo'[i] <= expire'[i]
    BY <1>1, <1>4, <2>5, <2>6
  <2>8. \A i \in Items : i > created' => delayedTo'[i] = 0  BY <1>1, <2>2
  <2> QED  BY <2>7, <2>8 DEF DelayInv
<1> QED  BY <1>8, <1>9, <1>10, <1>11, <1>12, <1>13 DEF Inv

\* Time passes: who outstays its lease is late.
LEMMA TickInv ==
  ASSUME Inv, Tick
  PROVE  Inv'
<1>1. /\ now' = now + 1 /\ late' = late \cup {Item(r) : r \in {s \in Runs :
                                   Working(s) /\ run[s].lease < now'}}
      /\ declared' = declared /\ cronLock' = cronLock /\ cronLast' = cronLast
      /\ created' = created /\ expire' = expire /\ run' = run
      /\ executed' = executed /\ delayedTo' = delayedTo
  BY DEF Tick
<1>2. now \in Nat /\ now + 1 \in Nat /\ now < now + 1  BY DEF Inv, TypeOK
<1>3. /\ Queued' = Queued /\ late \subseteq late'
      /\ \A r \in Runs : Working(r) /\ run[r].lease < now' => Item(r) \in late'
  BY <1>1 DEF Queued
<1>4. \A r \in Runs : /\ Working(r)' <=> Working(r)
                      /\ Item(r)' = Item(r)
                      /\ InHandlers(r)' <=> InHandlers(r)
  BY <1>1 DEF Working, At, Item, InHandlers
<1>5. \A r \in Runs : /\ run[r].started \in Nat /\ run[r].lease \in Nat
                      /\ run[r].until \in Nat /\ run[r].item \in 0 .. ItemCount
  BY FieldTypes DEF Inv
<1>6. TypeOK'
  <2>1. ASSUME NEW r \in Runs, Working(r)  PROVE Item(r) \in Items
    <3>1. Item(r) # 0  BY <2>1 DEF Inv, TypeOK, Working, At, Item
    <3>2. ItemCount \in Nat  BY CronAssumption
    <3> QED  BY <1>5, <3>1, <3>2 DEF Item, Items
  <2>2. late' \subseteq Items  BY <1>1, <2>1 DEF Inv, TypeOK
  <2>3. \A r \in Runs : Item(r)' # 0 <=> At(r, {"update", "work", "delete"})'
    BY <1>1 DEF Inv, TypeOK, Item, At
  <2> QED  BY <1>1, <1>2, <1>3, <2>2, <2>3 DEF Inv, TypeOK
<1>7. TimeInv'
  <2>1. now' >= 1  BY <1>1, <1>2
  <2>2. \A r \in Runs : run[r].started <= now'
    BY <1>1, <1>2, <1>5 DEF Inv, TimeInv
  <2> QED  BY <1>1, <1>4, <2>1, <2>2 DEF Inv, TimeInv
<1>8. LockInv'
  <2>1. \A r \in Runs : now' <= run[r].until => now <= run[r].until
    BY <1>1, <1>2, <1>5
  <2> QED  BY <1>1, <1>4, <2>1 DEF Inv, LockInv
<1>9. ExecInv'
  BY <1>1, <1>3 DEF Inv, ExecInv, AtLeastOnce, At, Item
<1>10. WorkInv'
  <2>1. WorkInv  BY DEF Inv
  <2>2. ASSUME NEW r \in Runs, Working(r), Item(r) \notin late'
        PROVE  Leased(r)'
    <3>1. Leased(r)  BY <1>3, <2>1, <2>2 DEF WorkInv
    <3>2. now' <= run[r].lease  BY <1>1, <1>2, <1>3, <1>5, <2>2
    <3>3. delayedTo[Item(r)] <= now'
      <4>1. Item(r) \in Items /\ delayedTo \in [Items -> Nat]
        BY <3>1, AvailableItems DEF Leased, Inv, TypeOK
      <4>2. delayedTo[Item(r)] <= now /\ delayedTo[Item(r)] \in Nat
        BY <3>1, <4>1 DEF Leased
      <4> QED  BY <1>1, <1>2, <4>2
    <3> QED  BY <1>1, <1>3, <1>4, <3>1, <3>2, <3>3 DEF Leased
  <2> QED  BY <1>3, <1>4, <2>1, <2>2 DEF WorkInv
<1>11. DelayInv'
  <2>1. DelayInv /\ delayedTo \in [Items -> Nat] /\ Queued \subseteq Items
    BY AvailableItems DEF Inv, TypeOK
  <2>2. ASSUME NEW i \in Queued', i \notin late'
        PROVE  delayedTo'[i] <= now' \/ delayedTo'[i] <= expire'[i]
    <3>1. i \in Queued /\ i \notin late /\ delayedTo[i] \in Nat
      BY <1>3, <2>1, <2>2
    <3>2. delayedTo[i] <= now \/ delayedTo[i] <= expire[i]
      BY <2>1, <3>1 DEF DelayInv
    <3>3. delayedTo[i] <= now => delayedTo[i] <= now + 1  BY <1>2, <3>1
    <3> QED  BY <1>1, <3>2, <3>3
  <2>3. \A i \in Items : i > created' => delayedTo'[i] = 0
    BY <1>1, <2>1 DEF DelayInv
  <2> QED  BY <2>2, <2>3 DEF DelayInv
<1> QED  BY <1>6, <1>7, <1>8, <1>9, <1>10, <1>11 DEF Inv

LEMMA SameInv ==
  ASSUME Inv, UNCHANGED vars
  PROVE  Inv'
<1>1. \A r \in Runs : /\ Working(r)' <=> Working(r) /\ Item(r)' = Item(r)
                      /\ InHandlers(r)' <=> InHandlers(r)
  BY DEF vars, Working, At, Item, InHandlers
<1>2. TypeOK'  BY DEF Inv, TypeOK, vars, Queued, Item, At
<1>3. TimeInv' /\ LockInv' /\ ExecInv'
  BY <1>1 DEF Inv, TimeInv, LockInv, ExecInv, AtLeastOnce, Queued, At, vars, Item
<1>4. WorkInv' /\ DelayInv'
  BY <1>1 DEF Inv, WorkInv, DelayInv, Leased, Queued, vars
<1> QED  BY <1>2, <1>3, <1>4 DEF Inv

LEMMA NextInv == Inv /\ [Next]_vars => Inv'
<1> SUFFICES ASSUME Inv, [Next]_vars  PROVE Inv'  OBVIOUS
<1>1. ASSUME NEW r \in Runs, Start(r) \/ Step(r) \/ Abort(r) \/ Kill(r)
      PROVE  Inv'
  BY <1>1, StepType, StepTime, StepLock, StepExec, StepWork, StepDelay DEF Inv
<1> QED  BY <1>1, CreateInv, TickInv, SameInv DEF Next

LEMMA Invariance == Spec => []Inv
  BY InitInv, NextInv, PTL DEF Spec

-----------------------------------------------------------------------------
(* What follows for the properties.                                          *)

\* The variables keep their types, and a run has an item exactly while it
\* claims, executes or deletes one (Cron::processQueues()).
THEOREM TypeCorrect == Spec => []TypeOK
<1>1. Inv => TypeOK  BY DEF Inv
<1> QED  BY <1>1, Invariance, PTL

\* No item leaves the table of DatabaseQueue before a worker has processed it
\* to the end, for any number of overlapping cron runs.
THEOREM EachItemIsExecuted == Spec => []AtLeastOnce
<1>1. Inv => AtLeastOnce  BY DEF Inv, ExecInv
<1> QED  BY <1>1, Invariance, PTL

\* Two runs have claimed the same item only if one of them outstayed its
\* lease on it (DatabaseQueue::claimItem(), garbageCollection()).
THEOREM ItemsAreShared == Spec => []SharedOnlyIfLate
<1>1. Inv => SharedOnlyIfLate
  <2> SUFFICES ASSUME Inv, NEW i \in Items, i \notin late
               PROVE  ~ (Cardinality(Workers(i)) > 1)
    BY DEF SharedOnlyIfLate
  <2>1. \A r, s \in Workers(i) : r = s  BY DEF Inv, WorkInv, Workers
  <2>2. CASE Workers(i) = {}  BY <2>2, FS_EmptySet
  <2>3. CASE Workers(i) # {}
    <3>1. PICK r : r \in Workers(i)  BY <2>3
    <3>2. Workers(i) = {r}  BY <2>1, <3>1
    <3>3. Cardinality({r}) = 1  BY FS_Singleton
    <3> QED  BY <3>2, <3>3
  <2> QED  BY <2>2, <2>3
<1> QED  BY <1>1, Invariance, PTL

\* Two runs are in the hook_cron handlers only if one of them has outlived
\* the lock it acquired, whoever released or lost it (Cron::run()).
THEOREM HandlersAreExclusive == Spec => []HandlersExclusive
<1>1. Inv => HandlersExclusive
  BY DEF Inv, LockInv, HandlersExclusive
<1> QED  BY <1>1, Invariance, PTL

\* A delayed item is handed out when its delay is over, unless a worker
\* outstayed its lease on it (DatabaseQueue::delayItem(), claimItem()).
THEOREM DelaysAreRespected == Spec => DelayRespected
<1> DEFINE Respects == \A r \in Runs :
                         At(r, {"update"}) /\ Working(r)' /\ Item(r) \notin late
                           => now >= delayedTo[Item(r)]
<1>1. ASSUME Inv, NEW r \in Runs, NEW s \in Runs, At(r, {"update"}), Working(r)',
             Item(r) \notin late, Start(s) \/ Step(s) \/ Abort(s) \/ Kill(s)
      PROVE  now >= delayedTo[Item(r)]
  <2>1. ~Working(r)  BY <1>1 DEF Working, At
  <2>2. s = r
    <3>1. \A q \in Runs : q # s => run'[q] = run[q]
      BY <1>1, StepMoves DEF Moves
    <3> QED  BY <1>1, <2>1, <3>1 DEF Working, At
  <2>3. Item(r) \in Available  BY <1>1, <2>1, <2>2, StepWorker
  <2>4. /\ Item(r) \in Queued /\ Item(r) \in Items /\ expire[Item(r)] = 0
        /\ delayedTo[Item(r)] \in Nat /\ now \in Nat
    BY <1>1, <2>3, AvailableItems DEF Inv, TypeOK, Available
  <2>5. delayedTo[Item(r)] <= now \/ delayedTo[Item(r)] <= expire[Item(r)]
    BY <1>1, <2>4 DEF Inv, DelayInv
  <2> QED  BY <2>4, <2>5
<1>2. ASSUME Inv, run' = run  PROVE Respects
  BY <1>2 DEF Working, At
<1>3. Inv /\ [Next]_vars => Respects
  <2> SUFFICES ASSUME Inv, [Next]_vars  PROVE Respects  OBVIOUS
  <2>1. CASE CreateItem \/ Tick \/ UNCHANGED vars
    BY <1>2, <2>1 DEF CreateItem, Tick, vars
  <2>2. ASSUME NEW s \in Runs, Start(s) \/ Step(s) \/ Abort(s) \/ Kill(s)
        PROVE  Respects
    BY <1>1, <2>2
  <2> QED  BY <2>1, <2>2 DEF Next
<1>4. Inv /\ [Next]_vars => [Respects]_vars  BY <1>3
<1> QED  BY <1>4, Invariance, PTL DEF Spec, DelayRespected
=============================================================================
