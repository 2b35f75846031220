-------------------------- MODULE DatabaseLockProofs --------------------------
(***************************************************************************)
(* Proofs about DatabaseLock for any number of requests, names, timeouts   *)
(* and clock ticks.  The type invariant comes first; LeaseHonoured and     *)
(* NoStrayRow are inductive relative to it; mutual exclusion follows.      *)
(***************************************************************************)
EXTENDS DatabaseLock, TLAPS

--------------------------------------------------------------------------------
(* Frames *)

(* A call record built by any of the Begin actions is a frame. *)
LEMMA CallType ==
  ASSUME NEW p \in Requests, NEW n \in Names,
         NEW c \in {"acquire", "wait", "request"}, NEW place \in Places
  PROVE  Call(p, n, c, place) \in Frame
BY DEF Call, Frame

(* A request at a statement of the service has a full frame. *)
LEMMA FrameOfCall ==
  ASSUME TypeOK, NEW p \in Requests, Calling(p)
  PROVE  frame[p] \in Frame /\ NameOf(p) \in Names
BY DEF TypeOK, Calling, Frame, Outside, Places, NameOf

LEMMA SmallerType == ASSUME NEW a \in Nat, NEW b \in Nat
                     PROVE  Smaller(a, b) \in Nat
BY DEF Smaller

(* Going to another statement keeps the frames typed. *)
LEMMA GotoType ==
  ASSUME TypeOK, NEW p \in Requests, Calling(p),
         NEW place \in Places, Goto(p, place)
  PROVE  frame' \in [Requests -> Frame \cup Outside]
<1>1. frame[p] \in Frame  BY FrameOfCall
<1>2. [frame[p] EXCEPT !.at = place] \in Frame  BY <1>1 DEF Frame
<1> QED  BY <1>2 DEF Goto, TypeOK

(* So does leaving the service. *)
LEMMA LeaveType ==
  ASSUME TypeOK, NEW p \in Requests,
         NEW how \in {"idle", "ended", "killed"}, Leave(p, how)
  PROVE  frame' \in [Requests -> Frame \cup Outside]
<1>1. [at |-> how] \in Outside  BY DEF Outside
<1> QED  BY <1>1 DEF Leave, TypeOK

(* And returning from lockMayBeAvailable(). *)
LEMMA ReturnType ==
  ASSUME TypeOK, NEW p \in Requests, Calling(p), NEW r \in BOOLEAN, Return(p, r)
  PROVE  frame' \in [Requests -> Frame \cup Outside]
<1> DEFINE f == frame[p]
<1>1. f \in Frame /\ f.name \in Names /\ f.expire \in Nat /\ f.delay \in Nat
      /\ f.sleep \in Nat
  BY FrameOfCall DEF Frame
<1>2. CASE f.caller = "acquire" /\ r
  <2>1. frame' = [frame EXCEPT ![p] =
                    [Call(p, f.name, "acquire", "insert")
                       EXCEPT !.expire = f.expire, !.retry = TRUE]]
    BY <1>2 DEF Return, TypeOK
  <2>2. Call(p, f.name, "acquire", "insert") \in Frame
    BY <1>1, CallType DEF Places
  <2>3. [Call(p, f.name, "acquire", "insert")
           EXCEPT !.expire = f.expire, !.retry = TRUE] \in Frame
    BY <1>1, <2>2 DEF Frame
  <2> QED  BY <2>1, <2>3 DEF TypeOK
<1>3. CASE f.caller = "wait" /\ ~r /\ f.delay > 0
  <2>1. frame' = [frame EXCEPT ![p] =
                    [Call(p, f.name, "wait", "sleep")
                       EXCEPT !.delay = f.delay, !.sleep = f.sleep]]
    BY <1>3 DEF Return, TypeOK
  <2>2. Call(p, f.name, "wait", "sleep") \in Frame
    BY <1>1, CallType DEF Places
  <2>3. [Call(p, f.name, "wait", "sleep")
           EXCEPT !.delay = f.delay, !.sleep = f.sleep] \in Frame
    BY <1>1, <2>2 DEF Frame
  <2> QED  BY <2>1, <2>3 DEF TypeOK
<1>4. CASE /\ ~(f.caller = "acquire" /\ r)
           /\ ~(f.caller = "wait" /\ ~r /\ f.delay > 0)
  <2>1. Leave(p, "idle")  BY <1>4 DEF Return
  <2> QED  BY <2>1, LeaveType
<1> QED  BY <1>2, <1>3, <1>4

--------------------------------------------------------------------------------
(* Type correctness *)

LEMMA TypeOKNext ==
  ASSUME TypeOK, [Next]_vars
  PROVE  TypeOK'
<1> USE TimeAssumption
<1> DEFINE Frames == [Requests -> Frame \cup Outside]
<1>1. ASSUME NEW p \in Requests, NEW n \in Names, NEW t \in Timeouts,
             BeginAcquire(p, n, t)
      PROVE  TypeOK'
  <2> DEFINE c == Call(p, n, "acquire", IF n \in locks[p] THEN "extend"
                                                         ELSE "insert")
  <2>1. c \in Frame  BY CallType DEF Places
  <2>2. clock + Larger(t, MinTimeout) \in Nat  BY DEF Larger, TypeOK
  <2>3. [c EXCEPT !.expire = clock + Larger(t, MinTimeout)] \in Frame
    BY <2>1, <2>2 DEF Frame
  <2>4. frame' \in Frames  BY <1>1, <2>3 DEF BeginAcquire, TypeOK
  <2> QED  BY <1>1, <2>4 DEF BeginAcquire, TypeOK
<1>2. ASSUME NEW p \in Requests, Extend(p)
      PROVE  TypeOK'
  <2>1. Calling(p)  BY <1>2 DEF Extend, At, Calling, Places
  <2>2. frame[p].expire \in Nat /\ NameOf(p) \in Names
    BY <2>1, FrameOfCall DEF Frame
  <2>3. frame' \in Frames  BY <1>2, LeaveType DEF Extend
  <2>4. semaphore' \in [Names -> Row \cup {NoRow}]
    <3>1. ASSUME OwnRow(p, NameOf(p))
          PROVE  [semaphore[NameOf(p)] EXCEPT !.expire = frame[p].expire] \in Row
      BY <2>2, <3>1 DEF TypeOK, Row, OwnRow
    <3> QED  BY <1>2, <2>2, <3>1 DEF Extend, TypeOK
  <2>5. lease' \in [Requests -> [Names -> Nat]]
    BY <1>2, <2>2 DEF Extend, TypeOK
  <2> QED  BY <1>2, <2>3, <2>4, <2>5 DEF Extend, TypeOK
<1>3. ASSUME NEW p \in Requests, Insert(p)
      PROVE  TypeOK'
  <2>1. Calling(p)  BY <1>3 DEF Insert, At, Calling, Places
  <2>2. frame[p].expire \in Nat /\ NameOf(p) \in Names
    BY <2>1, FrameOfCall DEF Frame
  <2>3. frame' \in Frames  BY <1>3, <2>1, GotoType DEF Insert, Places
  <2>4. [value |-> p, expire |-> frame[p].expire] \in Row  BY <2>2 DEF Row
  <2> QED  BY <1>3, <2>2, <2>3, <2>4 DEF Insert, TypeOK
<1>4. ASSUME NEW p \in Requests, Remember(p)
      PROVE  TypeOK'
  <2>1. Calling(p)  BY <1>4 DEF Remember, At, Calling, Places
  <2>2. NameOf(p) \in Names  BY <2>1, FrameOfCall
  <2>3. frame' \in Frames  BY <1>4, LeaveType DEF Remember
  <2> QED  BY <1>4, <2>2, <2>3 DEF Remember, TypeOK
<1>5. ASSUME NEW p \in Requests, InsertConflict(p)
      PROVE  TypeOK'
  <2>1. Calling(p)  BY <1>5 DEF InsertConflict, At, Calling, Places
  <2>2. frame' \in Frames
    BY <1>5, <2>1, GotoType, LeaveType DEF InsertConflict, Places
  <2> QED  BY <1>5, <2>2 DEF InsertConflict, TypeOK
<1>6. ASSUME NEW p \in Requests, NEW n \in Names, BeginCheck(p, n)
      PROVE  TypeOK'
  <2>1. Call(p, n, "request", "select") \in Frame  BY CallType DEF Places
  <2> QED  BY <1>6, <2>1 DEF BeginCheck, TypeOK
<1>7. ASSUME NEW p \in Requests, Select(p)
      PROVE  TypeOK'
  <2>1. Calling(p)  BY <1>7 DEF Select, At, Calling, Places
  <2>2. frame[p] \in Frame /\ NameOf(p) \in Names  BY <2>1, FrameOfCall
  <2> DEFINE row == semaphore[NameOf(p)]
  <2>3. CASE row = NoRow
    BY <1>7, <2>1, <2>3, ReturnType DEF Select, TypeOK
  <2>4. CASE row # NoRow
    <3>1. row.expire \in Nat /\ row.value \in Requests
      BY <2>2, <2>4 DEF TypeOK, Row
    <3>2. [frame[p] EXCEPT !.at = "break", !.seen = row.expire,
                           !.victim = row.value] \in Frame
      BY <2>2, <3>1 DEF Frame, Places
    <3>3. frame' = [frame EXCEPT ![p] =
                      [frame[p] EXCEPT !.at = "break", !.seen = row.expire,
                                       !.victim = row.value]]
      BY <1>7, <2>2, <2>4 DEF Select, TypeOK
    <3>4. frame' \in Frames  BY <3>2, <3>3 DEF TypeOK
    <3> QED  BY <1>7, <3>4 DEF Select, TypeOK
  <2> QED  BY <2>3, <2>4
<1>8. ASSUME NEW p \in Requests, SeenAlive(p)
      PROVE  TypeOK'
  <2>1. Calling(p)  BY <1>8 DEF SeenAlive, At, Calling, Places
  <2> QED  BY <1>8, <2>1, ReturnType DEF SeenAlive, TypeOK
<1>9. ASSUME NEW p \in Requests, BreakExpired(p)
      PROVE  TypeOK'
  <2>1. Calling(p)  BY <1>9 DEF BreakExpired, At, Calling, Places
  <2>2. frame' \in Frames
    <3>1. Breakable(p) \in BOOLEAN  BY DEF Breakable
    <3> QED  BY <1>9, <2>1, <3>1, ReturnType DEF BreakExpired
  <2> QED  BY <1>9, <2>2 DEF BreakExpired, TypeOK
<1>10. ASSUME NEW p \in Requests, NEW n \in Names, NEW d \in Delays,
              BeginWait(p, n, d)
       PROVE  TypeOK'
  <2>1. Call(p, n, "wait", "sleep") \in Frame  BY CallType DEF Places
  <2>2. [Call(p, n, "wait", "sleep") EXCEPT !.delay = d, !.sleep = SleepStep]
          \in Frame
    BY <2>1 DEF Frame
  <2> QED  BY <1>10, <2>2 DEF BeginWait, TypeOK
<1>11. ASSUME NEW p \in Requests, Sleep(p)
       PROVE  TypeOK'
  <2> DEFINE left == Larger(0, frame[p].delay - frame[p].sleep)
             next == Smaller(Smaller(MaxSleep, frame[p].sleep + SleepStep), left)
  <2>1. Calling(p)  BY <1>11 DEF Sleep, At, Calling, Places
  <2>2. frame[p] \in Frame  BY <2>1, FrameOfCall
  <2>3. left \in Nat
    <3>1. frame[p].delay - frame[p].sleep \in Int  BY <2>2 DEF Frame
    <3> QED  BY <3>1 DEF Larger
  <2>4. next \in Nat
    <3>1. frame[p].sleep + SleepStep \in Nat  BY <2>2 DEF Frame
    <3> QED  BY <2>3, <3>1, SmallerType
  <2>5. [frame[p] EXCEPT !.at = "select", !.delay = left, !.sleep = next]
          \in Frame
    BY <2>2, <2>3, <2>4 DEF Frame, Places
  <2>6. frame' = [frame EXCEPT ![p] =
                    [frame[p] EXCEPT !.at = "select", !.delay = left,
                                     !.sleep = next]]
    BY <1>11, <2>2 DEF Sleep, TypeOK
  <2>7. frame' \in Frames  BY <2>5, <2>6 DEF TypeOK
  <2> QED  BY <1>11, <2>7 DEF Sleep, TypeOK
<1>12. ASSUME NEW p \in Requests, NEW n \in Names, Release(p, n)
       PROVE  TypeOK'
  BY <1>12 DEF Release, TypeOK
<1>13. ASSUME NEW p \in Requests, End(p) \/ Fatal(p)
       PROVE  TypeOK'
  <2>1. frame' \in Frames  BY <1>13, LeaveType DEF End, Fatal
  <2>2. releaseAll(p) /\ clock' = clock  BY <1>13 DEF End, Fatal
  <2>3. semaphore' \in [Names -> Row \cup {NoRow}]
    BY <2>2 DEF releaseAll, TypeOK
  <2> QED  BY <2>1, <2>2, <2>3 DEF releaseAll, Forget, TypeOK
<1>14. ASSUME NEW p \in Requests, Kill(p)
       PROVE  TypeOK'
  <2>1. frame' \in Frames  BY <1>14, LeaveType DEF Kill
  <2> QED  BY <1>14, <2>1 DEF Kill, Forget, TypeOK
<1>15. CASE Tick
  BY <1>15 DEF Tick, TypeOK
<1>16. CASE UNCHANGED vars
  BY <1>16 DEF vars, TypeOK
<1> QED  BY <1>1, <1>2, <1>3, <1>4, <1>5, <1>6, <1>7, <1>8, <1>9, <1>10, <1>11,
            <1>12, <1>13, <1>14, <1>15, <1>16 DEF Next, Continue, Begin

(* The table, the memories and the frames always have their types. *)
THEOREM TypeCorrect == Spec => []TypeOK
<1>1. Init => TypeOK
  BY DEF Init, TypeOK, Outside
<1>2. TypeOK /\ [Next]_vars => TypeOK'
  BY TypeOKNext
<1> QED  BY <1>1, <1>2, PTL DEF Spec

--------------------------------------------------------------------------------
(* How a step treats the table and what the requests hold *)

(* Whatever lockMayBeAvailable() returns, the request holds what it held.  *)
LEMMA ReturnKeepsOthers ==
  ASSUME TypeOK, NEW p \in Requests, NEW r \in BOOLEAN, Return(p, r),
         At(p, "select") \/ At(p, "break")
  PROVE  /\ \A q \in Requests : q # p => frame'[q] = frame[q]
         /\ frame'[p].at # "remember"
         /\ frame'[p].at # "killed"
<1> DEFINE f == frame[p]
<1>1. f \in Frame  BY FrameOfCall DEF At, Calling, Places
<1>2. CASE f.caller = "acquire" /\ r
  BY <1>2 DEF Return, TypeOK, Call
<1>3. CASE f.caller = "wait" /\ ~r /\ f.delay > 0
  BY <1>3 DEF Return, TypeOK, Call
<1>4. CASE /\ ~(f.caller = "acquire" /\ r)
           /\ ~(f.caller = "wait" /\ ~r /\ f.delay > 0)
  <2>1. Leave(p, "idle")  BY <1>4 DEF Return
  <2> QED  BY <2>1 DEF Leave, TypeOK
<1> QED  BY <1>2, <1>3, <1>4

(* The inductive form of the two invariants about the table. *)
TableInv == LeaseHonoured /\ NoStrayRow

(* What a step of p leaves alone: the processes of the others. *)
Alone(p) ==
  /\ clock' = clock
  /\ \A q \in Requests \ {p} : /\ frame'[q] = frame[q]
                               /\ locks'[q] = locks[q]
                               /\ lease'[q] = lease[q]

(* A step of p preserves the invariants if it respects the rows of the     *)
(* others that still run, makes no row for another, and keeps its own word. *)
LEMMA TableStep ==
  ASSUME TypeOK, TableInv, NEW p \in Requests, Alone(p),
         \A q \in Requests \ {p}, n \in Names :
           /\ OwnRow(q, n) /\ clock + Epsilon <= semaphore[n].expire
                => semaphore'[n] = semaphore[n]
           /\ OwnRow(q, n)' => OwnRow(q, n),
         \A n \in Names :
           /\ Current(p, n)'
                => semaphore'[n] = [value |-> p, expire |-> lease'[p][n]]
           /\ OwnRow(p, n)' => Holds(p, n)' \/ At(p, "killed")'
  PROVE  TableInv'
<1>1. \A q \in Requests \ {p}, n \in Names :
        /\ Holds(q, n)' = Holds(q, n)
        /\ Current(q, n)' = Current(q, n)
        /\ At(q, "killed")' = At(q, "killed")
  BY DEF Alone, Holds, Current, At, NameOf
<1>2. LeaseHonoured'
  <2> SUFFICES ASSUME NEW q \in Requests, NEW n \in Names, Current(q, n)', q # p
               PROVE  semaphore'[n] = [value |-> q, expire |-> lease'[q][n]]
    BY DEF LeaseHonoured
  <2>1. semaphore[n] = [value |-> q, expire |-> lease[q][n]] /\ Current(q, n)
    BY <1>1 DEF TableInv, LeaseHonoured
  <2>2. OwnRow(q, n) /\ clock + Epsilon <= semaphore[n].expire
    BY <2>1, RowAssumption DEF OwnRow, Current, TypeOK
  <2> QED  BY <2>1, <2>2 DEF Alone
<1>3. NoStrayRow'
  BY <1>1 DEF TableInv, NoStrayRow
<1> QED  BY <1>2, <1>3 DEF TableInv

(* A step of p that leaves the table, the memories and what it holds alone. *)
LEMMA QuietStep ==
  ASSUME TypeOK, TableInv, NEW p \in Requests,
         UNCHANGED <<clock, semaphore, locks, lease>>,
         \A q \in Requests \ {p} : frame'[q] = frame[q],
         ~At(p, "remember"), ~At(p, "remember")', ~At(p, "killed")
  PROVE  TableInv'
<1>1. Alone(p)  BY DEF Alone
<1>2. \A q \in Requests, n \in Names : OwnRow(q, n)' = OwnRow(q, n)
  BY DEF OwnRow
<1>3. \A n \in Names : Holds(p, n)' = Holds(p, n)  BY DEF Holds
<1>4. \A n \in Names : Current(p, n)' = Current(p, n)  BY <1>3 DEF Current
<1> QED  BY <1>1, <1>2, <1>3, <1>4, TableStep
            DEF TableInv, LeaseHonoured, NoStrayRow

LEMMA TableInvNext ==
  ASSUME TypeOK, TypeOK', TableInv, [Next]_vars
  PROVE  TableInv'
<1> USE TimeAssumption, RowAssumption
<1>1. ASSUME NEW p \in Requests, NEW n \in Names, NEW t \in Timeouts,
             BeginAcquire(p, n, t)
      PROVE  TableInv'
  <2>1. frame'[p].at \in {"extend", "insert"}
    BY <1>1 DEF BeginAcquire, Call, TypeOK
  <2> QED  BY <1>1, <2>1, QuietStep DEF BeginAcquire, At, TypeOK
<1>2. ASSUME NEW p \in Requests, Extend(p)
      PROVE  TableInv'
  <2> DEFINE n == NameOf(p)
  <2>1. n \in Names /\ frame[p].expire \in Nat
    BY <1>2, FrameOfCall DEF Extend, At, Calling, Places, Frame
  <2>2. frame[p].at = "extend" /\ frame'[p].at = "idle"
    BY <1>2 DEF Extend, Leave, At, TypeOK
  <2>3. Alone(p)  BY <1>2 DEF Extend, Leave, Alone, TypeOK
  <2>4. CASE OwnRow(p, n)
    <3>1. /\ semaphore' = [semaphore EXCEPT ![n].expire = frame[p].expire]
          /\ lease' = [lease EXCEPT ![p][n] = frame[p].expire]
          /\ UNCHANGED <<locks, clock>>
      BY <1>2, <2>4 DEF Extend
    <3>2. semaphore[n] \in Row /\ semaphore[n].value = p
      BY <2>1, <2>4 DEF OwnRow, TypeOK
    <3>3. /\ semaphore'[n] = [value |-> p, expire |-> frame[p].expire]
          /\ lease'[p][n] = frame[p].expire
      BY <2>1, <3>1, <3>2 DEF TypeOK, Row
    <3>4. \A m \in Names \ {n} : /\ semaphore'[m] = semaphore[m]
                                 /\ lease'[p][m] = lease[p][m]
      BY <2>1, <3>1 DEF TypeOK
    <3>5. \A m \in Names : Holds(p, m)' = Holds(p, m)
      BY <2>2, <3>1 DEF Holds, At
    <3>6. \A q \in Requests \ {p}, m \in Names :
            /\ OwnRow(q, m) => semaphore'[m] = semaphore[m]
            /\ OwnRow(q, m)' => OwnRow(q, m)
      BY <3>2, <3>3, <3>4 DEF OwnRow
    <3>7. \A m \in Names :
            Current(p, m)'
              => semaphore'[m] = [value |-> p, expire |-> lease'[p][m]]
      BY <3>1, <3>3, <3>4, <3>5 DEF TableInv, LeaseHonoured, Current
    <3>8. \A m \in Names : OwnRow(p, m)' => Holds(p, m)'
      BY <2>2, <2>4, <3>4, <3>5 DEF TableInv, NoStrayRow, OwnRow, At
    <3> QED  BY <2>3, <3>6, <3>7, <3>8, TableStep
  <2>5. CASE ~OwnRow(p, n)
    <3>1. /\ locks' = [locks EXCEPT ![p] = @ \ {n}]
          /\ lease' = [lease EXCEPT ![p][n] = 0]
          /\ UNCHANGED <<semaphore, clock>>
      BY <1>2, <2>5 DEF Extend
    <3>2. \A m \in Names : Holds(p, m)' = (Holds(p, m) /\ m # n)
      BY <2>1, <2>2, <3>1 DEF Holds, At, TypeOK
    <3>3. \A m \in Names \ {n} : lease'[p][m] = lease[p][m]
      BY <2>1, <3>1 DEF TypeOK
    <3>4. \A q \in Requests, m \in Names : OwnRow(q, m)' = OwnRow(q, m)
      BY <3>1 DEF OwnRow
    <3>5. \A m \in Names :
            /\ Current(p, m)'
                 => semaphore'[m] = [value |-> p, expire |-> lease'[p][m]]
            /\ OwnRow(p, m)' => Holds(p, m)'
      BY <2>2, <2>5, <3>1, <3>2, <3>3, <3>4
         DEF TableInv, LeaseHonoured, NoStrayRow, Current, At
    <3> QED  BY <2>3, <3>1, <3>4, <3>5, TableStep
  <2> QED  BY <2>4, <2>5
<1>3. ASSUME NEW p \in Requests, Insert(p)
      PROVE  TableInv'
  <2>1. /\ frame[p].expire \in Nat /\ frame[p] \in Frame
        /\ NameOf(p) \in Names
    BY <1>3, FrameOfCall DEF Insert, At, Calling, Places, Frame
  <2> PICK n \in Names : n = NameOf(p)  BY <2>1
  <2>2. /\ frame[p].at = "insert"
        /\ frame'[p].at = "remember"
        /\ frame'[p].name = n
    BY <1>3, <2>1 DEF Insert, Goto, At, NameOf, TypeOK, Frame
  <2>3. Alone(p)  BY <1>3 DEF Insert, Goto, Alone, TypeOK
  <2>4. /\ semaphore[n] = NoRow
        /\ semaphore'[n] = [value |-> p, expire |-> frame[p].expire]
        /\ lease'[p][n] = frame[p].expire
    BY <1>3, <2>1 DEF Insert, TypeOK
  <2>5. \A m \in Names \ {n} : /\ semaphore'[m] = semaphore[m]
                               /\ lease'[p][m] = lease[p][m]
                               /\ Holds(p, m)' = Holds(p, m)
    BY <1>3, <2>1, <2>2 DEF Insert, TypeOK, Holds, At, NameOf
  <2>6. Holds(p, n)'  BY <2>2 DEF Holds, At, NameOf
  <2>7. \A q \in Requests \ {p}, m \in Names :
          /\ OwnRow(q, m) => semaphore'[m] = semaphore[m]
          /\ OwnRow(q, m)' => OwnRow(q, m)
    BY <2>4, <2>5 DEF OwnRow
  <2>8. ASSUME NEW m \in Names
        PROVE  /\ Current(p, m)'
                    => semaphore'[m] = [value |-> p, expire |-> lease'[p][m]]
               /\ OwnRow(p, m)' => Holds(p, m)'
    <3>1. CASE m = n  BY <3>1, <2>4, <2>6
    <3>2. CASE m # n
      <4>1. Current(p, m)' = Current(p, m) /\ OwnRow(p, m)' = OwnRow(p, m)
        BY <3>2, <2>3, <2>5 DEF Current, OwnRow, Alone
      <4> QED  BY <3>2, <4>1, <2>2, <2>5
                  DEF TableInv, LeaseHonoured, NoStrayRow, At
    <3> QED  BY <3>1, <3>2
  <2> QED  BY <2>3, <2>7, <2>8, TableStep
<1>4. ASSUME NEW p \in Requests, Remember(p)
      PROVE  TableInv'
  <2>1. frame[p].at = "remember" /\ frame'[p].at = "idle"
        /\ NameOf(p) \in Names
    BY <1>4, FrameOfCall DEF Remember, Leave, At, TypeOK, Calling, Places
  <2>2. Alone(p) /\ UNCHANGED <<clock, semaphore, lease>>
    BY <1>4 DEF Remember, Leave, Alone, TypeOK
  <2>3. \A m \in Names : Holds(p, m)' = Holds(p, m)
    BY <1>4, <2>1 DEF Remember, Holds, At, TypeOK
  <2>4. \A q \in Requests, m \in Names : OwnRow(q, m)' = OwnRow(q, m)
    BY <2>2 DEF OwnRow
  <2>5. \A m \in Names :
          /\ Current(p, m)'
               => semaphore'[m] = [value |-> p, expire |-> lease'[p][m]]
          /\ OwnRow(p, m)' => Holds(p, m)'
    BY <2>1, <2>2, <2>3, <2>4
       DEF TableInv, LeaseHonoured, NoStrayRow, Current, At
  <2> QED  BY <2>2, <2>4, <2>5, TableStep
<1>5. ASSUME NEW p \in Requests, InsertConflict(p)
      PROVE  TableInv'
  <2>1. frame'[p].at \in {"idle", "select"}
    BY <1>5, FrameOfCall
       DEF InsertConflict, Leave, Goto, At, TypeOK, Calling, Places, Frame
  <2> QED  BY <1>5, <2>1, QuietStep DEF InsertConflict, Leave, Goto, At, TypeOK
<1>6. ASSUME NEW p \in Requests, NEW n \in Names, BeginCheck(p, n)
      PROVE  TableInv'
  BY <1>6, QuietStep DEF BeginCheck, Call, At, TypeOK
<1>7. ASSUME NEW p \in Requests, Select(p)
      PROVE  TableInv'
  <2>1. /\ \A q \in Requests \ {p} : frame'[q] = frame[q]
        /\ frame'[p].at # "remember"
    <3>1. CASE semaphore[NameOf(p)] = NoRow
      BY <1>7, <3>1, ReturnKeepsOthers DEF Select
    <3>2. CASE semaphore[NameOf(p)] # NoRow
      BY <1>7, <3>2, FrameOfCall DEF Select, At, TypeOK, Calling, Places, Frame
    <3> QED  BY <3>1, <3>2
  <2> QED  BY <1>7, <2>1, QuietStep DEF Select, At
<1>8. ASSUME NEW p \in Requests, SeenAlive(p)
      PROVE  TableInv'
  <2>1. /\ \A q \in Requests \ {p} : frame'[q] = frame[q]
        /\ frame'[p].at # "remember"
    BY <1>8, ReturnKeepsOthers DEF SeenAlive
  <2> QED  BY <1>8, <2>1, QuietStep DEF SeenAlive, At
<1>9. ASSUME NEW p \in Requests, BreakExpired(p)
      PROVE  TableInv'
  <2>1. frame[p] \in Frame /\ NameOf(p) \in Names
    BY <1>9, FrameOfCall DEF BreakExpired, At, Calling, Places
  <2> PICK n \in Names : n = NameOf(p)  BY <2>1
  <2>2. /\ \A q \in Requests \ {p} : frame'[q] = frame[q]
        /\ frame'[p].at # "remember"
    <3>1. Breakable(p) \in BOOLEAN  BY DEF Breakable
    <3> QED  BY <1>9, <3>1, ReturnKeepsOthers DEF BreakExpired
  <2>3. CASE ~Breakable(p)
    BY <1>9, <2>2, <2>3, QuietStep DEF BreakExpired, At
  <2>4. CASE Breakable(p)
    <3>1. Alone(p) /\ UNCHANGED <<clock, locks, lease>>
      BY <1>9, <2>2 DEF BreakExpired, Alone
    <3>2. /\ semaphore'[n] = NoRow
          /\ \A m \in Names \ {n} : semaphore'[m] = semaphore[m]
      BY <1>9, <2>1, <2>4 DEF BreakExpired, TypeOK
    <3>3. semaphore[n] \in Row /\ semaphore[n].expire < clock + Epsilon
      <4>1. semaphore[n] \in Row  BY <2>1, <2>4 DEF Breakable, TypeOK
      <4>2. semaphore[n].expire <= frame[p].seen + Epsilon
            /\ frame[p].seen < clock
        BY <1>9, <2>4, <2>1 DEF Breakable, BreakExpired, Frame, TypeOK
      <4>3. frame[p].seen \in Nat /\ clock \in Nat /\ semaphore[n].expire \in Nat
        BY <4>1, <2>1 DEF Frame, TypeOK, Row
      <4> QED  BY <4>1, <4>2, <4>3
    <3>4. \A m \in Names : Holds(p, m)' = Holds(p, m)
      BY <1>9, <2>2, <3>1 DEF Holds, At, BreakExpired
    <3>5. \A q \in Requests \ {p}, m \in Names :
            /\ OwnRow(q, m) /\ clock + Epsilon <= semaphore[m].expire
                 => semaphore'[m] = semaphore[m]
            /\ OwnRow(q, m)' => OwnRow(q, m)
      <4>1. ASSUME clock + Epsilon <= semaphore[n].expire  PROVE FALSE
        BY <3>3, <4>1 DEF Row, TypeOK
      <4> QED  BY <3>2, <4>1 DEF OwnRow
    <3>6. ~Current(p, n)'
      <4>1. SUFFICES ASSUME Current(p, n)  PROVE FALSE
        BY <3>1, <3>4 DEF Current
      <4>2. semaphore[n] = [value |-> p, expire |-> lease[p][n]]
        BY <4>1, <2>1 DEF TableInv, LeaseHonoured
      <4>3. clock + Epsilon <= semaphore[n].expire  BY <4>1, <4>2 DEF Current
      <4> QED  BY <3>3, <4>3 DEF Row, TypeOK
    <3>7. ASSUME NEW m \in Names
          PROVE  /\ Current(p, m)'
                      => semaphore'[m] = [value |-> p, expire |-> lease'[p][m]]
                 /\ OwnRow(p, m)' => Holds(p, m)'
      <4>1. CASE m = n  BY <4>1, <3>2, <3>6 DEF OwnRow
      <4>2. CASE m # n
        <5>1. Current(p, m)' = Current(p, m) /\ OwnRow(p, m)' = OwnRow(p, m)
          BY <4>2, <3>1, <3>2, <3>4 DEF Current, OwnRow
        <5> QED  BY <1>9, <4>2, <5>1, <3>1, <3>2, <3>4
                    DEF TableInv, LeaseHonoured, NoStrayRow, At, BreakExpired
      <4> QED  BY <4>1, <4>2
    <3> QED  BY <3>1, <3>5, <3>7, TableStep
  <2> QED  BY <2>3, <2>4
<1>10. ASSUME NEW p \in Requests, NEW n \in Names, NEW d \in Delays,
              BeginWait(p, n, d)
       PROVE  TableInv'
  BY <1>10, QuietStep DEF BeginWait, Call, At, TypeOK
<1>11. ASSUME NEW p \in Requests, Sleep(p)
       PROVE  TableInv'
  <2>1. /\ frame'[p].at = "select"
        /\ \A q \in Requests \ {p} : frame'[q] = frame[q]
    BY <1>11, FrameOfCall DEF Sleep, At, TypeOK, Calling, Places, Frame
  <2> QED  BY <1>11, <2>1, QuietStep DEF Sleep, At
<1>12. ASSUME NEW p \in Requests, NEW n \in Names, Release(p, n)
       PROVE  TableInv'
  <2>1. frame[p].at = "idle" /\ Alone(p) /\ UNCHANGED <<clock, frame>>
    BY <1>12 DEF Release, Alone, At, TypeOK
  <2>2. /\ OwnRow(p, n) => semaphore'[n] = NoRow
        /\ ~OwnRow(p, n) => semaphore'[n] = semaphore[n]
        /\ \A m \in Names \ {n} : /\ semaphore'[m] = semaphore[m]
                                  /\ lease'[p][m] = lease[p][m]
    BY <1>12 DEF Release, TypeOK
  <2>3. \A m \in Names : Holds(p, m)' = (Holds(p, m) /\ m # n)
    BY <1>12, <2>1 DEF Release, Holds, At, TypeOK
  <2>4. \A q \in Requests \ {p}, m \in Names :
          /\ OwnRow(q, m) => semaphore'[m] = semaphore[m]
          /\ OwnRow(q, m)' => OwnRow(q, m)
    BY <2>2 DEF OwnRow
  <2>5. \A m \in Names :
          /\ Current(p, m)'
               => semaphore'[m] = [value |-> p, expire |-> lease'[p][m]]
          /\ OwnRow(p, m)' => Holds(p, m)'
    BY <2>1, <2>2, <2>3
       DEF TableInv, LeaseHonoured, NoStrayRow, Current, OwnRow, At
  <2> QED  BY <2>1, <2>4, <2>5, TableStep
<1>13. ASSUME NEW p \in Requests, End(p) \/ Fatal(p)
       PROVE  TableInv'
  <2>1. releaseAll(p) /\ clock' = clock  BY <1>13 DEF End, Fatal
  <2>2. /\ frame'[p].at \in {"ended", "killed"}
        /\ At(p, "idle") \/ frame'[p].at = "killed"
        /\ Alone(p)
    BY <1>13, <2>1 DEF End, Fatal, Leave, releaseAll, Forget, Alone, TypeOK
  <2>3. \A m \in Names : semaphore'[m] = IF locks[p] # {} /\ OwnRow(p, m)
                                         THEN NoRow ELSE semaphore[m]
    BY <2>1 DEF releaseAll
  <2>4. \A m \in Names : ~Holds(p, m)'
    BY <2>1, <2>2 DEF releaseAll, Forget, Holds, At, TypeOK
  <2>5. \A q \in Requests \ {p}, m \in Names :
          /\ OwnRow(q, m) => semaphore'[m] = semaphore[m]
          /\ OwnRow(q, m)' => OwnRow(q, m)
    BY <2>3 DEF OwnRow
  <2>6. \A m \in Names : OwnRow(p, m)' => At(p, "killed")'
    <3>1. CASE frame'[p].at = "killed"  BY <3>1 DEF At
    <3>2. CASE At(p, "idle")
      <4>1. ASSUME NEW m \in Names, OwnRow(p, m)  PROVE locks[p] # {}
        BY <3>2, <4>1 DEF TableInv, NoStrayRow, Holds, At
      <4> QED  BY <2>3, <4>1 DEF OwnRow
    <3> QED  BY <2>2, <3>1, <3>2
  <2> QED  BY <2>2, <2>4, <2>5, <2>6, TableStep DEF Current
<1>14. ASSUME NEW p \in Requests, Kill(p)
       PROVE  TableInv'
  <2>1. frame'[p].at = "killed" /\ Alone(p) /\ UNCHANGED semaphore
    BY <1>14 DEF Kill, Leave, Forget, Alone, TypeOK
  <2>2. \A m \in Names : ~Holds(p, m)'
    BY <1>14, <2>1 DEF Kill, Forget, Holds, At, TypeOK
  <2>3. \A q \in Requests, m \in Names : OwnRow(q, m)' = OwnRow(q, m)
    BY <2>1 DEF OwnRow
  <2> QED  BY <2>1, <2>2, <2>3, TableStep DEF Current, At
<1>15. CASE Tick
  <2>1. \A q \in Requests, m \in Names :
          /\ Current(q, m)' => Current(q, m)
          /\ Holds(q, m)' = Holds(q, m)
          /\ OwnRow(q, m)' = OwnRow(q, m)
          /\ At(q, "killed")' = At(q, "killed")
    BY <1>15 DEF Tick, Current, Holds, OwnRow, At, NameOf, TypeOK
  <2> QED  BY <1>15, <2>1 DEF Tick, TableInv, LeaseHonoured, NoStrayRow
<1>16. CASE UNCHANGED vars
  <2>1. \A q \in Requests, m \in Names :
          /\ Current(q, m)' = Current(q, m)
          /\ Holds(q, m)' = Holds(q, m)
          /\ OwnRow(q, m)' = OwnRow(q, m)
          /\ At(q, "killed")' = At(q, "killed")
    BY <1>16 DEF vars, Current, Holds, OwnRow, At, NameOf
  <2> QED  BY <1>16, <2>1 DEF vars, TableInv, LeaseHonoured, NoStrayRow
<1> QED  BY <1>1, <1>2, <1>3, <1>4, <1>5, <1>6, <1>7, <1>8, <1>9, <1>10, <1>11,
            <1>12, <1>13, <1>14, <1>15, <1>16 DEF Next, Continue, Begin

LEMMA TableInvAlways == Spec => []TableInv
<1>1. Init => TableInv
  BY RowAssumption
     DEF Init, TableInv, LeaseHonoured, NoStrayRow, Current, Holds, At, OwnRow
<1>2. TypeOK /\ TypeOK' /\ TableInv /\ [Next]_vars => TableInv'
  BY TableInvNext
<1> QED  BY <1>1, <1>2, TypeCorrect, PTL DEF Spec

(* A lock whose lease still runs is never taken from its holder: no late   *)
(* statement of another acquire() or wait() removes or changes its row.    *)
THEOREM LeaseAlwaysHonoured == Spec => []LeaseHonoured
<1>1. TableInv => LeaseHonoured  BY DEF TableInv
<1> QED  BY <1>1, TableInvAlways, PTL

(* A row always names a request that knows of it or was cut off, so that   *)
(* releaseAll() of a request that ends leaves no row behind.               *)
THEOREM NeverAStrayRow == Spec => []NoStrayRow
<1>1. TableInv => NoStrayRow  BY DEF TableInv
<1> QED  BY <1>1, TableInvAlways, PTL

(* No two requests hold one lock with time left on both leases.            *)
THEOREM MutualExclusionHolds == Spec => []MutualExclusion
<1>1. LeaseHonoured => MutualExclusion
  <2> SUFFICES ASSUME LeaseHonoured,
                      NEW p \in Requests, NEW q \in Requests, NEW n \in Names,
                      Current(p, n), Current(q, n)
               PROVE  p = q
    BY DEF MutualExclusion
  <2>1. semaphore[n] = [value |-> p, expire |-> lease[p][n]]
    BY DEF LeaseHonoured
  <2>2. semaphore[n] = [value |-> q, expire |-> lease[q][n]]
    BY DEF LeaseHonoured
  <2> QED  BY <2>1, <2>2
<1> QED  BY <1>1, LeaseAlwaysHonoured, PTL
--------------------------------------------------------------------------------
(* The table implements the promise of LeaseLock *)

LEMMA StepImplements ==
  ASSUME TypeOK, [Next]_vars
  PROVE  [Promise!Next]_(Promise!vars)
<1> USE TimeAssumption
<1>1. ASSUME UNCHANGED <<clock, semaphore>>
      PROVE  [Promise!Next]_(Promise!vars)
  BY <1>1 DEF Promise!vars
<1>2. ASSUME NEW p \in Requests, Extend(p)
      PROVE  [Promise!Next]_(Promise!vars)
  <2>1. frame[p].expire \in Nat /\ NameOf(p) \in Names
    BY <1>2, FrameOfCall DEF Extend, At, Calling, Places, Frame
  <2> PICK n \in Names : n = NameOf(p)  BY <2>1
  <2>2. CASE ~OwnRow(p, n)  BY <1>1, <1>2, <2>2 DEF Extend
  <2>3. CASE OwnRow(p, n)
    <3>1. semaphore[n] \in Row  BY <2>3 DEF OwnRow, TypeOK
    <3>2. /\ semaphore' = [semaphore EXCEPT ![n].expire = frame[p].expire]
          /\ UNCHANGED clock
      BY <1>2, <2>3 DEF Extend
    <3>3. semaphore'[n] = [value |-> p, expire |-> frame[p].expire]
      BY <2>3, <3>1, <3>2 DEF OwnRow, Row, TypeOK
    <3>4. semaphore'[n] \in [value : {p}, expire : Nat]  BY <2>1, <3>3
    <3>5. semaphore' = [semaphore EXCEPT ![n] = semaphore'[n]]
      BY <3>2 DEF TypeOK
    <3>6. n \in Promise!OwnedBy(p)
      BY <2>3 DEF OwnRow, Promise!OwnedBy
    <3>7. Promise!Renew(p, n)  BY <3>2, <3>4, <3>5, <3>6 DEF Promise!Renew
    <3> QED  BY <3>7 DEF Promise!Next
  <2> QED  BY <2>2, <2>3
<1>3. ASSUME NEW p \in Requests, Insert(p)
      PROVE  [Promise!Next]_(Promise!vars)
  <2>1. frame[p].expire \in Nat /\ NameOf(p) \in Names
    BY <1>3, FrameOfCall DEF Insert, At, Calling, Places, Frame
  <2> PICK n \in Names : n = NameOf(p)  BY <2>1
  <2>2. /\ semaphore[n] = NoRow
        /\ semaphore' = [semaphore EXCEPT
                            ![n] = [value |-> p, expire |-> frame[p].expire]]
        /\ UNCHANGED clock
    BY <1>3 DEF Insert
  <2>3. semaphore'[n] = [value |-> p, expire |-> frame[p].expire]
    BY <2>2 DEF TypeOK
  <2>4. semaphore'[n] \in [value : {p}, expire : Nat]  BY <2>1, <2>3
  <2>5. semaphore' = [semaphore EXCEPT ![n] = semaphore'[n]]  BY <2>2, <2>3
  <2>6. Promise!Grant(p, n)  BY <2>2, <2>4, <2>5 DEF Promise!Grant
  <2> QED  BY <2>6 DEF Promise!Next
<1>4. ASSUME NEW p \in Requests, BreakExpired(p)
      PROVE  [Promise!Next]_(Promise!vars)
  <2>1. frame[p] \in Frame /\ NameOf(p) \in Names
    BY <1>4, FrameOfCall DEF BreakExpired, At, Calling, Places
  <2> PICK n \in Names : n = NameOf(p)  BY <2>1
  <2>2. CASE ~Breakable(p)  BY <1>1, <1>4, <2>2 DEF BreakExpired
  <2>3. CASE Breakable(p)
    <3>1. /\ semaphore' = [semaphore EXCEPT ![n] = NoRow]
          /\ UNCHANGED clock
      BY <1>4, <2>3 DEF BreakExpired
    <3>2. semaphore[n] # NoRow /\ semaphore[n] \in Row
      BY <2>3 DEF Breakable, TypeOK
    <3>3. /\ semaphore[n].expire <= frame[p].seen + Epsilon
          /\ frame[p].seen < clock
      BY <1>4, <2>1, <2>3 DEF Breakable, BreakExpired, Frame, TypeOK
    <3>4. ~Promise!Protects(n)
      <4>1. /\ frame[p].seen \in Nat /\ clock \in Nat
            /\ semaphore[n].expire \in Nat
        BY <2>1, <3>2 DEF Frame, TypeOK, Row
      <4> QED  BY <3>3, <4>1 DEF Promise!Protects
    <3>5. Promise!Break(n)  BY <3>1, <3>2, <3>4 DEF Promise!Break
    <3> QED  BY <3>5 DEF Promise!Next
  <2> QED  BY <2>2, <2>3
<1>5. ASSUME NEW p \in Requests, UNCHANGED clock, NEW S \in SUBSET Names,
             \A n \in S : OwnRow(p, n),
             semaphore' = [n \in Names |-> IF n \in S THEN NoRow
                                          ELSE semaphore[n]]
      PROVE  [Promise!Next]_(Promise!vars)
  <2>1. S \in SUBSET Promise!OwnedBy(p)
    BY <1>5 DEF OwnRow, Promise!OwnedBy
  <2>2. Promise!Free(p)  BY <1>5, <2>1 DEF Promise!Free
  <2> QED  BY <2>2 DEF Promise!Next
<1>6. ASSUME NEW p \in Requests, NEW n \in Names, Release(p, n)
      PROVE  [Promise!Next]_(Promise!vars)
  <2>1. CASE ~OwnRow(p, n)  BY <1>1, <1>6, <2>1 DEF Release
  <2>2. CASE OwnRow(p, n)
    <3>1. semaphore' = [m \in Names |-> IF m \in {n} THEN NoRow
                                       ELSE semaphore[m]]
      BY <1>6, <2>2 DEF Release, TypeOK
    <3> QED  BY <1>5, <1>6, <2>2, <3>1 DEF Release
  <2> QED  BY <2>1, <2>2
<1>7. ASSUME NEW p \in Requests, End(p) \/ Fatal(p)
      PROVE  [Promise!Next]_(Promise!vars)
  <2> PICK S \in SUBSET Names :
              S = {n \in Names : locks[p] # {} /\ OwnRow(p, n)}
    OBVIOUS
  <2>1. releaseAll(p) /\ UNCHANGED clock  BY <1>7 DEF End, Fatal
  <2>2. semaphore' = [n \in Names |-> IF n \in S THEN NoRow ELSE semaphore[n]]
    BY <2>1 DEF releaseAll
  <2>3. \A n \in S : OwnRow(p, n)  OBVIOUS
  <2> QED  BY <1>5, <2>1, <2>2, <2>3
<1>8. CASE Tick
  <2>1. Promise!Advance  BY <1>8 DEF Tick, Promise!Advance, TypeOK
  <2> QED  BY <2>1 DEF Promise!Next
<1>9. ASSUME NEW p \in Requests, NEW n \in Names, Begin(p, n)
      PROVE  [Promise!Next]_(Promise!vars)
  BY <1>1, <1>6, <1>9 DEF Begin, BeginAcquire, BeginWait, BeginCheck
<1>10. ASSUME NEW p \in Requests, Continue(p)
       PROVE  [Promise!Next]_(Promise!vars)
  BY <1>1, <1>2, <1>3, <1>4, <1>10
     DEF Continue, Remember, InsertConflict, Select, SeenAlive, Sleep
<1>11. ASSUME NEW p \in Requests, Kill(p)
       PROVE  [Promise!Next]_(Promise!vars)
  BY <1>1, <1>11 DEF Kill
<1>12. CASE UNCHANGED vars  BY <1>1, <1>12 DEF vars
<1> QED  BY <1>7, <1>8, <1>9, <1>10, <1>11, <1>12 DEF Next

(* The semaphore table implements the leases the lock service promises:    *)
(* each database statement is a step of LeaseLock or changes no lease.     *)
THEOREM PromiseImplemented == Spec => ImplementsPromise
<1>1. Init => Promise!Init
  BY DEF Init, Promise!Init
<1>2. TypeOK /\ [Next]_vars => [Promise!Next]_(Promise!vars)
  BY StepImplements
<1> QED  BY <1>1, <1>2, TypeCorrect, PTL
            DEF Spec, ImplementsPromise, Promise!Spec
================================================================================
