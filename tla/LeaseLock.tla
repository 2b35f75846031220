------------------------------- MODULE LeaseLock -------------------------------
(***************************************************************************)
(* What Drupal's lock service promises its callers (the "Locking           *)
(* mechanisms" topic of LockBackendInterface): a name is leased to one     *)
(* request at a time.  The request may renew or free its own lease.        *)
(* Everybody else may take the lease away only once it has run out.        *)
(***************************************************************************)
EXTENDS Integers

CONSTANTS
  Requests,   \* page requests, cron runs and commands that use the service
  Names,      \* names of locks
  NoLease,    \* the value of a name nobody leases
  Slack       \* how long before its end a lease may already be broken

VARIABLES
  now,        \* the clock the leases are measured by
  lease       \* name -> NoLease or [value, expire],
              \* value being the request that owns the lease

vars == <<now, lease>>

OwnedBy(p) == {n \in Names : lease[n] # NoLease /\ lease[n].value = p}

(* A lease protects its owner while this holds. *)
Protects(n) == lease[n] # NoLease /\ now + Slack <= lease[n].expire

Init ==
  /\ now \in Nat
  /\ lease = [n \in Names |-> NoLease]

(* A free name is leased to p. *)
Grant(p, n) ==
  /\ lease[n] = NoLease
  /\ lease'[n] \in [value : {p}, expire : Nat]
  /\ lease' = [lease EXCEPT ![n] = lease'[n]]
  /\ UNCHANGED now

(* The owner moves the end of its lease. *)
Renew(p, n) ==
  /\ n \in OwnedBy(p)
  /\ lease'[n] \in [value : {p}, expire : Nat]
  /\ lease' = [lease EXCEPT ![n] = lease'[n]]
  /\ UNCHANGED now

(* The owner gives up some of its leases. *)
Free(p) ==
  /\ \E S \in SUBSET OwnedBy(p) :
       lease' = [n \in Names |-> IF n \in S THEN NoLease ELSE lease[n]]
  /\ UNCHANGED now

(* Anybody clears away a lease that no longer protects its owner. *)
Break(n) ==
  /\ lease[n] # NoLease
  /\ ~Protects(n)
  /\ lease' = [lease EXCEPT ![n] = NoLease]
  /\ UNCHANGED now

Advance == now' >= now /\ UNCHANGED lease

Next ==
  \/ \E p \in Requests : \/ Free(p)
                         \/ \E n \in Names : Grant(p, n) \/ Renew(p, n)
  \/ \E n \in Names : Break(n)
  \/ Advance

Spec == Init /\ [][Next]_vars
================================================================================
