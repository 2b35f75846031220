--------------------------- MODULE TabbingPromise ---------------------------
(* What Drupal.tabbingManager promises to the scripts of a page: the newest  *)
(* request to constrain tabbing that has not been released is the one in     *)
(* force, in whatever order requests are released, and with none left the    *)
(* Tab key is free.                                                          *)
EXTENDS Integers

CONSTANT Elements   \* the elements of the page

VARIABLES calls,   \* how many requests were made, the name of the newest
          held,    \* the requests that were not released
          reach    \* {S} while the Tab key is constrained to S, or {}

vars == <<calls, held, reach>>

Newest(h) == {r.set : r \in {q \in h : \A s \in h : s.id <= q.id}}

Init == calls = 0 /\ held = {} /\ reach = {}

Constrain(S) == /\ calls' = calls + 1
                /\ held' = held \cup {[id |-> calls + 1, set |-> S]}
                /\ reach' = Newest(held')

Release(r) == /\ held' = held \ {r}
              /\ reach' = Newest(held')
              /\ UNCHANGED calls

Next == \/ \E S \in SUBSET Elements : Constrain(S)
        \/ \E r \in held : Release(r)

Spec == Init /\ [][Next]_vars
=============================================================================
