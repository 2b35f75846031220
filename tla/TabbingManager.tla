--------------------------- MODULE TabbingManager ---------------------------
(* Drupal.tabbingManager, core/misc/tabbingmanager.es6.js: scripts that open *)
(* a dialog or an edit mode constrain the Tab key to some elements; every    *)
(* other reachable element gets tabindex -1, after what it had was saved on  *)
(* the element under the level of the request. Requests are stacked, and may *)
(* be released in any order.                                                 *)
EXTENDS Integers, Sequences

CONSTANTS Elements,     \* numbered in the order of the document
          Indices,      \* values of a tabindex attribute
          Unreachable,  \* tabindex="-1"
          MaxCalls,     \* bound on the calls of constrain()
          MaxChanges,   \* bound on what the page's own scripts change
          NotSaved      \* nothing saved under a level

ASSUME ElementsAreOrdered == Elements \subseteq Nat
ASSUME IndexValues == Unreachable \in Indices
ASSUME BoundsAreNatural == MaxCalls \in Nat /\ MaxChanges \in Nat
ASSUME NotSavedIsNoValue == NotSaved \notin [index : Indices, autofocus : BOOLEAN]

Attributes == [index : Indices, autofocus : BOOLEAN]
Levels == 0 .. (MaxCalls - 1)

VARIABLES calls,   \* how many times constrain() was called
          stack,   \* the contexts, the newest last
          page,    \* attr, shown: the document; saved: what jQuery.data holds
                   \* for each element and level; trapped: elements with a
                   \* keydown.focus-trap handler
          changes, \* how many changes the page's scripts made
          meant,   \* auxiliary: the attributes the page's scripts gave
          touched, \* auxiliary: elements they changed while these were disabled
          fresh    \* auxiliary: elements they showed or changed since the
                   \* context in force was activated

vars == <<calls, stack, page, changes, meant, touched, fresh>>

Contexts == [id : 1 .. MaxCalls, level : Levels, tabbable : SUBSET Elements,
             disabled : SUBSET Elements, trap : BOOLEAN,
             released : BOOLEAN, active : BOOLEAN]

-----------------------------------------------------------------------------
(* Operators on the page.                                                    *)

\* tabbable(document.body)
Tabbable(p) == {e \in p.shown : p.attr[e].index # Unreachable}

\* The first and the last element of a set.
Edges(S) == {e \in S : (\A f \in S : e <= f) \/ (\A f \in S : f <= e)}

\* Mutant: the elements the context disabled the last time.
OutsideOf(p, c) == c.disabled

\* The elements a context disables when it is activated.
Outside(p, c) == Tabbable(p) \ c.tabbable

\* Mutant: recorded after the attributes were overwritten.
RecordedLate(p, c) ==
  [e \in Elements |-> IF e \in Outside(p, c)
                      THEN [p.saved[e] EXCEPT ![c.level] =
                              [index |-> Unreachable, autofocus |-> FALSE]]
                      ELSE p.saved[e]]

\* recordTabindex() for every element the context disables.
Recorded(p, c) ==
  [e \in Elements |-> IF e \in Outside(p, c)
                      THEN [p.saved[e] EXCEPT ![c.level] = p.attr[e]]
                      ELSE p.saved[e]]

\* manager.activate(context)
Activated(p, c) ==
  [p EXCEPT !.attr = [e \in Elements |->
              IF e \in Outside(p, c)
              THEN [index |-> Unreachable, autofocus |-> FALSE] ELSE p.attr[e]],
            !.saved = Recorded(p, c),
            !.trapped = @ \cup (IF c.trap THEN Edges(c.tabbable) ELSE {})]

\* restoreTabindex(): the attributes; autofocus is only ever put back.
Restored(p, c) ==
  [e \in Elements |->
    IF e \in c.disabled /\ p.saved[e][c.level] # NotSaved
    THEN [index |-> p.saved[e][c.level].index,
          autofocus |-> p.attr[e].autofocus \/ p.saved[e][c.level].autofocus]
    ELSE p.attr[e]]

\* restoreTabindex(): the record of this level and of those above is dropped.
Dropped(p, c) ==
  [e \in Elements |->
    IF e \in c.disabled /\ p.saved[e][c.level] # NotSaved
    THEN [l \in Levels |->
            IF \/ c.level = 0
               \/ l >= c.level /\ \A k \in c.level .. l : p.saved[e][k] # NotSaved
            THEN NotSaved ELSE p.saved[e][l]]
    ELSE p.saved[e]]

\* Mutant: handlers are taken off only where the context traps the focus now.
DeactivatedKeepTrap(p, c) ==
  [p EXCEPT !.attr = Restored(p, c), !.saved = Dropped(p, c)]

\* manager.deactivate(context)
Deactivated(p, c) ==
  [p EXCEPT !.attr = Restored(p, c), !.saved = Dropped(p, c),
            !.trapped = @ \ Edges(c.tabbable)]

-----------------------------------------------------------------------------
(* The API.                                                                  *)

\* The page after every active context is deactivated.
Unconstrained ==
  IF \E i \in DOMAIN stack : stack[i].active
  THEN Deactivated(page, stack[CHOOSE i \in DOMAIN stack : stack[i].active])
  ELSE page

\* Mutant: the other contexts are still in force.
StillAwake(s) == s

\* context.deactivate() of all of them: none is active.
Asleep(s) == [i \in DOMAIN s |-> [s[i] EXCEPT !.active = FALSE]]

\* manager.constrain(elements, {trapFocus}): roots are the elements asked for
\* and what lies in them; of these, the set keeps what can be tabbed to.
Constrain(roots, trap) ==
  /\ calls < MaxCalls
  /\ LET c == [id |-> calls + 1, level |-> Len(stack),
               tabbable |-> roots \cap Tabbable(Unconstrained),
               disabled |-> {}, trap |-> trap,
               released |-> FALSE, active |-> TRUE]
     IN /\ stack' = Append(Asleep(stack),
                           [c EXCEPT !.disabled = Outside(Unconstrained, c)])
        /\ page' = Activated(Unconstrained, c)
  /\ calls' = calls + 1
  /\ fresh' = {}
  /\ UNCHANGED <<changes, meant, touched>>

\* Mutant: the context under the released ones is not looked for.
TopmostIsTop(s) == Len(s)

\* manager.release(): the topmost context that is not released.
Topmost(s) == IF \E i \in DOMAIN s : ~s[i].released
              THEN CHOOSE i \in DOMAIN s :
                     /\ ~s[i].released
                     /\ \A j \in DOMAIN s : j > i => s[j].released
              ELSE 0

\* context.release(), by the script that holds context i: a second call finds
\* it released and does nothing.
Release(i) ==
  /\ ~stack[i].released
  /\ LET off  == [stack EXCEPT ![i].released = TRUE, ![i].active = FALSE]
         free == IF stack[i].active THEN Deactivated(page, stack[i]) ELSE page
         k    == Topmost(off)
         left == SubSeq(off, 1, k)
     IN IF k = 0 \/ off[k].active \/ off[k].released
        THEN /\ stack' = left
             /\ page' = free
             /\ fresh' = IF stack[i].active THEN {} ELSE fresh
        ELSE /\ stack' = [left EXCEPT ![k].active = TRUE,
                                      ![k].disabled = Outside(free, off[k])]
             /\ page' = Activated(free, off[k])
             /\ fresh' = {}
  /\ UNCHANGED <<calls, changes, meant, touched>>

-----------------------------------------------------------------------------
(* The page's own scripts and styles.                                        *)

InForce == {i \in DOMAIN stack : stack[i].active}
DisabledNow == UNION {stack[i].disabled : i \in InForce}

\* Content appears or disappears.
Toggle(e) ==
  /\ changes < MaxChanges
  /\ changes' = changes + 1
  /\ page' = [page EXCEPT !.shown = IF e \in @ THEN @ \ {e} ELSE @ \cup {e}]
  /\ fresh' = fresh \cup {e}
  /\ UNCHANGED <<calls, stack, meant, touched>>

\* A script sets or removes a tabindex.
SetIndex(e, v) ==
  /\ changes < MaxChanges
  /\ changes' = changes + 1
  /\ page' = [page EXCEPT !.attr[e].index = v]
  /\ meant' = [meant EXCEPT ![e].index = v]
  /\ touched' = IF e \in DisabledNow THEN touched \cup {e} ELSE touched \ {e}
  /\ fresh' = fresh \cup {e}
  /\ UNCHANGED <<calls, stack>>

-----------------------------------------------------------------------------
Init ==
  /\ calls = 0 /\ stack = <<>> /\ changes = 0
  /\ meant \in [Elements -> Attributes]
  /\ \E shown \in SUBSET Elements :
       page = [attr |-> meant, shown |-> shown,
               saved |-> [e \in Elements |-> [l \in Levels |-> NotSaved]],
               trapped |-> {}]
  /\ touched = {} /\ fresh = {}

Next == \/ \E roots \in SUBSET Elements, trap \in BOOLEAN : Constrain(roots, trap)
        \/ \E i \in DOMAIN stack : Release(i)
        \/ \E e \in Elements : Toggle(e)
        \/ \E e \in Elements, v \in Indices : SetIndex(e, v)

Spec == Init /\ [][Next]_vars

-----------------------------------------------------------------------------
(* Properties.                                                               *)

\* The types, and the shape of the stack: levels count from the bottom, ids
\* grow, and what can be in force is at the top and was not released.
TypeOK ==
  /\ calls \in 0 .. MaxCalls /\ changes \in 0 .. MaxChanges
  /\ stack \in Seq(Contexts)
  /\ page \in [attr : [Elements -> Attributes], shown : SUBSET Elements,
               saved : [Elements -> [Levels -> Attributes \cup {NotSaved}]],
               trapped : SUBSET Elements]
  /\ meant \in [Elements -> Attributes]
  /\ touched \subseteq Elements /\ fresh \subseteq Elements
  /\ \A i \in DOMAIN stack :
       /\ stack[i].level = i - 1
       /\ stack[i].id \in i .. calls
       /\ stack[i].active <=> (i = Len(stack))
       /\ i = Len(stack) => ~stack[i].released
  /\ \A i, j \in DOMAIN stack : i < j => stack[i].id < stack[j].id

\* What an element would have after the context in force is gone.
Underneath(e) ==
  IF e \in DisabledNow THEN page.saved[e][Len(stack) - 1] ELSE page.attr[e]

\* Every element keeps, or will get back, the tabindex and the autofocus that
\* the page gave it, however requests were nested and released, unless a
\* script changed it while it was disabled (restoreTabindex() then puts back
\* what was there before).
NothingLost == \A e \in Elements \ touched : Underneath(e) = meant[e]

\* While a request is in force, only what it asked for can be tabbed to, and
\* what appeared since: the set is not computed again when the page changes.
Constrained ==
  stack # <<>> =>
    Tabbable(page) \subseteq stack[Len(stack)].tabbable \cup fresh

\* No element traps the Tab key for a request that is no longer in force.
TrapsInForce ==
  page.trapped \subseteq UNION {Edges(stack[i].tabbable) : i \in InForce}

\* The manager keeps its promise: the newest request that was not released is
\* the one in force, though the code drops the others only when they surface.
Promise == INSTANCE TabbingPromise WITH
  held <- {[id |-> stack[i].id, set |-> stack[i].tabbable] :
             i \in {j \in DOMAIN stack : ~stack[j].released}},
  reach <- {stack[i].tabbable : i \in InForce}

ImplementsPromise == Promise!Spec
=============================================================================
