---------------------------- MODULE TabbingProofs ----------------------------
(***************************************************************************)
(* TabbingManager for any document and any number of requests: the types,  *)
(* what becomes of the attributes, and the refinement of TabbingPromise.   *)
(* At most one context is in force, the one at the top of the stack; the   *)
(* invariant says what it leaves on the page, and that a page without one  *)
(* is as its own scripts made it.                                          *)
(***************************************************************************)
EXTENDS TabbingManager, TLAPS, WellFoundedInduction

PageType == [attr : [Elements -> Attributes], shown : SUBSET Elements,
             saved : [Elements -> [Levels -> Attributes \cup {NotSaved}]],
             trapped : SUBSET Elements]

\* No context is in force on page p: the elements have what the page gave them.
Free(p) == /\ p.trapped = {}
           /\ \A e \in Elements \ touched : p.attr[e] = meant[e]
           /\ \A e \in Elements : p.attr[e].autofocus = meant[e].autofocus

\* Context c is in force on page p: what it disabled is recorded at its level.
Held(p, c) ==
  /\ \A e \in c.disabled : /\ p.saved[e][c.level] \in Attributes
                           /\ ~p.attr[e].autofocus
  /\ \A e \in Elements \ touched :
       (IF e \in c.disabled THEN p.saved[e][c.level] ELSE p.attr[e]) = meant[e]
  /\ \A e \in Elements :
       IF e \in c.disabled THEN p.saved[e][c.level].autofocus = meant[e].autofocus
                           ELSE p.attr[e].autofocus = meant[e].autofocus
  /\ Tabbable(p) \subseteq c.tabbable \cup fresh
  /\ p.trapped \subseteq Edges(c.tabbable)

Top == stack[Len(stack)]

Inv == /\ TypeOK
       /\ stack = <<>> => Free(page)
       /\ stack # <<>> => Held(page, Top)

-----------------------------------------------------------------------------
(* The page.                                                                 *)

\* A page with other attributes, records and traps.
LEMMA OtherPage ==
  ASSUME NEW p \in PageType, NEW attr \in [Elements -> Attributes],
         NEW saved \in [Elements -> [Levels -> Attributes \cup {NotSaved}]],
         NEW trapped \in SUBSET Elements
  PROVE  [p EXCEPT !.attr = attr, !.saved = saved, !.trapped = trapped] \in PageType
<1>1. [p EXCEPT !.attr = attr] \in PageType  BY DEF PageType
<1>2. [[p EXCEPT !.attr = attr] EXCEPT !.saved = saved] \in PageType
  BY <1>1 DEF PageType
<1>3. [[[p EXCEPT !.attr = attr] EXCEPT !.saved = saved]
         EXCEPT !.trapped = trapped] \in PageType
  BY <1>2 DEF PageType
<1> QED  BY <1>3

LEMMA RecordedType ==
  ASSUME NEW p \in PageType, NEW c \in Contexts
  PROVE  /\ Recorded(p, c) \in [Elements -> [Levels -> Attributes \cup {NotSaved}]]
         /\ \A e \in Outside(p, c) : Recorded(p, c)[e][c.level] = p.attr[e]
<1>1. c.level \in Levels  BY DEF Contexts
<1>2. Outside(p, c) \subseteq Elements  BY DEF Outside, Tabbable, PageType
<1>3. \A e \in Elements : p.saved[e] \in [Levels -> Attributes \cup {NotSaved}]
  BY DEF PageType
<1>4. \A e \in Elements : p.attr[e] \in Attributes  BY DEF PageType
<1> QED  BY <1>1, <1>2, <1>3, <1>4 DEF Recorded

\* What activate() makes of a page.
LEMMA ActivatedPage ==
  ASSUME NEW p \in PageType, NEW c \in Contexts
  PROVE  LET q == Activated(p, c) IN
         /\ q \in PageType
         /\ q.shown = p.shown
         /\ q.saved = Recorded(p, c)
         /\ \A e \in Elements : q.attr[e] =
              IF e \in Outside(p, c)
              THEN [index |-> Unreachable, autofocus |-> FALSE] ELSE p.attr[e]
         /\ q.trapped = p.trapped \cup (IF c.trap THEN Edges(c.tabbable) ELSE {})
<1> DEFINE attr == [e \in Elements |->
              IF e \in Outside(p, c)
              THEN [index |-> Unreachable, autofocus |-> FALSE] ELSE p.attr[e]]
           trapped == p.trapped \cup (IF c.trap THEN Edges(c.tabbable) ELSE {})
<1>1. attr \in [Elements -> Attributes]
  BY IndexValues DEF Attributes, PageType
<1>2. trapped \in SUBSET Elements
  BY DEF Edges, Contexts, PageType
<1> HIDE DEF attr, trapped
<1> DEFINE q == [p EXCEPT !.attr = attr, !.saved = Recorded(p, c),
                          !.trapped = trapped]
<1>3. Activated(p, c) = q  BY DEF Activated, attr, trapped
<1>4. q \in PageType  BY <1>1, <1>2, OtherPage, RecordedType
<1>5. /\ q.shown = p.shown /\ q.saved = Recorded(p, c) /\ q.attr = attr
      /\ q.trapped = trapped
  BY DEF PageType
<1> HIDE DEF q
<1> QED  BY <1>3, <1>4, <1>5 DEF attr, trapped

LEMMA RestoredType ==
  ASSUME NEW p \in PageType, NEW c \in Contexts
  PROVE  Restored(p, c) \in [Elements -> Attributes]
<1>1. c.level \in Levels  BY DEF Contexts
<1>2. \A e \in Elements : /\ p.attr[e] \in Attributes
                          /\ p.saved[e][c.level] \in Attributes \cup {NotSaved}
  BY <1>1 DEF PageType
<1> QED  BY <1>2 DEF Restored, Attributes

LEMMA DroppedType ==
  ASSUME NEW p \in PageType, NEW c \in Contexts
  PROVE  Dropped(p, c) \in [Elements -> [Levels -> Attributes \cup {NotSaved}]]
<1>1. \A e \in Elements : p.saved[e] \in [Levels -> Attributes \cup {NotSaved}]
  BY DEF PageType
<1> QED  BY <1>1 DEF Dropped

\* What deactivate() makes of a page.
LEMMA DeactivatedPage ==
  ASSUME NEW p \in PageType, NEW c \in Contexts
  PROVE  LET q == Deactivated(p, c) IN
         /\ q \in PageType
         /\ q.shown = p.shown
         /\ q.attr = Restored(p, c)
         /\ q.trapped = p.trapped \ Edges(c.tabbable)
<1> DEFINE trapped == p.trapped \ Edges(c.tabbable)
           q == [p EXCEPT !.attr = Restored(p, c), !.saved = Dropped(p, c),
                          !.trapped = trapped]
<1>1. Deactivated(p, c) = q  BY DEF Deactivated
<1>2. trapped \in SUBSET Elements  BY DEF PageType
<1> HIDE DEF trapped
<1>3. q \in PageType  BY <1>2, OtherPage, RestoredType, DroppedType
<1>4. q.shown = p.shown /\ q.attr = Restored(p, c) /\ q.trapped = trapped
  BY DEF PageType
<1> HIDE DEF q
<1> QED  BY <1>1, <1>3, <1>4 DEF trapped

\* A page that a context is taken off is free.
LEMMA TakenOff ==
  ASSUME NEW p \in PageType, NEW c \in Contexts, Held(p, c)
  PROVE  Deactivated(p, c) \in PageType /\ Free(Deactivated(p, c))
<1>1. c.disabled \subseteq Elements  BY DEF Contexts
<1>2. (p.trapped \ Edges(c.tabbable)) = {}  BY DEF Held
<1>3. ASSUME NEW e \in Elements \ touched  PROVE Restored(p, c)[e] = meant[e]
  <2>1. CASE e \in c.disabled
    <3>1. p.saved[e][c.level] \in Attributes /\ p.saved[e][c.level] = meant[e]
          /\ ~p.attr[e].autofocus
      BY <2>1 DEF Held
    <3>2. p.saved[e][c.level] # NotSaved  BY <3>1, NotSavedIsNoValue DEF Attributes
    <3>3. Restored(p, c)[e] =
            [index |-> p.saved[e][c.level].index,
             autofocus |-> p.attr[e].autofocus \/ p.saved[e][c.level].autofocus]
      BY <2>1, <3>2 DEF Restored
    <3>4. p.attr[e].autofocus = FALSE /\ p.saved[e][c.level].autofocus \in BOOLEAN
      BY <3>1, p.attr[e] \in Attributes DEF Attributes, PageType
    <3> QED  BY <3>1, <3>3, <3>4 DEF Attributes
  <2>2. CASE e \notin c.disabled  BY <2>2 DEF Restored, Held
  <2> QED  BY <2>1, <2>2
<1>4. ASSUME NEW e \in Elements
      PROVE  Restored(p, c)[e].autofocus = meant[e].autofocus
  <2>1. CASE e \in c.disabled
    <3>1. p.saved[e][c.level] \in Attributes /\ ~p.attr[e].autofocus
          /\ p.saved[e][c.level].autofocus = meant[e].autofocus
      BY <2>1 DEF Held
    <3>2. p.saved[e][c.level] # NotSaved  BY <3>1, NotSavedIsNoValue DEF Attributes
    <3>3. Restored(p, c)[e] =
            [index |-> p.saved[e][c.level].index,
             autofocus |-> p.attr[e].autofocus \/ p.saved[e][c.level].autofocus]
      BY <2>1, <3>2 DEF Restored
    <3>4. p.attr[e].autofocus = FALSE /\ p.saved[e][c.level].autofocus \in BOOLEAN
      BY <3>1, p.attr[e] \in Attributes DEF Attributes, PageType
    <3> QED  BY <3>1, <3>3, <3>4 DEF Attributes
  <2>2. CASE e \notin c.disabled  BY <2>2 DEF Restored, Held
  <2> QED  BY <2>1, <2>2
<1> QED  BY <1>2, <1>3, <1>4, DeactivatedPage DEF Free

\* A context that is put on a free page is in force, once nothing is fresh.
LEMMA PutOn ==
  ASSUME NEW p \in PageType, NEW c \in Contexts, Free(p), touched' = touched,
         meant' = meant, fresh' = {}, NEW d \in Contexts,
         d.level = c.level, d.tabbable = c.tabbable, d.disabled = Outside(p, c)
  PROVE  /\ Activated(p, c) \in PageType
         /\ \A e \in d.disabled :
              /\ Activated(p, c).saved[e][d.level] \in Attributes
              /\ ~Activated(p, c).attr[e].autofocus
         /\ \A e \in Elements \ touched' :
              (IF e \in d.disabled THEN Activated(p, c).saved[e][d.level]
                                   ELSE Activated(p, c).attr[e]) = meant'[e]
         /\ \A e \in Elements :
              IF e \in d.disabled
              THEN Activated(p, c).saved[e][d.level].autofocus = meant'[e].autofocus
              ELSE Activated(p, c).attr[e].autofocus = meant'[e].autofocus
         /\ Tabbable(Activated(p, c)) \subseteq d.tabbable \cup fresh'
         /\ Activated(p, c).trapped \subseteq Edges(d.tabbable)
<1> DEFINE q == Activated(p, c)
<1>1. /\ q \in PageType /\ q.shown = p.shown /\ q.saved = Recorded(p, c)
      /\ \A e \in Elements : q.attr[e] =
              IF e \in Outside(p, c)
              THEN [index |-> Unreachable, autofocus |-> FALSE] ELSE p.attr[e]
      /\ q.trapped = p.trapped \cup (IF c.trap THEN Edges(c.tabbable) ELSE {})
  BY ActivatedPage
<1> HIDE DEF q
<1>2. Outside(p, c) \subseteq Elements  BY DEF Outside, Tabbable, PageType
<1>3. \A e \in Outside(p, c) : q.saved[e][c.level] = p.attr[e]
  BY <1>1, RecordedType
<1>4. \A e \in d.disabled : q.saved[e][d.level] \in Attributes /\ ~q.attr[e].autofocus
  BY <1>1, <1>2, <1>3 DEF PageType
<1>5. \A e \in Elements \ touched' :
        (IF e \in d.disabled THEN q.saved[e][d.level] ELSE q.attr[e]) = meant'[e]
  BY <1>1, <1>2, <1>3 DEF Free
<1>6. Tabbable(q) \subseteq d.tabbable
  BY <1>1 DEF Tabbable, Outside, PageType
<1>7. q.trapped \subseteq Edges(d.tabbable)  BY <1>1 DEF Free
<1>8. \A e \in Elements :
        IF e \in d.disabled THEN q.saved[e][d.level].autofocus = meant'[e].autofocus
                            ELSE q.attr[e].autofocus = meant'[e].autofocus
  BY <1>1, <1>2, <1>3 DEF Free
<1> QED  BY <1>1, <1>4, <1>5, <1>6, <1>7, <1>8 DEF q

-----------------------------------------------------------------------------
(* The stack.                                                                *)

LEMMA TypePage == TypeOK => page \in PageType
  BY DEF TypeOK, PageType

\* What TypeOK says of the stack: only its top is in force.
LEMMA StackShape ==
  ASSUME TypeOK
  PROVE  /\ Len(stack) \in 0 .. calls /\ DOMAIN stack = 1 .. Len(stack)
         /\ calls \in Nat
         /\ \A i \in 1 .. Len(stack) :
              /\ stack[i] \in Contexts
              /\ stack[i].active <=> (i = Len(stack))
         /\ stack = <<>> <=> Len(stack) = 0
         /\ stack # <<>> => Len(stack) \in DOMAIN stack /\ Top \in Contexts
         /\ InForce = IF stack = <<>> THEN {} ELSE {Len(stack)}
<1>1. /\ Len(stack) \in Nat /\ DOMAIN stack = 1 .. Len(stack) /\ calls \in Nat
      /\ \A i \in 1 .. Len(stack) : stack[i] \in Contexts
      /\ stack = <<>> <=> Len(stack) = 0
  BY BoundsAreNatural DEF TypeOK
<1>2. \A i \in 1 .. Len(stack) : stack[i].active <=> (i = Len(stack))
  BY <1>1 DEF TypeOK, Contexts
<1>3. Len(stack) <= calls
  <2>1. CASE stack = <<>>  BY <1>1, <2>1
  <2>2. CASE stack # <<>>
    <3>1. Len(stack) \in DOMAIN stack  BY <1>1, <2>2
    <3>2. stack[Len(stack)].id \in Len(stack) .. calls  BY <3>1 DEF TypeOK
    <3> QED  BY <1>1, <3>2
  <2> QED  BY <2>1, <2>2
<1>4. InForce = IF stack = <<>> THEN {} ELSE {Len(stack)}
  <2>1. CASE stack = <<>>  BY <1>1, <2>1 DEF InForce
  <2>2. CASE stack # <<>>
    <3>1. Len(stack) \in DOMAIN stack  BY <1>1, <2>2
    <3>2. \A i : i \in InForce <=> i = Len(stack)
      BY <1>1, <1>2, <3>1 DEF InForce
    <3> QED  BY <2>2, <3>2
  <2> QED  BY <2>1, <2>2
<1>5. Len(stack) \in 0 .. calls  BY <1>1, <1>3
<1>6. stack # <<>> => Len(stack) \in DOMAIN stack /\ Top \in Contexts
  BY <1>1 DEF Top
<1> QED  BY <1>1, <1>2, <1>4, <1>5, <1>6

LEMMA UnconstrainedPage ==
  ASSUME TypeOK
  PROVE  Unconstrained = IF stack = <<>> THEN page ELSE Deactivated(page, Top)
<1>1. CASE stack = <<>>  BY <1>1, StackShape DEF Unconstrained
<1>2. CASE stack # <<>>
  <2>1. \A i \in DOMAIN stack : stack[i].active <=> i = Len(stack)
    BY StackShape
  <2>2. Len(stack) \in DOMAIN stack  BY <1>2, StackShape
  <2>3. (CHOOSE i \in DOMAIN stack : stack[i].active) = Len(stack)
    BY <2>1, <2>2
  <2> QED  BY <1>2, <2>1, <2>2, <2>3 DEF Unconstrained, Top
<1> QED  BY <1>1, <1>2

\* Deactivating what is in force frees the page.
LEMMA Freed ==
  ASSUME Inv
  PROVE  /\ Unconstrained \in PageType /\ Free(Unconstrained)
         /\ stack # <<>> => Deactivated(page, Top) = Unconstrained
<1>1. CASE stack = <<>>  BY <1>1, UnconstrainedPage, TypePage DEF Inv
<1>2. CASE stack # <<>>
  <2>1. Top \in Contexts  BY <1>2, StackShape DEF Inv
  <2> QED  BY <1>2, <2>1, UnconstrainedPage, TypePage, TakenOff DEF Inv
<1> QED  BY <1>1, <1>2

\* Of a set of positions there is a last one.
LEMMA LastExists ==
  ASSUME NEW n \in Nat, NEW S \in SUBSET (1 .. n), S # {}
  PROVE  \E k \in S : \A j \in S : j <= k
<1> DEFINE T == {t \in Nat : t <= n /\ n - t \in S}
<1>1. PICK s \in S : TRUE  OBVIOUS
<1>2. n - s \in T  BY <1>1
<1>3. T \subseteq Nat /\ T # {}  BY <1>2
<1> HIDE DEF T
<1>4. PICK t \in T : \A u \in T : ~ (<<u, t>> \in OpToRel(<, Nat))
  BY <1>3, NatLessThanWellFounded, WFMin
<1>5. \A u \in T : ~ (u < t)
  BY <1>3, <1>4 DEF OpToRel
<1>6. n - t \in S  BY DEF T
<1>7. ASSUME NEW j \in S  PROVE j <= n - t
  <2>1. n - j \in T  BY DEF T
  <2> QED  BY <1>3, <1>5, <2>1
<1> QED  BY <1>6, <1>7

\* What release() makes of the stack of contexts off: it ends with the last one
\* that is not released.
LEMMA TopmostOf ==
  ASSUME NEW s \in Seq(Contexts)
  PROVE  \/ Topmost(s) = 0 /\ \A j \in 1 .. Len(s) : s[j].released
         \/ /\ Topmost(s) \in 1 .. Len(s) /\ ~s[Topmost(s)].released
            /\ \A j \in 1 .. Len(s) : j > Topmost(s) => s[j].released
<1> DEFINE S == {i \in 1 .. Len(s) : ~s[i].released}
<1>1. CASE S = {}  BY <1>1 DEF Topmost
<1>2. CASE S # {}
  <2>1. PICK k \in S : \A j \in S : j <= k  BY <1>2, LastExists, Len(s) \in Nat
  <2>2. \A j \in 1 .. Len(s) : j > k => s[j].released  BY <2>1
  <2>3. \E i \in DOMAIN s : /\ ~s[i].released
                            /\ \A j \in DOMAIN s : j > i => s[j].released
    BY <2>1, <2>2
  <2> QED  BY <2>1, <2>3 DEF Topmost
<1> QED  BY <1>1, <1>2

-----------------------------------------------------------------------------
(* What the calls do to the stack.                                           *)

\* A context that lies under others, or is released, or comes to the surface.
Lain(c) == [c EXCEPT !.active = FALSE]
Gone(c) == [c EXCEPT !.released = TRUE, !.active = FALSE]
Raised(c, p) == [c EXCEPT !.active = TRUE, !.disabled = Outside(p, c)]

LEMMA ContextTypes ==
  ASSUME NEW c \in Contexts, NEW p \in PageType
  PROVE  /\ Lain(c) \in Contexts /\ Gone(c) \in Contexts /\ Raised(c, p) \in Contexts
         /\ Lain(c) = [c EXCEPT !.active = FALSE] /\ ~Lain(c).active
         /\ \A x \in {Lain(c), Gone(c), Raised(c, p)} :
              x.id = c.id /\ x.level = c.level /\ x.tabbable = c.tabbable
         /\ Gone(c).released /\ ~Gone(c).active
         /\ Lain(c).released = c.released
         /\ Raised(c, p).active /\ Raised(c, p).released = c.released
         /\ Raised(c, p).disabled = Outside(p, c)
<1>1. Outside(p, c) \in SUBSET Elements  BY DEF Outside, Tabbable, PageType
<1>2. Lain(c) \in Contexts  BY DEF Lain, Contexts
<1>3. Gone(c) \in Contexts
  <2>1. [c EXCEPT !.released = TRUE] \in Contexts  BY DEF Contexts
  <2> QED  BY <2>1 DEF Gone, Contexts
<1>4. Raised(c, p) \in Contexts
  <2>1. [c EXCEPT !.active = TRUE] \in Contexts  BY DEF Contexts
  <2> QED  BY <1>1, <2>1 DEF Raised, Contexts
<1>5. Lain(c).active = FALSE /\ Gone(c).active = FALSE /\ Gone(c).released = TRUE
      /\ Raised(c, p).active = TRUE /\ Raised(c, p).disabled = Outside(p, c)
      /\ Lain(c).released = c.released /\ Raised(c, p).released = c.released
  BY DEF Lain, Gone, Raised, Contexts
<1>6. \A x \in {Lain(c), Gone(c), Raised(c, p)} :
        x.id = c.id /\ x.level = c.level /\ x.tabbable = c.tabbable
  BY DEF Lain, Gone, Raised, Contexts
<1> QED  BY <1>2, <1>3, <1>4, <1>5, <1>6 DEF Lain

\* The stack that TypeOK asks for, when n calls were made.
Shape(s, n) ==
  /\ s \in Seq(Contexts)
  /\ \A i \in 1 .. Len(s) : /\ s[i].level = i - 1
                            /\ s[i].id \in i .. n
                            /\ s[i].active <=> (i = Len(s))
                            /\ i = Len(s) => ~s[i].released
  /\ \A i, j \in 1 .. Len(s) : i < j => s[i].id < s[j].id

LEMMA TypeParts ==
  TypeOK <=> /\ calls \in 0 .. MaxCalls /\ changes \in 0 .. MaxChanges
             /\ Shape(stack, calls) /\ page \in PageType
             /\ meant \in [Elements -> Attributes]
             /\ touched \subseteq Elements /\ fresh \subseteq Elements
<1>1. ASSUME stack \in Seq(Contexts)  PROVE DOMAIN stack = 1 .. Len(stack)
  BY <1>1
<1> QED  BY <1>1 DEF TypeOK, Shape, PageType

\* constrain() lays all contexts down and puts one on top of them.
Added(c) ==
  /\ stack' \in Seq(Contexts) /\ Len(stack') = Len(stack) + 1
  /\ \A j \in 1 .. Len(stack) : stack'[j] = Lain(stack[j])
  /\ stack'[Len(stack) + 1] = [c EXCEPT !.disabled = Outside(Unconstrained, c)]
  /\ page' = Activated(Unconstrained, c)
  /\ c \in Contexts /\ [c EXCEPT !.disabled = Outside(Unconstrained, c)] \in Contexts
  /\ c.level = Len(stack) /\ c.id = calls + 1 /\ c.active /\ ~c.released

LEMMA ConstrainAdds ==
  ASSUME Inv, NEW roots \in SUBSET Elements, NEW trap \in BOOLEAN,
         Constrain(roots, trap)
  PROVE  \E c : Added(c)
<1> DEFINE c == [id |-> calls + 1, level |-> Len(stack),
                 tabbable |-> roots \cap Tabbable(Unconstrained),
                 disabled |-> {}, trap |-> trap,
                 released |-> FALSE, active |-> TRUE]
           d == [c EXCEPT !.disabled = Outside(Unconstrained, c)]
<1>1. /\ Len(stack) \in 0 .. calls /\ calls \in Nat
      /\ stack \in Seq(Contexts) /\ DOMAIN stack = 1 .. Len(stack)
  BY StackShape DEF Inv, TypeOK
<1>2. calls + 1 \in 1 .. MaxCalls /\ Len(stack) \in Levels
  BY <1>1, BoundsAreNatural DEF Constrain, Levels
<1>3. c \in Contexts  BY <1>2 DEF Contexts
<1>4. Outside(Unconstrained, c) \in SUBSET Elements
  BY Freed DEF Outside, Tabbable, PageType
<1>5. stack' = Append(Asleep(stack), d) /\ page' = Activated(Unconstrained, c)
  BY DEF Constrain
<1>6. c.level = Len(stack) /\ c.id = calls + 1 /\ c.active /\ ~c.released
  OBVIOUS
<1> HIDE DEF c
<1>7. d \in Contexts  BY <1>3, <1>4 DEF Contexts
<1>8. /\ Asleep(stack) \in Seq(Contexts) /\ Len(Asleep(stack)) = Len(stack)
      /\ \A j \in 1 .. Len(stack) : Asleep(stack)[j] = Lain(stack[j])
  <2>1. \A j \in 1 .. Len(stack) : Lain(stack[j]) \in Contexts
    BY <1>1, ContextTypes, TypePage DEF Inv
  <2>2. Asleep(stack) = [j \in 1 .. Len(stack) |-> Lain(stack[j])]
    BY <1>1 DEF Asleep, Lain
  <2> QED  BY <1>1, <2>1, <2>2
<1> HIDE DEF d
<1>9. /\ stack' \in Seq(Contexts) /\ Len(stack') = Len(stack) + 1
      /\ \A j \in 1 .. Len(stack) : stack'[j] = Lain(stack[j])
      /\ stack'[Len(stack) + 1] = d
  BY <1>1, <1>5, <1>7, <1>8
<1>10. Added(c)  BY <1>3, <1>5, <1>6, <1>7, <1>9 DEF Added, d
<1> QED  BY <1>10

\* release() of a context that lies under others only marks it.
Buried(i) ==
  /\ i < Len(stack) /\ Len(stack') = Len(stack)
  /\ \A j \in 1 .. Len(stack) : stack'[j] = IF j = i THEN Gone(stack[i]) ELSE stack[j]
  /\ page' = page /\ fresh' = fresh

\* With none left under it the page is free again.
Emptied(i) ==
  /\ i = Len(stack) /\ \A j \in 1 .. i : j < i => stack[j].released
  /\ stack' = <<>> /\ page' = Unconstrained

\* Else the last one that is not released comes to the surface.
Surfaced(i, k) ==
  /\ i = Len(stack) /\ k < i /\ Len(stack') = k
  /\ ~stack[k].released /\ \A j \in 1 .. i : k < j /\ j < i => stack[j].released
  /\ \A j \in 1 .. k : stack'[j] = IF j = k THEN Raised(stack[k], Unconstrained)
                                   ELSE stack[j]
  /\ page' = Activated(Unconstrained, stack[k]) /\ fresh' = {}

LEMMA ReleaseSteps ==
  ASSUME Inv, NEW i \in DOMAIN stack, Release(i)
  PROVE  /\ stack' \in Seq(Contexts) /\ ~stack[i].released
         /\ \/ Buried(i)
            \/ Emptied(i)
            \/ \E k \in 1 .. Len(stack) : Surfaced(i, k)
<1> DEFINE off == [stack EXCEPT ![i].released = TRUE, ![i].active = FALSE]
           free == IF stack[i].active THEN Deactivated(page, stack[i]) ELSE page
           top == Topmost(off)
           left == SubSeq(off, 1, top)
<1>1. /\ stack \in Seq(Contexts) /\ Len(stack) \in Nat
      /\ DOMAIN stack = 1 .. Len(stack) /\ i \in 1 .. Len(stack)
      /\ Len(stack) \in 1 .. Len(stack)
      /\ \A j \in 1 .. Len(stack) : stack[j] \in Contexts
      /\ stack # <<>>
  BY StackShape DEF Inv, TypeOK
<1>2. ~stack[i].released  BY DEF Release
<1>3. ~stack[Len(stack)].released /\ stack[Len(stack)].active
  BY <1>1, StackShape DEF Inv, TypeOK
<1>4. ASSUME NEW j \in 1 .. Len(stack), j # Len(stack)  PROVE ~stack[j].active
  BY <1>1, <1>4, StackShape DEF Inv
<1>5. /\ off \in Seq(Contexts) /\ Len(off) = Len(stack)
      /\ off[i] = Gone(stack[i])
      /\ \A j \in 1 .. Len(stack) : j # i => off[j] = stack[j]
  <2>1. Gone(stack[i]) \in Contexts  BY <1>1, ContextTypes, TypePage DEF Inv
  <2>2. off = [stack EXCEPT ![i] = Gone(stack[i])]
    <3>1. off = [[stack EXCEPT ![i].released = TRUE] EXCEPT ![i].active = FALSE]
      OBVIOUS
    <3>2. [stack EXCEPT ![i].released = TRUE]
            = [stack EXCEPT ![i] = [stack[i] EXCEPT !.released = TRUE]]
      BY <1>1
    <3> QED  BY <1>1, <3>1, <3>2 DEF Gone
  <2> HIDE DEF off
  <2> QED  BY <1>1, <2>1, <2>2
<1>6. Gone(stack[i]).released /\ ~Gone(stack[i]).active
  BY <1>1, ContextTypes, TypePage DEF Inv
<1>7. \/ top = 0 /\ \A j \in 1 .. Len(off) : off[j].released
      \/ /\ top \in 1 .. Len(off) /\ ~off[top].released
         /\ \A j \in 1 .. Len(off) : j > top => off[j].released
  <2> HIDE DEF off
  <2> QED BY <1>5, TopmostOf
<1>8. IF top = 0 \/ off[top].active \/ off[top].released
        THEN /\ stack' = left
             /\ page' = free
             /\ fresh' = IF stack[i].active THEN {} ELSE fresh
        ELSE /\ stack' = [left EXCEPT ![top].active = TRUE,
                                      ![top].disabled = Outside(free, off[top])]
             /\ page' = Activated(free, off[top])
             /\ fresh' = {}
  BY DEF Release
<1> HIDE DEF off, free, top, left
<1>9. top \in 0 .. Len(stack)  BY <1>1, <1>5, <1>7
<1> DEFINE n == Len(stack)
<1>10. n \in Nat /\ n = Len(off) /\ i \in Int /\ 1 <= i /\ i <= n  BY <1>1, <1>5
<1>11. top \in Int /\ 0 <= top /\ top <= n  BY <1>1, <1>9
<1>12. n = Len(stack)  OBVIOUS
<1> HIDE DEF n
<1>13. CASE i # Len(stack)
  <2>1. i < Len(stack)  BY <1>1, <1>13
  <2>2. off[Len(stack)] = stack[Len(stack)]  BY <1>1, <1>5, <1>13
  <2>3. ~off[Len(stack)].released /\ off[Len(stack)].active  BY <1>3, <2>2
  <2>4. top # 0  BY <1>1, <1>5, <1>7, <2>3
  <2>5. ~(Len(stack) > top)  BY <1>1, <1>5, <1>7, <2>3, <2>4
  <2>6. top = Len(stack)  BY <1>10, <1>11, <1>12, <2>5
  <2>7. left = off  BY <1>1, <1>5, <2>6 DEF left
  <2>8. ~stack[i].active  BY <1>1, <1>4, <1>13
  <2>9. free = page  BY <2>8 DEF free
  <2>10. off[top].active  BY <2>3, <2>6
  <2>11. stack' = off /\ page' = page /\ fresh' = fresh
    BY <1>8, <2>7, <2>8, <2>9, <2>10
  <2>12. Buried(i)  BY <1>5, <2>1, <2>11 DEF Buried
  <2> QED  BY <1>2, <1>5, <2>11, <2>12
<1>14. CASE i = Len(stack)
  <2>1. stack[i].active  BY <1>3, <1>14
  <2>2. free = Deactivated(page, Top)  BY <1>14, <2>1 DEF free, Top
  <2>3. free = Unconstrained  BY <1>1, <2>2, Freed
  <2>4. CASE top = 0
    <3>1. left = <<>>  BY <1>1, <1>5, <2>4 DEF left
    <3>2. \A j \in 1 .. Len(off) : off[j].released  BY <1>7, <2>4
    <3>3. ASSUME NEW j \in 1 .. i, j < i  PROVE stack[j].released
      <4>1. j \in 1 .. n /\ j # i  BY <1>10, <1>12, <1>14, <3>3
      <4>2. off[j] = stack[j]  BY <1>5, <1>12, <4>1
      <4> QED  BY <1>10, <3>2, <4>1, <4>2
    <3>4. stack' = <<>> /\ page' = Unconstrained
      BY <1>8, <2>3, <2>4, <3>1
    <3>5. Emptied(i)  BY <1>14, <3>3, <3>4 DEF Emptied
    <3>6. stack' \in Seq(Contexts)  BY <3>4
    <3> QED  BY <1>2, <3>5, <3>6
  <2>5. CASE top # 0
    <3>1. top \in 1 .. Len(stack)  BY <1>1, <1>9, <2>5
    <3>2. ~off[top].released  BY <1>7, <2>5
    <3>3. top # i  BY <1>5, <1>6, <3>2
    <3>4. top < i /\ top # Len(stack)  BY <1>10, <1>11, <1>12, <1>14, <3>3
    <3>5. off[top] = stack[top]  BY <1>5, <3>1, <3>3
    <3>6. ~stack[top].released  BY <3>2, <3>5
    <3>7. ~off[top].active  BY <1>4, <3>1, <3>4, <3>5
    <3>8. ASSUME NEW j \in 1 .. i, top < j, j < i  PROVE stack[j].released
      <4>1. j \in 1 .. n /\ j # i /\ j > top  BY <1>10, <1>11, <1>12, <1>14, <3>8
      <4>2. off[j] = stack[j]  BY <1>5, <1>12, <4>1
      <4> QED  BY <1>7, <1>10, <2>5, <4>1, <4>2
    <3>9. /\ stack' = [left EXCEPT ![top].active = TRUE,
                                   ![top].disabled = Outside(Unconstrained, stack[top])]
          /\ page' = Activated(Unconstrained, stack[top]) /\ fresh' = {}
      BY <1>8, <2>3, <2>5, <3>2, <3>5, <3>7
    <3>10. left \in Seq(Contexts) /\ Len(left) = top
      BY <1>1, <1>5, <3>1 DEF left
    <3>11. \A j \in 1 .. top : left[j] = stack[j]
      <4>1. \A j \in 1 .. top : left[j] = off[j]
        BY <1>1, <1>5, <3>1 DEF left
      <4>2. \A j \in 1 .. top : j \in 1 .. Len(stack) /\ j # i
        BY <1>10, <1>11, <1>12, <3>4
      <4> QED  BY <1>5, <4>1, <4>2
    <3>12. Raised(stack[top], Unconstrained) \in Contexts
      BY <1>1, <3>1, ContextTypes, Freed
    <3>13. stack' = [left EXCEPT ![top] = Raised(stack[top], Unconstrained)]
      <4>1. top \in 1 .. Len(left) /\ left[top] = stack[top]
        BY <3>1, <3>10, <3>11
      <4>2. [left EXCEPT ![top].active = TRUE]
              = [left EXCEPT ![top] = [stack[top] EXCEPT !.active = TRUE]]
        BY <3>10, <4>1
      <4>3. stack' = [[left EXCEPT ![top].active = TRUE]
                        EXCEPT ![top].disabled = Outside(Unconstrained, stack[top])]
        BY <3>9
      <4> QED  BY <3>10, <4>1, <4>2, <4>3 DEF Raised
    <3>14. /\ stack' \in Seq(Contexts) /\ Len(stack') = top
           /\ stack'[top] = Raised(stack[top], Unconstrained)
           /\ \A j \in 1 .. top : j # top => stack'[j] = stack[j]
      BY <3>1, <3>10, <3>11, <3>12, <3>13
    <3>15. Surfaced(i, top)  BY <1>14, <3>4, <3>6, <3>8, <3>9, <3>14 DEF Surfaced
    <3> QED  BY <1>2, <3>1, <3>14, <3>15
  <2> QED  BY <2>4, <2>5
<1> QED  BY <1>13, <1>14

-----------------------------------------------------------------------------
(* The invariant.                                                            *)

\* Shape, in parts.
LEMMA ShapeFrom ==
  ASSUME NEW s \in Seq(Contexts), NEW m \in Nat,
         \A j \in 1 .. Len(s) : s[j].level = j - 1,
         \A j \in 1 .. Len(s) : s[j].id \in j .. m,
         \A j \in 1 .. Len(s) : j # Len(s) => ~s[j].active,
         Len(s) # 0 => s[Len(s)].active /\ ~s[Len(s)].released,
         \A i, j \in 1 .. Len(s) : i < j => s[i].id < s[j].id
  PROVE  Shape(s, m)
<1>1. ASSUME NEW i \in 1 .. Len(s)
      PROVE  /\ s[i].active <=> (i = Len(s))
             /\ i = Len(s) => ~s[i].released
  <2>1. CASE i = Len(s)
    <3>1. Len(s) # 0  BY <2>1, Len(s) \in Nat
    <3> QED  BY <2>1, <3>1
  <2>2. CASE i # Len(s)  BY <2>2
  <2> QED  BY <2>1, <2>2
<1> QED  BY <1>1 DEF Shape

LEMMA ShapeOf ==
  ASSUME NEW s, NEW m \in Nat, Shape(s, m)
  PROVE  /\ s \in Seq(Contexts)
         /\ \A j \in 1 .. Len(s) : s[j].level = j - 1
         /\ \A j \in 1 .. Len(s) : s[j].id \in j .. m
         /\ \A j \in 1 .. Len(s) : j # Len(s) => ~s[j].active
         /\ \A i, j \in 1 .. Len(s) : i < j => s[i].id < s[j].id
<1>1. ASSUME NEW j \in 1 .. Len(s), j # Len(s)  PROVE ~s[j].active
  BY <1>1 DEF Shape
<1> QED  BY <1>1 DEF Shape

\* The fields of the contexts after constrain().
LEMMA AddedFields ==
  ASSUME Inv, NEW c, Added(c)
  PROVE  /\ Len(stack) \in Nat /\ Len(stack') = Len(stack) + 1
         /\ \A j \in 1 .. Len(stack) :
              /\ stack'[j].id = stack[j].id /\ stack'[j].level = stack[j].level
              /\ stack'[j].tabbable = stack[j].tabbable
         /\ \A j \in 1 .. Len(stack) : ~stack'[j].active
         /\ \A j \in 1 .. Len(stack) : stack'[j].released = stack[j].released
         /\ LET d == stack'[Len(stack) + 1] IN
            /\ d \in Contexts /\ d.id = calls + 1 /\ d.level = Len(stack)
            /\ d.level = c.level /\ d.tabbable = c.tabbable
            /\ d.disabled = Outside(Unconstrained, c)
            /\ d.active /\ ~d.released
<1>1. /\ Len(stack) \in 0 .. calls /\ calls \in Nat
      /\ \A j \in 1 .. Len(stack) : stack[j] \in Contexts
  BY StackShape DEF Inv
<1>2. page \in PageType  BY TypePage DEF Inv
<1>3. ASSUME NEW j \in 1 .. Len(stack)
      PROVE  /\ stack'[j].id = stack[j].id /\ stack'[j].level = stack[j].level
             /\ stack'[j].tabbable = stack[j].tabbable
             /\ ~stack'[j].active /\ stack'[j].released = stack[j].released
  <2>1. stack'[j] = Lain(stack[j])  BY DEF Added
  <2>2. stack[j] \in Contexts  BY <1>1
  <2> QED  BY <1>2, <2>1, <2>2, ContextTypes
<1> DEFINE d == [c EXCEPT !.disabled = Outside(Unconstrained, c)]
<1>4. d.id = c.id /\ d.level = c.level /\ d.tabbable = c.tabbable
      /\ d.active = c.active /\ d.released = c.released
      /\ d.disabled = Outside(Unconstrained, c)
  BY DEF Added, Contexts
<1>5. d = stack'[Len(stack) + 1] /\ d \in Contexts  BY DEF Added
<1>6. c.level = Len(stack) /\ c.id = calls + 1 /\ c.active /\ ~c.released
      /\ Len(stack') = Len(stack) + 1
  BY DEF Added
<1> HIDE DEF d
<1>7. /\ d.id = calls + 1 /\ d.level = Len(stack)
      /\ d.level = c.level /\ d.tabbable = c.tabbable
      /\ d.disabled = Outside(Unconstrained, c)
  BY <1>4, <1>6
<1>8. d.active /\ ~d.released  BY <1>4, <1>6
<1>9. Len(stack) \in Nat  BY <1>1
<1>10. Len(stack') = Len(stack) + 1  BY <1>6
<1>11. \A j \in 1 .. Len(stack) :
         /\ stack'[j].id = stack[j].id /\ stack'[j].level = stack[j].level
         /\ stack'[j].tabbable = stack[j].tabbable
  BY <1>3
<1>12. \A j \in 1 .. Len(stack) : ~stack'[j].active  BY <1>3
<1>13. \A j \in 1 .. Len(stack) : stack'[j].released = stack[j].released
  BY <1>3
<1> QED  BY <1>5, <1>7, <1>8, <1>9, <1>10, <1>11, <1>12, <1>13

LEMMA ConstrainShape ==
  ASSUME Inv, NEW c, Added(c)
  PROVE  Shape(stack', calls + 1)
<1> DEFINE n == Len(stack)
<1>1. calls \in Nat /\ Shape(stack, calls) /\ stack' \in Seq(Contexts)
  BY StackShape, TypeParts DEF Inv, Added
<1>2. /\ n \in Nat /\ Len(stack') = n + 1
      /\ \A j \in 1 .. n : stack'[j].id = stack[j].id
      /\ \A j \in 1 .. n : stack'[j].level = stack[j].level
      /\ \A j \in 1 .. n : ~stack'[j].active
      /\ stack'[n + 1].id = calls + 1 /\ stack'[n + 1].level = n
      /\ stack'[n + 1].active /\ ~stack'[n + 1].released
  BY AddedFields
<1>3. /\ \A j \in 1 .. n : stack[j].level = j - 1
      /\ \A j \in 1 .. n : stack[j].id \in j .. calls
      /\ \A i, j \in 1 .. n : i < j => stack[i].id < stack[j].id
  BY <1>1, ShapeOf
<1>4. n \in 0 .. calls
  <2> HIDE DEF n
  <2>1. Len(stack) \in 0 .. calls  BY StackShape DEF Inv
  <2> QED  BY <2>1 DEF n
<1> HIDE DEF n
<1>5. \A j \in 1 .. n + 1 : j \in 1 .. n \/ j = n + 1  BY <1>2
<1>6. \A j \in 1 .. n + 1 : stack'[j].level = j - 1
  BY <1>2, <1>3, <1>5
<1>7. ASSUME NEW j \in 1 .. n + 1  PROVE stack'[j].id \in j .. calls + 1
  <2>1. CASE j \in 1 .. n
    <3>1. stack'[j].id \in j .. calls  BY <1>2, <1>3, <2>1
    <3> QED  BY <1>1, <3>1
  <2>2. CASE j = n + 1  BY <1>1, <1>2, <1>4, <2>2
  <2> QED  BY <1>5, <2>1, <2>2
<1>8. \A j \in 1 .. n + 1 : j # n + 1 => ~stack'[j].active
  BY <1>2, <1>5
<1>9. ASSUME NEW i \in 1 .. n + 1, NEW j \in 1 .. n + 1, i < j
      PROVE  stack'[i].id < stack'[j].id
  <2>1. i \in 1 .. n  BY <1>2, <1>9
  <2>2. CASE j \in 1 .. n  BY <1>2, <1>3, <1>9, <2>1, <2>2
  <2>3. CASE j = n + 1
    <3>1. stack'[i].id \in i .. calls  BY <1>2, <1>3, <2>1
    <3>2. stack'[i].id <= calls /\ stack'[i].id \in Int  BY <1>1, <3>1
    <3>3. stack'[j].id = calls + 1  BY <1>2, <2>3
    <3> QED  BY <1>1, <3>2, <3>3
  <2> QED  BY <1>5, <2>2, <2>3
<1>10. calls + 1 \in Nat  BY <1>1
<1> QED  BY <1>1, <1>2, <1>6, <1>7, <1>8, <1>9, <1>10, ShapeFrom

\* What the invariant asks for after a step.
LEMMA NextInv ==
  ASSUME calls' \in 0 .. MaxCalls, changes' \in 0 .. MaxChanges,
         Shape(stack', calls'), page' \in PageType,
         meant' \in [Elements -> Attributes],
         touched' \subseteq Elements, fresh' \subseteq Elements,
         stack' = <<>> => Free(page)', stack' # <<>> => Held(page, Top)'
  PROVE  Inv'
<1>1. stack' \in Seq(Contexts) /\ DOMAIN stack' = 1 .. Len(stack')  BY DEF Shape
<1>2. TypeOK'  BY <1>1 DEF TypeOK, Shape, PageType
<1> QED  BY <1>2 DEF Inv

\* A context put on the free page.
LEMMA HeldNext ==
  ASSUME Inv, NEW c \in Contexts, touched' = touched, meant' = meant, fresh' = {},
         page' = Activated(Unconstrained, c), stack' \in Seq(Contexts), stack' # <<>>,
         Top'.level = c.level, Top'.tabbable = c.tabbable,
         Top'.disabled = Outside(Unconstrained, c)
  PROVE  page' \in PageType /\ Held(page, Top)'
<1>1. Top' \in Contexts
  <2>1. Len(stack') \in DOMAIN stack'  OBVIOUS
  <2> QED  BY <2>1 DEF Top
<1>2. Unconstrained \in PageType /\ Free(Unconstrained)  BY Freed
<1> DEFINE p == Unconstrained
           d == Top'
<1> HIDE DEF p
<1>3. /\ Activated(p, c) \in PageType
      /\ \A e \in d.disabled :
           /\ Activated(p, c).saved[e][d.level] \in Attributes
           /\ ~Activated(p, c).attr[e].autofocus
      /\ \A e \in Elements \ touched' :
           (IF e \in d.disabled THEN Activated(p, c).saved[e][d.level]
                                ELSE Activated(p, c).attr[e]) = meant'[e]
      /\ \A e \in Elements :
           IF e \in d.disabled
           THEN Activated(p, c).saved[e][d.level].autofocus = meant'[e].autofocus
           ELSE Activated(p, c).attr[e].autofocus = meant'[e].autofocus
      /\ Tabbable(Activated(p, c)) \subseteq d.tabbable \cup fresh'
      /\ Activated(p, c).trapped \subseteq Edges(d.tabbable)
  BY <1>1, <1>2, PutOn DEF p
<1> QED  BY <1>3 DEF Held, p, Tabbable

LEMMA ConstrainInv ==
  ASSUME Inv, NEW roots \in SUBSET Elements, NEW trap \in BOOLEAN,
         Constrain(roots, trap)
  PROVE  Inv'
<1>1. PICK c : Added(c)  BY ConstrainAdds
<1>2. /\ calls < MaxCalls /\ calls' = calls + 1 /\ fresh' = {}
      /\ changes' = changes /\ meant' = meant /\ touched' = touched
  BY DEF Constrain
<1>3. Shape(stack', calls')  BY <1>1, <1>2, ConstrainShape
<1>4. /\ calls \in 0 .. MaxCalls /\ changes \in 0 .. MaxChanges
      /\ meant \in [Elements -> Attributes] /\ touched \subseteq Elements
  BY DEF Inv, TypeOK
<1>5. /\ Len(stack) \in Nat /\ Len(stack') = Len(stack) + 1
      /\ stack'[Len(stack) + 1].level = c.level
      /\ stack'[Len(stack) + 1].tabbable = c.tabbable
      /\ stack'[Len(stack) + 1].disabled = Outside(Unconstrained, c)
  BY <1>1, AddedFields
<1>6. Top' = stack'[Len(stack) + 1]  BY <1>5 DEF Top
<1>7. /\ stack' \in Seq(Contexts) /\ stack' # <<>> /\ c \in Contexts
      /\ page' = Activated(Unconstrained, c)
  BY <1>1, <1>5 DEF Added
<1>8. Top'.level = c.level /\ Top'.tabbable = c.tabbable
      /\ Top'.disabled = Outside(Unconstrained, c)
  BY <1>5, <1>6
<1>9. page' \in PageType /\ Held(page, Top)'
  BY <1>2, <1>7, <1>8, HeldNext
<1>10. calls' \in 0 .. MaxCalls  BY <1>2, <1>4, BoundsAreNatural
<1> QED  BY <1>2, <1>3, <1>4, <1>7, <1>9, <1>10, NextInv

\* The fields of the contexts after release() of one that lies under others.
LEMMA BuriedFields ==
  ASSUME Inv, NEW i \in 1 .. Len(stack), Buried(i)
  PROVE  /\ Len(stack) \in Nat /\ Len(stack') = Len(stack)
         /\ \A j \in 1 .. Len(stack) :
              /\ stack'[j].id = stack[j].id /\ stack'[j].level = stack[j].level
              /\ stack'[j].tabbable = stack[j].tabbable
         /\ \A j \in 1 .. Len(stack) : j # Len(stack) => ~stack'[j].active
         /\ \A j \in 1 .. Len(stack) : j # i => stack'[j] = stack[j]
         /\ stack'[i].released /\ i # Len(stack)
<1>1. /\ Len(stack) \in 0 .. calls /\ calls \in Nat
      /\ \A j \in 1 .. Len(stack) : stack[j] \in Contexts
  BY StackShape DEF Inv
<1>2. page \in PageType  BY TypePage DEF Inv
<1>3. Len(stack) \in Nat /\ i < Len(stack) /\ Len(stack') = Len(stack)
  BY <1>1 DEF Buried
<1>4. i # Len(stack)  BY <1>3
<1>5. stack'[i] = Gone(stack[i])
      /\ \A j \in 1 .. Len(stack) : j # i => stack'[j] = stack[j]
  BY DEF Buried
<1>6. /\ stack'[i].id = stack[i].id /\ stack'[i].level = stack[i].level
      /\ stack'[i].tabbable = stack[i].tabbable
      /\ stack'[i].released /\ ~stack'[i].active
  BY <1>1, <1>2, <1>5, ContextTypes
<1>7. ASSUME NEW j \in 1 .. Len(stack)
      PROVE  /\ stack'[j].id = stack[j].id /\ stack'[j].level = stack[j].level
             /\ stack'[j].tabbable = stack[j].tabbable
  <2>1. CASE j = i  BY <1>6, <2>1
  <2>2. CASE j # i  BY <1>5, <2>2
  <2> QED  BY <2>1, <2>2
<1>8. Shape(stack, calls)  BY TypeParts DEF Inv
<1>9. ASSUME NEW j \in 1 .. Len(stack), j # Len(stack)  PROVE ~stack'[j].active
  <2>1. CASE j = i  BY <1>6, <2>1
  <2>2. CASE j # i
    <3>1. ~stack[j].active  BY <1>1, <1>8, <1>9, ShapeOf
    <3> QED  BY <1>5, <2>2, <3>1
  <2> QED  BY <2>1, <2>2
<1>10. \A j \in 1 .. Len(stack) : j # Len(stack) => ~stack'[j].active  BY <1>9
<1> QED  BY <1>3, <1>4, <1>5, <1>6, <1>7, <1>10

LEMMA BuriedInv ==
  ASSUME Inv, NEW i \in 1 .. Len(stack), Release(i), Buried(i),
         stack' \in Seq(Contexts)
  PROVE  Inv'
<1> DEFINE n == Len(stack)
<1>1. /\ n \in Nat /\ Len(stack') = n
      /\ \A j \in 1 .. n : stack'[j].id = stack[j].id
      /\ \A j \in 1 .. n : stack'[j].level = stack[j].level
      /\ \A j \in 1 .. n : j # n => ~stack'[j].active
      /\ \A j \in 1 .. n : j # i => stack'[j] = stack[j]
      /\ i # n
  BY BuriedFields
<1>2. /\ calls' = calls /\ changes' = changes /\ meant' = meant /\ touched' = touched
      /\ page' = page /\ fresh' = fresh
  BY DEF Release, Buried
<1>3. /\ calls \in 0 .. MaxCalls /\ changes \in 0 .. MaxChanges
      /\ meant \in [Elements -> Attributes] /\ touched \subseteq Elements
      /\ fresh \subseteq Elements /\ page \in PageType /\ Shape(stack, calls)
      /\ calls \in Nat
  BY TypeParts, StackShape DEF Inv
<1>4. /\ \A j \in 1 .. n : stack[j].level = j - 1
      /\ \A j \in 1 .. n : stack[j].id \in j .. calls
      /\ \A j, k \in 1 .. n : j < k => stack[j].id < stack[k].id
  BY <1>3, ShapeOf
<1>5. 1 <= i /\ i <= n  OBVIOUS
<1>6. stack # <<>> /\ stack' # <<>> /\ n \in 1 .. n /\ n # 0
  <2> HIDE DEF n
  <2>1. n \in 1 .. n /\ n # 0  BY <1>1, <1>5
  <2> QED  BY <1>1, <2>1 DEF n
<1>7. stack[n].active /\ ~stack[n].released
  BY <1>3, <1>6, StackShape DEF Shape, Inv
<1>8. stack'[n] = stack[n]  BY <1>1, <1>6
<1>9. Top' = Top  BY <1>1, <1>8 DEF Top
<1>10. stack'[n].active /\ ~stack'[n].released  BY <1>7, <1>8
<1> HIDE DEF n
<1>11. \A j \in 1 .. n : stack'[j].level = j - 1  BY <1>1, <1>4
<1>12. \A j \in 1 .. n : stack'[j].id \in j .. calls  BY <1>1, <1>4
<1>13. \A j, k \in 1 .. n : j < k => stack'[j].id < stack'[k].id
  BY <1>1, <1>4
<1>14. Shape(stack', calls)
  BY <1>1, <1>3, <1>10, <1>11, <1>12, <1>13, ShapeFrom
<1>15. Held(page, Top)  BY <1>6 DEF Inv
<1>16. Held(page, Top)'  BY <1>2, <1>9, <1>15 DEF Held, Tabbable
<1> QED  BY <1>2, <1>3, <1>6, <1>14, <1>16, NextInv

LEMMA EmptiedInv ==
  ASSUME Inv, NEW i \in 1 .. Len(stack), Release(i), Emptied(i)
  PROVE  Inv'
<1>1. /\ calls' = calls /\ changes' = changes /\ meant' = meant /\ touched' = touched
      /\ stack' = <<>> /\ page' = Unconstrained
  BY DEF Release, Emptied
<1>2. fresh' = fresh \/ fresh' = {}  BY DEF Release
<1>3. /\ calls \in 0 .. MaxCalls /\ changes \in 0 .. MaxChanges
      /\ meant \in [Elements -> Attributes] /\ touched \subseteq Elements
      /\ fresh \subseteq Elements
  BY TypeParts DEF Inv
<1>4. Unconstrained \in PageType /\ Free(Unconstrained)  BY Freed
<1>5. page' \in PageType /\ Free(page)'  BY <1>1, <1>4 DEF Free
<1>6. Shape(stack', calls)  BY <1>1 DEF Shape
<1>7. fresh' \subseteq Elements  BY <1>2, <1>3
<1> QED  BY <1>1, <1>3, <1>5, <1>6, <1>7, NextInv

\* The fields of the contexts after one came to the surface.
LEMMA SurfacedFields ==
  ASSUME Inv, NEW i \in 1 .. Len(stack), NEW k \in 1 .. Len(stack), Surfaced(i, k)
  PROVE  /\ Len(stack) \in Nat /\ k \in 1 .. Len(stack) /\ k # Len(stack)
         /\ Len(stack') = k /\ i = Len(stack)
         /\ \A j \in 1 .. k :
              /\ stack'[j].id = stack[j].id /\ stack'[j].level = stack[j].level
              /\ stack'[j].tabbable = stack[j].tabbable
         /\ \A j \in 1 .. k : j # k => stack'[j] = stack[j]
         /\ \A j \in 1 .. k : j # k => ~stack'[j].active
         /\ stack'[k].active /\ ~stack'[k].released
         /\ stack'[k].disabled = Outside(Unconstrained, stack[k])
         /\ stack[k] \in Contexts
<1> DEFINE n == Len(stack)
<1>1. /\ Len(stack) \in 0 .. calls /\ calls \in Nat
      /\ \A j \in 1 .. Len(stack) : stack[j] \in Contexts
  BY StackShape DEF Inv
<1>2. Unconstrained \in PageType  BY Freed
<1>3. k < i /\ i = Len(stack) /\ Len(stack') = k /\ ~stack[k].released
      /\ stack'[k] = Raised(stack[k], Unconstrained)
      /\ \A j \in 1 .. k : j # k => stack'[j] = stack[j]
  BY DEF Surfaced
<1>4. n \in Nat /\ i = n /\ k < i /\ k \in Int /\ 1 <= k  BY <1>1, <1>3
<1>5. k # n  BY <1>3
<1>6. \A j \in 1 .. k : j \in 1 .. n /\ j # n
  <2> HIDE DEF n
  <2> QED  BY <1>4
<1>7. stack[k] \in Contexts  BY <1>1
<1>8. /\ stack'[k].id = stack[k].id /\ stack'[k].level = stack[k].level
      /\ stack'[k].tabbable = stack[k].tabbable
      /\ stack'[k].disabled = Outside(Unconstrained, stack[k])
      /\ stack'[k].active /\ stack'[k].released = stack[k].released
  <2> DEFINE r == Raised(stack[k], Unconstrained)
  <2>1. stack'[k] = r  BY <1>3
  <2>2. /\ r.id = stack[k].id /\ r.level = stack[k].level
        /\ r.tabbable = stack[k].tabbable
        /\ r.disabled = Outside(Unconstrained, stack[k])
        /\ r.active /\ r.released = stack[k].released
    BY <1>2, <1>7, ContextTypes
  <2> HIDE DEF r
  <2> QED  BY <2>1, <2>2
<1>9. ~stack'[k].released  BY <1>3, <1>8
<1>10. ASSUME NEW j \in 1 .. k
       PROVE  /\ stack'[j].id = stack[j].id /\ stack'[j].level = stack[j].level
              /\ stack'[j].tabbable = stack[j].tabbable
  <2>1. CASE j = k  BY <1>8, <2>1
  <2>2. CASE j # k  BY <1>3, <2>2
  <2> QED  BY <2>1, <2>2
<1>11. Shape(stack, calls)  BY TypeParts DEF Inv
<1>12. ASSUME NEW j \in 1 .. k, j # k  PROVE ~stack'[j].active
  <2>1. j \in 1 .. n /\ j # n  BY <1>6
  <2>2. ~stack[j].active  BY <1>1, <1>11, <2>1, ShapeOf
  <2> QED  BY <1>3, <1>12, <2>2
<1>13. \A j \in 1 .. k : j # k => ~stack'[j].active  BY <1>12
<1> QED  BY <1>3, <1>4, <1>5, <1>7, <1>8, <1>9, <1>10, <1>13

LEMMA SurfacedInv ==
  ASSUME Inv, NEW i \in 1 .. Len(stack), NEW k \in 1 .. Len(stack),
         Release(i), Surfaced(i, k), stack' \in Seq(Contexts)
  PROVE  Inv'
<1> DEFINE n == Len(stack)
<1>1. /\ n \in Nat /\ k \in 1 .. n /\ Len(stack') = k
      /\ \A j \in 1 .. k : stack'[j].id = stack[j].id
      /\ \A j \in 1 .. k : stack'[j].level = stack[j].level
      /\ \A j \in 1 .. k : j # k => ~stack'[j].active
      /\ stack'[k].active /\ ~stack'[k].released
  BY SurfacedFields
<1>2. /\ stack'[k].tabbable = stack[k].tabbable
      /\ stack'[k].disabled = Outside(Unconstrained, stack[k])
      /\ stack[k] \in Contexts
  BY SurfacedFields
<1>3. /\ calls' = calls /\ changes' = changes /\ meant' = meant /\ touched' = touched
      /\ page' = Activated(Unconstrained, stack[k]) /\ fresh' = {}
  BY DEF Release, Surfaced
<1>4. /\ calls \in 0 .. MaxCalls /\ changes \in 0 .. MaxChanges
      /\ meant \in [Elements -> Attributes] /\ touched \subseteq Elements
      /\ Shape(stack, calls) /\ calls \in Nat
  BY TypeParts, StackShape DEF Inv
<1>5. /\ \A j \in 1 .. n : stack[j].level = j - 1
      /\ \A j \in 1 .. n : stack[j].id \in j .. calls
      /\ \A j, l \in 1 .. n : j < l => stack[j].id < stack[l].id
  BY <1>4, ShapeOf
<1>6. k \in 1 .. k /\ k # 0 /\ stack' # <<>>
  BY <1>1
<1>7. Top' = stack'[k]  BY <1>1 DEF Top
<1> HIDE DEF n
<1>8. \A j \in 1 .. k : j \in 1 .. n  BY <1>1
<1>9. \A j \in 1 .. k : stack'[j].level = j - 1  BY <1>1, <1>5, <1>8
<1>10. \A j \in 1 .. k : stack'[j].id \in j .. calls  BY <1>1, <1>5, <1>8
<1>11. \A j, l \in 1 .. k : j < l => stack'[j].id < stack'[l].id
  BY <1>1, <1>5, <1>8
<1>12. Shape(stack', calls)
  BY <1>1, <1>4, <1>9, <1>10, <1>11, ShapeFrom
<1>13. Top'.level = stack[k].level  BY <1>1, <1>6, <1>7
<1>14. page' \in PageType /\ Held(page, Top)'
  BY <1>2, <1>3, <1>6, <1>7, <1>13, HeldNext
<1> QED  BY <1>3, <1>4, <1>6, <1>12, <1>14, NextInv

LEMMA ReleaseInv ==
  ASSUME Inv, NEW i \in DOMAIN stack, Release(i)
  PROVE  Inv'
<1>1. i \in 1 .. Len(stack)  BY StackShape DEF Inv
<1>2. /\ stack' \in Seq(Contexts)
      /\ Buried(i) \/ Emptied(i) \/ \E k \in 1 .. Len(stack) : Surfaced(i, k)
  BY ReleaseSteps
<1> QED  BY <1>1, <1>2, BuriedInv, EmptiedInv, SurfacedInv

LEMMA InitInv == Init => Inv
<1> SUFFICES ASSUME Init  PROVE Inv  OBVIOUS
<1>1. /\ calls = 0 /\ stack = <<>> /\ changes = 0
      /\ meant \in [Elements -> Attributes] /\ touched = {} /\ fresh = {}
  BY DEF Init
<1>2. PICK shown \in SUBSET Elements :
        page = [attr |-> meant, shown |-> shown,
                saved |-> [e \in Elements |-> [l \in Levels |-> NotSaved]],
                trapped |-> {}]
  BY DEF Init
<1>3. page \in PageType /\ page.trapped = {} /\ page.attr = meant
  BY <1>1, <1>2 DEF PageType
<1>4. Shape(stack, calls)  BY <1>1 DEF Shape
<1>5. TypeOK  BY <1>1, <1>3, <1>4, TypeParts, BoundsAreNatural
<1>6. Free(page)  BY <1>3 DEF Free
<1> QED  BY <1>1, <1>5, <1>6 DEF Inv

LEMMA DisabledIs ==
  ASSUME TypeOK
  PROVE  DisabledNow = IF stack = <<>> THEN {} ELSE Top.disabled
<1>1. InForce = IF stack = <<>> THEN {} ELSE {Len(stack)}  BY StackShape
<1>2. CASE stack = <<>>
  <2>1. InForce = {}  BY <1>1, <1>2
  <2> QED  BY <1>2, <2>1 DEF DisabledNow
<1>3. CASE stack # <<>>
  <2>1. InForce = {Len(stack)}  BY <1>1, <1>3
  <2> QED  BY <1>3, <2>1 DEF DisabledNow, Top
<1> QED  BY <1>2, <1>3

\* Content appears or disappears: it is fresh.
LEMMA ToggleInv ==
  ASSUME Inv, NEW e \in Elements, Toggle(e)
  PROVE  Inv'
<1>1. /\ changes < MaxChanges /\ changes' = changes + 1 /\ calls' = calls
      /\ stack' = stack /\ meant' = meant /\ touched' = touched
      /\ fresh' = fresh \cup {e}
      /\ page' = [page EXCEPT !.shown = IF e \in @ THEN @ \ {e} ELSE @ \cup {e}]
  BY DEF Toggle
<1>2. /\ calls \in 0 .. MaxCalls /\ changes \in 0 .. MaxChanges
      /\ meant \in [Elements -> Attributes] /\ touched \subseteq Elements
      /\ fresh \subseteq Elements /\ page \in PageType /\ Shape(stack, calls)
  BY TypeParts DEF Inv
<1>3. /\ page' \in PageType /\ page'.attr = page.attr /\ page'.saved = page.saved
      /\ page'.trapped = page.trapped /\ page'.shown \subseteq page.shown \cup {e}
  BY <1>1, <1>2 DEF PageType
<1>4. stack = <<>> => Free(page)'
  BY <1>1, <1>3 DEF Free, Inv
<1>5. Tabbable(page)' \subseteq Tabbable(page) \cup {e}
  BY <1>3 DEF Tabbable
<1>6. stack # <<>> => Held(page, Top)'
  BY <1>1, <1>3, <1>5 DEF Held, Top, Inv
<1>7. changes' \in 0 .. MaxChanges  BY <1>1, <1>2, BoundsAreNatural
<1>8. fresh' \subseteq Elements  BY <1>1, <1>2
<1> QED  BY <1>1, <1>2, <1>3, <1>4, <1>6, <1>7, <1>8, NextInv

\* A script changes a tabindex: what is disabled now is touched.
LEMMA SetIndexInv ==
  ASSUME Inv, NEW e \in Elements, NEW v \in Indices, SetIndex(e, v)
  PROVE  Inv'
<1>1. /\ changes < MaxChanges /\ changes' = changes + 1 /\ calls' = calls
      /\ stack' = stack /\ fresh' = fresh \cup {e}
      /\ page' = [page EXCEPT !.attr[e].index = v]
      /\ meant' = [meant EXCEPT ![e].index = v]
      /\ touched' = IF e \in DisabledNow THEN touched \cup {e} ELSE touched \ {e}
  BY DEF SetIndex
<1>2. /\ calls \in 0 .. MaxCalls /\ changes \in 0 .. MaxChanges
      /\ meant \in [Elements -> Attributes] /\ touched \subseteq Elements
      /\ fresh \subseteq Elements /\ page \in PageType /\ Shape(stack, calls)
  BY TypeParts DEF Inv
<1>3. /\ [meant[e] EXCEPT !.index = v] \in Attributes
      /\ [page.attr[e] EXCEPT !.index = v] \in Attributes
  BY <1>2 DEF Attributes, PageType
<1>4. /\ meant' = [meant EXCEPT ![e] = [meant[e] EXCEPT !.index = v]]
      /\ meant' \in [Elements -> Attributes]
  BY <1>1, <1>2, <1>3
<1> DEFINE attr == [page.attr EXCEPT ![e] = [page.attr[e] EXCEPT !.index = v]]
<1>5. page' = [page EXCEPT !.attr = attr]  BY <1>1
<1>6. attr \in [Elements -> Attributes] /\ page.attr \in [Elements -> Attributes]
  BY <1>2, <1>3 DEF PageType
<1> HIDE DEF attr
<1>7. /\ page' \in PageType /\ page'.attr = attr /\ page'.saved = page.saved
      /\ page'.trapped = page.trapped /\ page'.shown = page.shown
  BY <1>2, <1>5, <1>6 DEF PageType
<1>8. \A f \in Elements : f # e => attr[f] = page.attr[f] /\ meant'[f] = meant[f]
  BY <1>2, <1>4, <1>6 DEF attr
<1>9. attr[e] = [page.attr[e] EXCEPT !.index = v]
      /\ meant'[e] = [meant[e] EXCEPT !.index = v]
  BY <1>2, <1>4, <1>6 DEF attr
<1>10. /\ attr[e].autofocus = page.attr[e].autofocus
       /\ meant'[e].autofocus = meant[e].autofocus
       /\ attr[e].index = v /\ meant'[e].index = v
  BY <1>2, <1>6, <1>9 DEF Attributes
<1>11. page.attr[e].autofocus = meant[e].autofocus => attr[e] = meant'[e]
  <2>1. attr[e] \in Attributes /\ meant'[e] \in Attributes  BY <1>4, <1>6
  <2> QED  BY <1>10, <2>1 DEF Attributes
<1>12. CASE stack = <<>>
  <2>1. Free(page) /\ touched' = touched \ {e}
    BY <1>1, <1>12, DisabledIs DEF Inv
  <2>2. \A f \in Elements : attr[f].autofocus = meant'[f].autofocus
    BY <1>8, <1>10, <2>1 DEF Free
  <2>3. \A f \in Elements \ touched' : attr[f] = meant'[f]
    BY <1>8, <1>11, <2>1 DEF Free
  <2>4. Free(page)'  BY <1>7, <2>1, <2>2, <2>3 DEF Free
  <2>5. changes' \in 0 .. MaxChanges  BY <1>1, <1>2, BoundsAreNatural
  <2> QED  BY <1>1, <1>2, <1>4, <1>7, <1>12, <2>1, <2>4, <2>5, NextInv
<1>13. CASE stack # <<>>
  <2> DEFINE c == Top
  <2>1. Held(page, c)  BY <1>13 DEF Inv
  <2>2. Top' = c  BY <1>1 DEF Top
  <2>3. c \in Contexts  BY <1>13, StackShape DEF Inv
  <2>4. touched' = IF e \in c.disabled THEN touched \cup {e} ELSE touched \ {e}
    BY <1>1, <1>13, DisabledIs DEF Inv
  <2> HIDE DEF c
  <2>5. c.disabled \subseteq Elements  BY <2>3 DEF Contexts
  <2>6. \A f \in c.disabled : page.saved[f][c.level] \in Attributes
                              /\ ~attr[f].autofocus
    <3>1. ASSUME NEW f \in c.disabled  PROVE ~attr[f].autofocus
      <4>1. ~page.attr[f].autofocus  BY <2>1 DEF Held
      <4> QED  BY <1>8, <1>10, <2>5, <4>1
    <3> QED  BY <2>1, <3>1 DEF Held
  <2>7. \A f \in Elements \ touched' :
          (IF f \in c.disabled THEN page.saved[f][c.level] ELSE attr[f]) = meant'[f]
    <3> SUFFICES ASSUME NEW f \in Elements \ touched'
                 PROVE (IF f \in c.disabled THEN page.saved[f][c.level] ELSE attr[f])
                         = meant'[f]
      OBVIOUS
    <3>1. CASE f # e
      <4>1. f \in Elements \ touched  BY <2>4, <3>1
      <4> QED  BY <1>8, <2>1, <3>1, <4>1 DEF Held
    <3>2. CASE f = e
      <4>1. e \notin c.disabled  BY <2>4, <3>2
      <4>2. page.attr[e].autofocus = meant[e].autofocus  BY <2>1, <4>1 DEF Held
      <4> QED  BY <1>11, <3>2, <4>1, <4>2
    <3> QED  BY <3>1, <3>2
  <2>8. \A f \in Elements :
          IF f \in c.disabled THEN page.saved[f][c.level].autofocus = meant'[f].autofocus
                              ELSE attr[f].autofocus = meant'[f].autofocus
    <3>1. \A f \in Elements : meant'[f].autofocus = meant[f].autofocus
                              /\ attr[f].autofocus = page.attr[f].autofocus
      BY <1>8, <1>10
    <3> QED  BY <2>1, <3>1 DEF Held
  <2>9. Tabbable(page)' \subseteq Tabbable(page) \cup {e}
    <3>1. \A f \in Elements : f # e => page'.attr[f] = page.attr[f]
      BY <1>7, <1>8
    <3>2. page.shown \subseteq Elements  BY <1>2 DEF PageType
    <3> QED  BY <1>7, <3>1, <3>2 DEF Tabbable
  <2>10. Held(page, Top)'
    BY <1>1, <1>7, <2>1, <2>2, <2>6, <2>7, <2>8, <2>9 DEF Held
  <2>11. changes' \in 0 .. MaxChanges  BY <1>1, <1>2, BoundsAreNatural
  <2>12. touched' \subseteq Elements  BY <1>2, <2>4
  <2> QED  BY <1>1, <1>2, <1>4, <1>7, <1>13, <2>10, <2>11, <2>12, NextInv
<1> QED  BY <1>12, <1>13

LEMMA StutterInv == Inv /\ UNCHANGED vars => Inv'
<1> SUFFICES ASSUME Inv, UNCHANGED vars  PROVE Inv'  OBVIOUS
<1> USE DEF vars
<1>1. TypeOK'  BY DEF Inv, TypeOK
<1>2. (stack = <<>> => Free(page))'  BY DEF Inv, Free
<1>3. (stack # <<>> => Held(page, Top))'  BY DEF Inv, Held, Top, Tabbable
<1> QED  BY <1>1, <1>2, <1>3 DEF Inv

LEMMA StepInv == Inv /\ [Next]_vars => Inv'
<1> SUFFICES ASSUME Inv, [Next]_vars  PROVE Inv'  OBVIOUS
<1>1. ASSUME NEW roots \in SUBSET Elements, NEW trap \in BOOLEAN,
             Constrain(roots, trap)
      PROVE  Inv'
  BY <1>1, ConstrainInv
<1>2. ASSUME NEW i \in DOMAIN stack, Release(i)  PROVE Inv'
  BY <1>2, ReleaseInv
<1>3. ASSUME NEW e \in Elements, Toggle(e)  PROVE Inv'  BY <1>3, ToggleInv
<1>4. ASSUME NEW e \in Elements, NEW v \in Indices, SetIndex(e, v)  PROVE Inv'
  BY <1>4, SetIndexInv
<1>5. CASE UNCHANGED vars  BY <1>5, StutterInv
<1> QED  BY <1>1, <1>2, <1>3, <1>4, <1>5 DEF Next

LEMMA Invariance == Spec => []Inv
<1> QED  BY InitInv, StepInv, PTL DEF Spec

-----------------------------------------------------------------------------
(* The properties.                                                           *)

\* Contexts, stack, page and counters always have their types, and only the
\* context at the top of the stack is in force, for any page and any number of
\* requests.
THEOREM TypeCorrect == Spec => []TypeOK
<1> QED  BY Invariance, PTL DEF Inv

\* Whatever was constrained and released in whatever order, an element that no
\* script changed while it was disabled has, or gets back, its attributes.
THEOREM NothingIsLost == Spec => []NothingLost
<1>1. Inv => NothingLost
  <2> SUFFICES ASSUME Inv, NEW e \in Elements \ touched
               PROVE  Underneath(e) = meant[e]
    BY DEF NothingLost
  <2>1. TypeOK  BY DEF Inv
  <2>2. CASE stack = <<>>
    <3>1. DisabledNow = {}  BY <2>1, <2>2, DisabledIs
    <3> QED  BY <2>2, <3>1 DEF Inv, Free, Underneath
  <2>3. CASE stack # <<>>
    <3>1. DisabledNow = Top.disabled  BY <2>1, <2>3, DisabledIs
    <3>2. Top.level = Len(stack) - 1
      <4>1. Len(stack) \in DOMAIN stack  BY <2>1, <2>3, StackShape
      <4> QED  BY <2>1, <4>1 DEF Top, TypeOK
    <3>3. Held(page, Top)  BY <2>3 DEF Inv
    <3> QED  BY <3>1, <3>2, <3>3 DEF Held, Underneath
  <2> QED  BY <2>2, <2>3
<1> QED  BY <1>1, Invariance, PTL

\* While a request is in force, what it did not ask for is out of the Tab order,
\* but for what the page's scripts showed or changed since.
THEOREM TabbingIsConstrained == Spec => []Constrained
<1>1. Inv => Constrained  BY DEF Inv, Held, Top, Constrained
<1> QED  BY <1>1, Invariance, PTL

\* A focus trap never outlives the request it was set for.
THEOREM TrapsAreInForce == Spec => []TrapsInForce
<1>1. Inv => TrapsInForce
  <2> SUFFICES ASSUME Inv  PROVE TrapsInForce  OBVIOUS
  <2>1. InForce = IF stack = <<>> THEN {} ELSE {Len(stack)}
    BY StackShape DEF Inv
  <2>2. CASE stack = <<>>  BY <2>2 DEF Inv, Free, TrapsInForce
  <2>3. CASE stack # <<>>
    <3>1. page.trapped \subseteq Edges(Top.tabbable)  BY <2>3 DEF Inv, Held
    <3>2. InForce = {Len(stack)}  BY <2>1, <2>3
    <3> QED  BY <3>1, <3>2 DEF TrapsInForce, Top
  <2> QED  BY <2>2, <2>3
<1> QED  BY <1>1, Invariance, PTL

-----------------------------------------------------------------------------
(* The refinement.                                                           *)

Request(c) == [id |-> c.id, set |-> c.tabbable]
Standing(s) == {j \in DOMAIN s : ~s[j].released}
Requested(s) == {[id |-> s[i].id, set |-> s[i].tabbable] :
                   i \in {j \in DOMAIN s : ~s[j].released}}
Reached(s) == {s[i].tabbable : i \in {j \in DOMAIN s : s[j].active}}

\* The context in force is the newest of the requests that stand.
LEMMA NewestOf ==
  ASSUME NEW s, NEW m \in Nat, Shape(s, m)
  PROVE  Reached(s) = Promise!Newest(Requested(s))
<1> DEFINE n == Len(s)
           r == [id |-> s[n].id, set |-> s[n].tabbable]
<1>1. s \in Seq(Contexts) /\ DOMAIN s = 1 .. n /\ n \in Nat  BY DEF Shape
<1>2. CASE s = <<>>
  BY <1>2 DEF Reached, Requested, Promise!Newest
<1>3. CASE s # <<>>
  <2>1. n \in 1 .. n  BY <1>1, <1>3
  <2>2. s[n].active /\ ~s[n].released  BY <2>1 DEF Shape
  <2>3. \A j \in 1 .. n : j # n => ~s[j].active  BY ShapeOf
  <2>4. Reached(s) = {s[n].tabbable}
    <3>1. {j \in DOMAIN s : s[j].active} = {n}
      <4> HIDE DEF n
      <4>1. \A j : j \in {l \in DOMAIN s : s[l].active} <=> j \in {n}
        BY <1>1, <2>1, <2>2, <2>3
      <4> QED  BY <4>1
    <3> QED  BY <3>1 DEF Reached
  <2>5. r \in Requested(s)  BY <1>1, <2>1, <2>2 DEF Requested
  <2>6. \A i, j \in 1 .. n : i < j => s[i].id < s[j].id  BY ShapeOf
  <2>7. \A j \in 1 .. n : s[j].id \in Nat
    <3>1. \A j \in 1 .. n : s[j].id \in j .. m  BY ShapeOf
    <3> QED  BY <3>1
  <2> HIDE DEF n
  <2>8. \A j \in 1 .. n : j = n \/ s[j].id < s[n].id
    <3> SUFFICES ASSUME NEW j \in 1 .. n, j # n  PROVE s[j].id < s[n].id  OBVIOUS
    <3>1. j < n  BY <1>1
    <3> QED  BY <2>1, <2>6, <3>1
  <2>9. ASSUME NEW q \in Requested(s)  PROVE q = r \/ (q.id < r.id /\ q.id \in Nat)
    <3>1. PICK j \in 1 .. n : q = [id |-> s[j].id, set |-> s[j].tabbable]
      BY <1>1 DEF Requested
    <3>2. CASE j = n  BY <3>1, <3>2
    <3>3. CASE j # n
      <4>1. s[j].id < s[n].id /\ s[j].id \in Nat  BY <2>7, <2>8, <3>3
      <4> QED  BY <3>1, <4>1
    <3> QED  BY <3>2, <3>3
  <2>10. r.id \in Nat /\ r.set = s[n].tabbable  BY <2>1, <2>7
  <2> HIDE DEF r
  <2>11. \A q \in Requested(s) : q.id <= r.id  BY <2>9, <2>10
  <2>12. ASSUME NEW q \in Requested(s), \A t \in Requested(s) : t.id <= q.id
         PROVE  q = r
    <3>1. r.id <= q.id  BY <2>5, <2>12
    <3> QED  BY <2>9, <2>10, <3>1
  <2>13. {q \in Requested(s) : \A t \in Requested(s) : t.id <= q.id} = {r}
    BY <2>5, <2>11, <2>12
  <2>14. Promise!Newest(Requested(s)) = {r.set}  BY <2>13 DEF Promise!Newest
  <2> QED  BY <2>4, <2>10, <2>14
<1> QED  BY <1>2, <1>3

LEMMA ReachedNext ==
  ASSUME Inv'
  PROVE  Reached(stack') = Promise!Newest(Requested(stack'))
<1>1. stack' \in Seq(Contexts) /\ DOMAIN stack' = 1 .. Len(stack')
  BY DEF Inv, TypeOK
<1>2. Shape(stack', calls')
  BY <1>1 DEF Inv, TypeOK, Shape
<1>3. calls' \in Nat  BY BoundsAreNatural DEF Inv, TypeOK
<1> QED  BY <1>2, <1>3, NewestOf

\* constrain() is a request of its own.
LEMMA ConstrainRequests ==
  ASSUME Inv, Inv', NEW roots \in SUBSET Elements, NEW trap \in BOOLEAN,
         Constrain(roots, trap)
  PROVE  Promise!Next
<1> DEFINE n == Len(stack)
<1>1. PICK c : Added(c)  BY ConstrainAdds
<1>2. /\ n \in Nat /\ Len(stack') = n + 1
      /\ \A j \in 1 .. n : stack'[j].id = stack[j].id
      /\ \A j \in 1 .. n : stack'[j].tabbable = stack[j].tabbable
      /\ stack'[n + 1].id = calls + 1 /\ stack'[n + 1].tabbable = c.tabbable
  BY <1>1, AddedFields
<1>3. /\ \A j \in 1 .. n : stack'[j].released = stack[j].released
      /\ ~stack'[n + 1].released
  BY <1>1, AddedFields
<1>4. c.tabbable \in SUBSET Elements /\ calls' = calls + 1
  BY <1>1 DEF Added, Contexts, Constrain
<1>5. DOMAIN stack = 1 .. n /\ DOMAIN stack' = 1 .. n + 1
  BY <1>2 DEF Inv, TypeOK
<1> DEFINE r == [id |-> calls + 1, set |-> c.tabbable]
<1> HIDE DEF n
<1>6. \A j : j \in Standing(stack') <=> j \in Standing(stack) \/ j = n + 1
  <2>1. \A j : j \in 1 .. n + 1 <=> j \in 1 .. n \/ j = n + 1  BY <1>2
  <2>2. n + 1 \notin 1 .. n  BY <1>2
  <2> QED  BY <1>3, <1>5, <2>1, <2>2 DEF Standing
<1>7. \A j \in Standing(stack) : Request(stack'[j]) = Request(stack[j])
  BY <1>2, <1>5 DEF Standing, Request
<1>8. Request(stack'[n + 1]) = r  BY <1>2 DEF Request
<1> HIDE DEF r
<1>9. Requested(stack') = Requested(stack) \cup {r}
  <2>1. Requested(stack') = {Request(stack'[j]) : j \in Standing(stack')}
        /\ Requested(stack) = {Request(stack[j]) : j \in Standing(stack)}
    BY DEF Requested, Standing, Request
  <2> QED  BY <1>6, <1>7, <1>8, <2>1
<1>10. Reached(stack') = Promise!Newest(Requested(stack'))  BY ReachedNext
<1>11. Promise!Constrain(c.tabbable)
  BY <1>4, <1>9, <1>10 DEF Promise!Constrain, Requested, Reached, InForce, r
<1> QED  BY <1>4, <1>11 DEF Promise!Next

\* The requests when one context no longer stands.
LEMMA OneLess ==
  ASSUME Inv, NEW i \in Standing(stack),
         Standing(stack') = Standing(stack) \ {i},
         \A j \in Standing(stack') : Request(stack'[j]) = Request(stack[j])
  PROVE  Requested(stack') = Requested(stack) \ {Request(stack[i])}
         /\ Request(stack[i]) \in Requested(stack)
<1>1. Requested(stack') = {Request(stack'[j]) : j \in Standing(stack')}
      /\ Requested(stack) = {Request(stack[j]) : j \in Standing(stack)}
  BY DEF Requested, Standing, Request
<1>2. ASSUME NEW j \in Standing(stack), j # i
      PROVE  Request(stack[j]) # Request(stack[i])
  <2>1. i \in 1 .. Len(stack) /\ j \in 1 .. Len(stack)
    BY StackShape DEF Standing, Inv
  <2>2. /\ stack[i].id \in i .. calls /\ stack[j].id \in j .. calls
        /\ i < j => stack[i].id < stack[j].id
        /\ j < i => stack[j].id < stack[i].id
    BY <2>1, StackShape DEF Inv, TypeOK
  <2>3. calls \in Nat  BY StackShape DEF Inv
  <2>4. stack[i].id # stack[j].id  BY <1>2, <2>1, <2>2, <2>3
  <2> QED  BY <2>4 DEF Request
<1> QED  BY <1>1, <1>2

\* release() of a context that was not released ends its request.
LEMMA ReleaseRequests ==
  ASSUME Inv, Inv', NEW i \in DOMAIN stack, Release(i)
  PROVE  Promise!Next
<1> DEFINE n == Len(stack)
<1>1. i \in 1 .. n /\ n \in Nat /\ DOMAIN stack = 1 .. n
  <2>1. Len(stack) \in 0 .. calls /\ calls \in Nat /\ DOMAIN stack = 1 .. Len(stack)
    BY StackShape DEF Inv
  <2> QED  BY <2>1
<1>2. ~stack[i].released /\ calls' = calls  BY DEF Release
<1>3. i \in Standing(stack)  BY <1>2 DEF Standing
<1>4. stack' \in Seq(Contexts) /\ DOMAIN stack' = 1 .. Len(stack')
  BY DEF Inv, TypeOK
<1>5. /\ Standing(stack') = Standing(stack) \ {i}
      /\ \A j \in Standing(stack') : Request(stack'[j]) = Request(stack[j])
  <2>1. CASE Buried(i)
    <3>1. /\ Len(stack') = n
          /\ \A j \in 1 .. n : stack'[j].id = stack[j].id
          /\ \A j \in 1 .. n : stack'[j].tabbable = stack[j].tabbable
      BY <1>1, <2>1, BuriedFields
    <3>2. /\ \A j \in 1 .. n : j # i => stack'[j] = stack[j]
          /\ stack'[i].released
      BY <1>1, <2>1, BuriedFields
    <3>3. DOMAIN stack' = 1 .. n  BY <1>4, <3>1
    <3> HIDE DEF n
    <3>4. \A j : j \in Standing(stack') <=> j \in Standing(stack) /\ j # i
      BY <1>1, <3>2, <3>3 DEF Standing
    <3> QED  BY <1>1, <3>1, <3>3, <3>4 DEF Standing, Request
  <2>2. CASE Emptied(i)
    <3>1. /\ i = n /\ stack' = <<>>
          /\ \A j \in 1 .. i : j < i => stack[j].released
      BY <2>2 DEF Emptied
    <3>2. Standing(stack') = {}  BY <3>1 DEF Standing
    <3> HIDE DEF n
    <3>3. \A j \in 1 .. n : j # i => j \in 1 .. i /\ j < i  BY <1>1, <3>1
    <3>4. \A j \in Standing(stack) : j = i  BY <1>1, <3>1, <3>3 DEF Standing
    <3> QED  BY <3>2, <3>4
  <2>3. ASSUME NEW k \in 1 .. n, Surfaced(i, k)
        PROVE  /\ Standing(stack') = Standing(stack) \ {i}
               /\ \A j \in Standing(stack') : Request(stack'[j]) = Request(stack[j])
    <3>1. /\ k \in 1 .. n /\ k # n /\ Len(stack') = k /\ i = n
          /\ \A j \in 1 .. k : stack'[j].id = stack[j].id
          /\ \A j \in 1 .. k : stack'[j].tabbable = stack[j].tabbable
      BY <1>1, <2>3, SurfacedFields
    <3>2. /\ \A j \in 1 .. k : j # k => stack'[j] = stack[j]
          /\ ~stack'[k].released
      BY <1>1, <2>3, SurfacedFields
    <3>3. /\ ~stack[k].released
          /\ \A j \in 1 .. i : k < j /\ j < i => stack[j].released
      BY <2>3 DEF Surfaced
    <3>4. DOMAIN stack' = 1 .. k  BY <1>4, <3>1
    <3> HIDE DEF n
    <3>5. \A j \in 1 .. k : j \in 1 .. n /\ j # i  BY <1>1, <3>1
    <3>6. \A j \in 1 .. n : j \in 1 .. k \/ j = i \/ (j \in 1 .. i /\ k < j /\ j < i)
      BY <1>1, <3>1
    <3>7. ASSUME NEW j
          PROVE  j \in Standing(stack') <=> j \in Standing(stack) /\ j # i
      <4>1. CASE j \in 1 .. k
        <5>1. CASE j = k  BY <1>1, <3>2, <3>3, <3>4, <3>5, <4>1, <5>1 DEF Standing
        <5>2. CASE j # k
          BY <1>1, <3>2, <3>4, <3>5, <4>1, <5>2 DEF Standing
        <5> QED  BY <5>1, <5>2
      <4>2. CASE j \notin 1 .. k
        <5>1. j \notin Standing(stack')  BY <3>4, <4>2 DEF Standing
        <5>2. ASSUME j \in Standing(stack), j # i  PROVE FALSE
          <6>1. j \in 1 .. n /\ ~stack[j].released  BY <1>1, <5>2 DEF Standing
          <6>2. j \in 1 .. i /\ k < j /\ j < i  BY <3>6, <4>2, <5>2, <6>1
          <6> QED  BY <3>3, <6>1, <6>2
        <5> QED  BY <5>1, <5>2
      <4> QED  BY <4>1, <4>2
    <3>8. \A j \in Standing(stack') : j \in 1 .. k  BY <3>4 DEF Standing
    <3> QED  BY <3>1, <3>7, <3>8 DEF Request
  <2> QED  BY <2>1, <2>2, <2>3, ReleaseSteps
<1>6. /\ Requested(stack') = Requested(stack) \ {Request(stack[i])}
      /\ Request(stack[i]) \in Requested(stack)
  BY <1>3, <1>5, OneLess
<1>7. Reached(stack') = Promise!Newest(Requested(stack'))  BY ReachedNext
<1>8. PICK r \in Requested(stack) : Requested(stack') = Requested(stack) \ {r}
  BY <1>6
<1>9. Promise!Release(r)
  BY <1>2, <1>7, <1>8 DEF Promise!Release, Requested, Reached, InForce
<1> QED  BY <1>9 DEF Promise!Next, Requested

\* The newest request that was not released is the one in force, in whatever
\* order requests are released: for any document, and however many there are.
THEOREM PromiseIsKept == Spec => ImplementsPromise
<1>1. Init => Promise!Init
  BY DEF Init, Promise!Init, InForce
<1>2. Inv /\ Inv' /\ [Next]_vars => [Promise!Next]_(Promise!vars)
  <2> SUFFICES ASSUME Inv, Inv', [Next]_vars  PROVE [Promise!Next]_(Promise!vars)
    OBVIOUS
  <2>1. ASSUME NEW roots \in SUBSET Elements, NEW trap \in BOOLEAN,
               Constrain(roots, trap)
        PROVE  Promise!Next
    BY <2>1, ConstrainRequests
  <2>2. ASSUME NEW i \in DOMAIN stack, Release(i)  PROVE Promise!Next
    BY <2>2, ReleaseRequests
  <2>3. ASSUME NEW e \in Elements, Toggle(e)  PROVE UNCHANGED Promise!vars
    BY <2>3 DEF Toggle, Promise!vars, InForce
  <2>4. ASSUME NEW e \in Elements, NEW v \in Indices, SetIndex(e, v)
        PROVE  UNCHANGED Promise!vars
    BY <2>4 DEF SetIndex, Promise!vars, InForce
  <2>5. CASE UNCHANGED vars  BY <2>5 DEF vars, Promise!vars, InForce
  <2> QED  BY <2>1, <2>2, <2>3, <2>4, <2>5 DEF Next
<1> QED  BY <1>1, <1>2, Invariance, PTL DEF Spec, ImplementsPromise, Promise!Spec
=============================================================================
