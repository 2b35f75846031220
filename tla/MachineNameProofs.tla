-------------------------- MODULE MachineNameProofs --------------------------
(* For any labels and forms: a derived name never gives way to one of an     *)
(* older text, and a name that the user gave is kept. Both rest on what is   *)
(* under way being at most one timer or one request, no older than the name  *)
(* that is shown, and never for a name that can be edited.                   *)
EXTENDS MachineName, TLAPS, FiniteSetTheorems, FunctionTheorems

\* The places of t come from places of s outside of S, each from its own.
From(t, s, S) ==
  \E k \in [DOMAIN t -> DOMAIN s \ S] :
    /\ \A i \in DOMAIN t : t[i] = s[k[i]]
    /\ \A i, j \in DOMAIN t : k[i] = k[j] => i = j

\* The members of a finite set have different numbers of members below them,
\* and so one has each number.
LEMMA OrderedPlaces ==
  ASSUME NEW N \in SUBSET Nat, IsFiniteSet(N), NEW i \in 1 .. Cardinality(N)
  PROVE  /\ Ordered(N)[i] \in N
         /\ Cardinality({y \in N : y < Ordered(N)[i]}) = i - 1
<1> DEFINE n == Cardinality(N)
           Below(x) == {y \in N : y < x}
           T == 0 .. (n - 1)
           f == [x \in N |-> Cardinality(Below(x))]
<1>1. n \in Nat  BY FS_CardinalityType
<1>2. ASSUME NEW x \in N
      PROVE  IsFiniteSet(Below(x)) /\ Cardinality(Below(x)) \in T
  <2>1. Below(x) \in SUBSET (N \ {x})  OBVIOUS
  <2>2. IsFiniteSet(N \ {x}) /\ Cardinality(N \ {x}) = n - 1
    BY FS_RemoveElement
  <2>3. IsFiniteSet(Below(x)) /\ Cardinality(Below(x)) <= n - 1
    BY <2>1, <2>2, FS_Subset
  <2>4. Cardinality(Below(x)) \in Nat  BY <2>3, FS_CardinalityType
  <2> HIDE DEF n, Below
  <2> QED  BY <1>1, <2>3, <2>4
<1>3. ASSUME NEW x \in N, NEW y \in N, x < y
      PROVE  Cardinality(Below(x)) < Cardinality(Below(y))
  <2>1. Below(x) \in SUBSET (Below(y) \ {x})
    <3>1. \A z \in N : z < x => z < y /\ z # x
      <4> SUFFICES ASSUME NEW z \in N, z < x  PROVE z < y /\ z # x  OBVIOUS
      <4>1. z \in Nat /\ x \in Nat /\ y \in Nat  OBVIOUS
      <4> QED  BY <1>3, <4>1
    <3> QED  BY <3>1
  <2>2. x \in Below(y)  BY <1>3
  <2>3. /\ IsFiniteSet(Below(y) \ {x})
        /\ Cardinality(Below(y) \ {x}) = Cardinality(Below(y)) - 1
    BY <1>2, <2>2, FS_RemoveElement
  <2>4. Cardinality(Below(x)) <= Cardinality(Below(y)) - 1
    BY <2>1, <2>3, FS_Subset
  <2>5. Cardinality(Below(x)) \in Int /\ Cardinality(Below(y)) \in Int
    BY <1>1, <1>2
  <2> HIDE DEF Below
  <2> QED  BY <2>4, <2>5
<1>4. f \in Injection(N, T)
  <2>1. f \in [N -> T]  BY <1>2
  <2>2. ASSUME NEW x \in N, NEW y \in N, f[x] = f[y]  PROVE x = y
    <3>1. Cardinality(Below(x)) = Cardinality(Below(y))  BY <2>2
    <3>2. Cardinality(Below(x)) \in Int /\ Cardinality(Below(y)) \in Int
      BY <1>1, <1>2
    <3>3. x \in Nat /\ y \in Nat  OBVIOUS
    <3> HIDE DEF Below
    <3>4. ~(x < y)  BY <1>3, <3>1, <3>2
    <3>5. ~(y < x)  BY <1>3, <3>1, <3>2
    <3> QED  BY <3>3, <3>4, <3>5
  <2> QED  BY <2>1, <2>2 DEF Injection, IsInjective
<1>5. IsFiniteSet(T) /\ Cardinality(T) = n
  <2> HIDE DEF n
  <2>1. n - 1 \in Int /\ 0 \in Int  BY <1>1
  <2>2. /\ IsFiniteSet(0 .. (n - 1))
        /\ Cardinality(0 .. (n - 1)) = IF 0 > n - 1 THEN 0 ELSE (n - 1) - 0 + 1
    BY <2>1, FS_Interval
  <2>3. (IF 0 > n - 1 THEN 0 ELSE (n - 1) - 0 + 1) = n  BY <1>1
  <2> QED  BY <2>2, <2>3
<1>6. f \in Surjection(N, T)
  BY <1>4, <1>5, FS_Injection
<1>7. i - 1 \in T
  <2> HIDE DEF n
  <2> QED  BY <1>1 DEF n
<1>8. PICK x \in N : f[x] = i - 1
  BY <1>6, <1>7 DEF Surjection
<1>9. \E y \in N : Cardinality({z \in N : z < y}) = i - 1
  BY <1>8
<1> QED  BY <1>9 DEF Ordered

LEMMA ButFrom ==
  ASSUME NEW X, NEW s \in Seq(X), NEW S
  PROVE  But(s, S) \in Seq(X) /\ From(But(s, S), s, S)
<1> DEFINE N == DOMAIN s \ S
           rest == Ordered(N)
           n == Cardinality(N)
<1>1. DOMAIN s = 1 .. Len(s) /\ Len(s) \in Nat  OBVIOUS
<1>2. N \in SUBSET Nat /\ IsFiniteSet(N)
  <2>1. IsFiniteSet(1 .. Len(s))  BY <1>1, FS_Interval
  <2>2. N \in SUBSET (1 .. Len(s))  BY <1>1
  <2>3. 1 .. Len(s) \subseteq Nat  OBVIOUS
  <2> QED  BY <2>1, <2>2, <2>3, FS_Subset
<1>3. n \in Nat  BY <1>2, FS_CardinalityType
<1>4. DOMAIN rest = 1 .. n  BY DEF Ordered
<1>5. But(s, S) = [i \in 1 .. n |-> s[rest[i]]]
  BY <1>4 DEF But
<1>6. \A i \in 1 .. n : /\ rest[i] \in N
                       /\ Cardinality({y \in N : y < rest[i]}) = i - 1
  BY <1>2, OrderedPlaces
<1> HIDE DEF n, rest
<1>7. \A i \in 1 .. n : s[rest[i]] \in X
  <2>1. \A j \in DOMAIN s : s[j] \in X  OBVIOUS
  <2>2. \A i \in 1 .. n : rest[i] \in DOMAIN s  BY <1>6
  <2> QED  BY <2>1, <2>2
<1>8. But(s, S) \in Seq(X)
  BY <1>3, <1>5, <1>7
<1>9. \A i, j \in 1 .. n : rest[i] = rest[j] => i = j
  <2> SUFFICES ASSUME NEW i \in 1 .. n, NEW j \in 1 .. n, rest[i] = rest[j]
               PROVE  i = j
    OBVIOUS
  <2>1. i - 1 = j - 1  BY <1>6
  <2> QED  BY <1>3, <2>1
<1>10. From(But(s, S), s, S)
  <2>1. DOMAIN But(s, S) = 1 .. n  BY <1>5
  <2> DEFINE k == [i \in 1 .. n |-> rest[i]]
  <2>2. k \in [1 .. n -> N]  BY <1>6
  <2>3. \A i \in 1 .. n : But(s, S)[i] = s[k[i]]  BY <1>5
  <2>4. \A i, j \in 1 .. n : k[i] = k[j] => i = j  BY <1>9
  <2> HIDE DEF k
  <2> QED  BY <2>1, <2>2, <2>3, <2>4 DEF From
<1> QED  BY <1>8, <1>10

\* The same, except that one place of t, the one k maps to 0, has x.
FromOr(t, s, S, x) ==
  \E k \in [DOMAIN t -> DOMAIN s \cup {0}] :
    /\ \A i \in DOMAIN t : k[i] = 0 => t[i] = x
    /\ \A i \in DOMAIN t : k[i] # 0 => k[i] \notin S /\ t[i] = s[k[i]]
    /\ \A i, j \in DOMAIN t : k[i] = k[j] => i = j

LEMMA AppendFrom ==
  ASSUME NEW X, NEW s \in Seq(X), NEW S, NEW x \in X
  PROVE  /\ Append(But(s, S), x) \in Seq(X)
         /\ FromOr(Append(But(s, S), x), s, S, x)
<1> DEFINE u == But(s, S)
           n == Len(u)
           t == Append(u, x)
<1>1. u \in Seq(X) /\ From(u, s, S)  BY ButFrom
<1> HIDE DEF u
<1>2. /\ n \in Nat /\ DOMAIN u = 1 .. n /\ t \in Seq(X) /\ DOMAIN t = 1 .. n + 1
      /\ t[n + 1] = x /\ \A i \in 1 .. n : t[i] = u[i]
  BY <1>1
<1>3. PICK k \in [1 .. n -> DOMAIN s \ S] :
        /\ \A i \in 1 .. n : u[i] = s[k[i]]
        /\ \A i, j \in 1 .. n : k[i] = k[j] => i = j
  BY <1>1, <1>2 DEF From
<1> HIDE DEF n, t
<1>4. \A i \in 1 .. n + 1 : i # n + 1 => i \in 1 .. n  BY <1>2
<1>5. \A i \in 1 .. n : k[i] # 0
  <2>1. \A j \in DOMAIN s : j # 0  OBVIOUS
  <2> QED  BY <2>1
<1> DEFINE l == [i \in 1 .. n + 1 |-> IF i = n + 1 THEN 0 ELSE k[i]]
<1>6. l \in [1 .. n + 1 -> DOMAIN s \cup {0}]  BY <1>4
<1>7. /\ \A i \in 1 .. n + 1 : l[i] = 0 => i = n + 1
      /\ \A i \in 1 .. n + 1 : l[i] # 0 => i \in 1 .. n /\ l[i] = k[i]
  BY <1>4, <1>5
<1> HIDE DEF l
<1>8. FromOr(t, s, S, x)
  BY <1>2, <1>3, <1>6, <1>7 DEF FromOr
<1> QED  BY <1>2, <1>8 DEF t, u

-----------------------------------------------------------------------------
(* The invariant.                                                            *)

Requests == [f : Sources, text : Texts, initial : BOOLEAN, xhr : BOOLEAN]

\* The requests to come, and those that were sent.
Waiting == {timers[i] : i \in NameTimer}
Sent == {out[i] : i \in DOMAIN out}

Types ==
  /\ label \in [Sources -> Texts] /\ name \in [Sources -> Names]
  /\ on \subseteq Sources /\ link \subseteq Sources /\ edit \subseteq Sources
  /\ focus \in Sources \cup {None} /\ dirty \in BOOLEAN
  /\ dirty => focus \in Sources
  /\ timers \in Seq(Timers) /\ out \in Seq(Requests)
  /\ \A t \in Waiting : t.f \in Sources
  /\ edits \in 0 .. MaxEdits /\ failures \in 0 .. MaxFailures
  /\ typed \in [Sources -> Names]
  /\ robbed \subseteq Sources /\ failed \subseteq Sources
  /\ overtaken \subseteq Sources /\ exposed \subseteq Sources

\* One event per form, one timer and one request, but for the first ones.
TimersSingle ==
  /\ \A F \in Forms : \A i, j \in DebounceOf(F) : i = j
  /\ \A i, j \in NameTimer : i = j
OutSingle == \A i, j \in DOMAIN out : ~out[i].initial /\ ~out[j].initial => i = j

\* The first requests have no xhr and name the first text, 0; the later one
\* has it, and is sent when no timer is left.
XhrInv ==
  /\ \A r \in Sent : \/ r.initial = TRUE /\ r.xhr = FALSE /\ r.text.n = 0
                     \/ r.initial = FALSE /\ r.xhr = TRUE
  /\ \A t \in Waiting, r \in Sent : r.initial = TRUE

\* A name that can be edited: its label is not listened to, and nothing is
\* under way for it that was not when the user turned to the name.
EditInv ==
  /\ \A f \in edit \ exposed : /\ \A t \in Waiting : t.f # f
                               /\ \A r \in Sent : r.f # f
  /\ edit \cap on = {}
  /\ \A f \in Sources : typed[f] # None => f \in edit

\* What is under way is no older than the name that is shown and no newer than
\* the label.
Between(x) ==
  /\ label[x.f].kind # "empty" => x.text.n <= label[x.f].n
  /\ name[x.f] \notin {None, typed[x.f]} => name[x.f] <= x.text.n

TextInv ==
  /\ \A f \in Sources : label[f].n <= edits /\ (name[f] # None => name[f] <= edits)
  /\ \A x \in Waiting : x.text.n <= edits /\ Between(x)
  /\ \A x \in Sent : x.initial = FALSE => x.text.n <= edits /\ Between(x)
  /\ \A f \in on : label[f].kind # "empty" /\ name[f] # None => name[f] <= label[f].n

Inv == Types /\ TimersSingle /\ OutSingle /\ XhrInv /\ EditInv /\ TextInv

LEMMA KindTypes ==
  /\ Nameless \in Texts /\ 0 \in 0 .. MaxEdits /\ MaxEdits \in Nat
  /\ None \in Names /\ 0 \in Names /\ 0 .. MaxEdits \subseteq Names
<1>1. MaxEdits \in Nat  BY Bounds
<1> QED  BY <1>1 DEF Nameless, Texts, Kinds, Names

LEMMA TransliterateType ==
  ASSUME NEW f \in Sources, NEW text \in Texts
  PROVE  /\ Transliterate(f, text) \in Timers
         /\ Transliterate(f, text).what = "transliterate"
         /\ Transliterate(f, text).f = f /\ Transliterate(f, text).text = text
  BY EveryLabelInAForm DEF Transliterate, Timers

LEMMA RequestType ==
  ASSUME NEW f \in Sources, NEW text \in Texts, NEW initial \in BOOLEAN
  PROVE  /\ Request(f, text, initial) \in Requests
         /\ Request(f, text, initial).f = f
         /\ Request(f, text, initial).text = text
         /\ Request(f, text, initial).initial = initial
         /\ initial = TRUE => Request(f, text, initial).xhr = FALSE
         /\ initial = FALSE => Request(f, text, initial).xhr = TRUE
  BY DEF Request, Requests

LEMMA InitInv == Init => Inv
<1> SUFFICES ASSUME Init  PROVE Inv  OBVIOUS
<1>1. PICK names \in [Sources -> {None, 0}], wrong \in SUBSET Sources :
        LET a == Attached(label, names, wrong) IN
        /\ name = a.name /\ on = a.on /\ link = a.link /\ edit = a.edit
        /\ timers = a.timers /\ out = a.out
  BY DEF Init
<1> DEFINE fresh == {f \in Sources \ wrong : names[f] = None}
           N == {f \in fresh : label[f].kind # "empty"}
           asked == Ordered(N)
           last == {f \in fresh : Hard(label[f]) /\ \A g \in fresh : g <= f}
<1>2. /\ name = [f \in Sources |-> IF f \in fresh /\ ~Hard(label[f])
                                    THEN NameOf(label[f]) ELSE names[f]]
      /\ on = fresh /\ edit = wrong
      /\ link = {f \in Sources \ wrong : f \in fresh => label[f].kind # "empty"}
      /\ timers = [i \in 1 .. Cardinality(last) |->
                    LET f == CHOOSE f \in last : TRUE IN Transliterate(f, label[f])]
      /\ out = [i \in DOMAIN asked |-> Request(asked[i], label[asked[i]], TRUE)]
  BY <1>1 DEF Attached
<1>3. /\ label \in [Sources -> [n : {0}, kind : FirstKinds]]
      /\ focus = None /\ dirty = FALSE /\ edits = 0 /\ failures = 0
      /\ typed = [f \in Sources |-> None]
      /\ robbed = {} /\ failed = {} /\ overtaken = {} /\ exposed = {}
  BY DEF Init
<1>4. label \in [Sources -> Texts] /\ \A f \in Sources : label[f].n = 0
  BY <1>3, KindTypes, KindsKnown DEF Texts
<1>5. \A f \in Sources : name[f] \in {None, 0}
  BY <1>2, <1>4 DEF NameOf
<1>6. N \subseteq Sources /\ N \subseteq Nat /\ IsFiniteSet(N)
      /\ last \subseteq Sources /\ fresh \subseteq Sources
      /\ fresh \cap wrong = {} /\ N \subseteq fresh /\ last \subseteq fresh
  BY SourcesNumbered, FS_Subset
<1>7. \A f, g \in last : f = g
  <2> SUFFICES ASSUME NEW f \in last, NEW g \in last  PROVE f = g  OBVIOUS
  <2>1. f <= g /\ g <= f  OBVIOUS
  <2>2. f \in Nat /\ g \in Nat  BY <1>6, SourcesNumbered
  <2> QED  BY <2>1, <2>2
<1>8. Cardinality(last) \in {0, 1} /\ (Cardinality(last) = 1 => last # {})
  <2>1. CASE last = {}  BY <2>1, FS_EmptySet
  <2>2. CASE last # {}
    <3>1. PICK f : f \in last  BY <2>2
    <3>2. last = {f}  BY <1>7, <3>1
    <3> HIDE DEF last
    <3> QED  BY <2>2, <3>2, FS_Singleton
  <2> QED  BY <2>1, <2>2
<1>9. /\ timers \in Seq(Timers) /\ DOMAIN timers \subseteq {1}
      /\ \A i \in DOMAIN timers :
           \E f \in last : timers[i] = Transliterate(f, label[f])
  <2> DEFINE c == Cardinality(last)
             x == CHOOSE f \in last : TRUE
  <2>1. timers = [i \in 1 .. c |-> Transliterate(x, label[x])]  BY <1>2
  <2>2. c \in {0, 1} /\ (c = 1 => x \in last)  BY <1>8
  <2> HIDE DEF c, x
  <2>3. 1 .. c = IF c = 1 THEN {1} ELSE {}
    <3>1. CASE c = 0
      <4>1. 1 .. 0 = {}  OBVIOUS
      <4> QED  BY <3>1, <4>1
    <3>2. CASE c = 1
      <4>1. 1 .. 1 = {1}  OBVIOUS
      <4> QED  BY <3>2, <4>1
    <3> QED  BY <2>2, <3>1, <3>2
  <2>4. x \in last => Transliterate(x, label[x]) \in Timers
    BY <1>4, <1>6, TransliterateType
  <2>5. \A i \in 1 .. c : c = 1  BY <2>2, <2>3
  <2>6. c \in Nat  BY <2>2
  <2> HIDE DEF last
  <2>7. timers \in Seq(Timers)  BY <2>1, <2>2, <2>4, <2>5, <2>6
  <2>8. DOMAIN timers \subseteq {1}  BY <2>1, <2>3
  <2> QED  BY <2>1, <2>2, <2>5, <2>7, <2>8
<1>10. /\ out \in Seq(Requests)
       /\ \A i \in DOMAIN out : \E f \in N : out[i] = Request(f, label[f], TRUE)
  <2> DEFINE n == Cardinality(N)
  <2>1. DOMAIN asked = 1 .. n  BY DEF Ordered
  <2>2. out = [i \in 1 .. n |-> Request(asked[i], label[asked[i]], TRUE)]
    BY <1>2, <2>1
  <2>3. \A i \in 1 .. n : asked[i] \in N  BY <1>6, OrderedPlaces
  <2>4. n \in Nat  BY <1>6, FS_CardinalityType
  <2>5. \A f \in N : Request(f, label[f], TRUE) \in Requests
    BY <1>4, <1>6, RequestType
  <2> HIDE DEF n, asked, N
  <2>6. \A i \in 1 .. n : Request(asked[i], label[asked[i]], TRUE) \in Requests
    BY <2>3, <2>5
  <2> DEFINE r(i) == Request(asked[i], label[asked[i]], TRUE)
  <2>7. out \in Seq(Requests)
    <3>1. out = [i \in 1 .. n |-> r(i)]  BY <2>2
    <3>2. \A i \in 1 .. n : r(i) \in Requests  BY <2>6
    <3> HIDE DEF r
    <3> QED  BY <2>4, <3>1, <3>2
  <2> QED  BY <2>2, <2>3, <2>7
<1>11. \A t \in Waiting : \E f \in last : t = Transliterate(f, label[f])
  BY <1>9 DEF Waiting, NameTimer
<1>12. \A r \in Sent : \E f \in N : r = Request(f, label[f], TRUE)
  BY <1>10 DEF Sent
<1> HIDE DEF N, last, fresh
<1>13. \A t \in Waiting : t.f \in last /\ t.f \in Sources /\ t.text.n = 0
  BY <1>4, <1>6, <1>11, TransliterateType
<1>14. \A r \in Sent : /\ r.f \in N /\ r.f \in Sources /\ r.text.n = 0
                       /\ r.initial = TRUE /\ r.xhr = FALSE
  <2> SUFFICES ASSUME NEW r \in Sent
               PROVE  /\ r.f \in N /\ r.f \in Sources /\ r.text.n = 0
                      /\ r.initial = TRUE /\ r.xhr = FALSE
    OBVIOUS
  <2>1. PICK f \in N : r = Request(f, label[f], TRUE)  BY <1>12
  <2>2. f \in Sources  BY <1>6
  <2>3. label[f] \in Texts /\ label[f].n = 0  BY <1>4, <2>2
  <2>4. r.f = f /\ r.text = label[f] /\ r.initial = TRUE /\ r.xhr = FALSE
    BY <2>1, <2>2, <2>3, RequestType
  <2> QED  BY <2>1, <2>2, <2>3, <2>4
<1>15. Types
  <2>1. name \in [Sources -> Names]  BY <1>2, <1>5, KindTypes
  <2>2. on \subseteq Sources /\ link \subseteq Sources /\ edit \subseteq Sources
    BY <1>2, <1>6
  <2>3. failures \in 0 .. MaxFailures  BY <1>3, Bounds
  <2>4. typed \in [Sources -> Names]  BY <1>3, KindTypes
  <2> QED  BY <1>3, <1>4, <1>9, <1>10, <1>13, <2>1, <2>2, <2>3, <2>4, KindTypes
           DEF Types
<1>16. TimersSingle  BY <1>9 DEF TimersSingle, DebounceOf, NameTimer
<1>17. OutSingle  BY <1>14 DEF OutSingle, Sent
<1>18. XhrInv  BY <1>14 DEF XhrInv
<1>19. EditInv  BY <1>2, <1>3, <1>6, <1>13, <1>14 DEF EditInv
<1>20. TextInv
  <2>1. \A f \in Sources : label[f].n <= edits /\ (name[f] # None => name[f] <= edits)
    BY <1>3, <1>4, <1>5
  <2>2. \A x \in Waiting : x.text.n <= edits /\ Between(x)
    BY <1>3, <1>4, <1>5, <1>13 DEF Between
  <2>3. \A x \in Sent : x.initial = FALSE => x.text.n <= edits /\ Between(x)
    BY <1>14
  <2>4. \A f \in on : label[f].kind # "empty" /\ name[f] # None => name[f] <= label[f].n
    BY <1>2, <1>4, <1>5, <1>6
  <2> QED  BY <2>1, <2>2, <2>3, <2>4 DEF TextInv
<1> QED  BY <1>15, <1>16, <1>17, <1>18, <1>19, <1>20 DEF Inv

-----------------------------------------------------------------------------
(* What a step does to the timers and to the requests.                       *)

LEMMA TypeFacts ==
  ASSUME Types
  PROVE  /\ \A f \in Sources : /\ label[f] \in Texts /\ label[f].n \in Int
                               /\ 0 <= label[f].n /\ label[f].n <= MaxEdits
                               /\ label[f].kind \in Kinds
                               /\ name[f] # None => /\ name[f] \in Int
                                                    /\ 0 <= name[f]
         /\ \A x \in Waiting \cup Sent : /\ x.f \in Sources /\ x.text \in Texts
                                         /\ x.text.n \in Int /\ 0 <= x.text.n
         /\ \A x \in Waiting : x \in Timers
         /\ \A x \in Sent : x \in Requests
         /\ edits \in Int /\ 0 <= edits /\ edits <= MaxEdits /\ MaxEdits \in Int
<1>1. MaxEdits \in Nat /\ MaxFailures \in Nat  BY Bounds
<1>2. \A text \in Texts : /\ text.n \in Int /\ 0 <= text.n /\ text.n <= MaxEdits
                          /\ text.kind \in Kinds
  BY <1>1 DEF Texts
<1>3. \A m \in Names : m # None => m \in Int /\ 0 <= m
  BY <1>1 DEF Names
<1>4. \A f \in Sources : label[f] \in Texts /\ name[f] \in Names
  BY DEF Types
<1>5. \A x \in Waiting : x \in Timers
  <2>1. \A i \in DOMAIN timers : timers[i] \in Timers  BY DEF Types
  <2> QED  BY <2>1 DEF Waiting, NameTimer
<1>6. \A x \in Sent : x \in Requests
  <2>1. \A i \in DOMAIN out : out[i] \in Requests  BY DEF Types
  <2> QED  BY <2>1 DEF Sent
<1>7. \A x \in Waiting \cup Sent : x.f \in Sources /\ x.text \in Texts
  BY <1>5, <1>6 DEF Types, Timers, Requests
<1>8. edits \in Int /\ 0 <= edits /\ edits <= MaxEdits
  BY <1>1 DEF Types
<1> QED  BY <1>1, <1>2, <1>3, <1>4, <1>5, <1>6, <1>7, <1>8

\* A timer is started and those in S are cleared: all of its own kind are.
LEMMA TimerStarts ==
  ASSUME TimersSingle, NEW S, NEW x, FromOr(timers', timers, S, x),
         x.what = "formUpdated" => DebounceOf(x.form) \subseteq S,
         x.what = "transliterate" => NameTimer \subseteq S
  PROVE  /\ TimersSingle'
         /\ x.what = "formUpdated" => Waiting' \subseteq Waiting
         /\ x.what = "transliterate" => Waiting' \subseteq {x}
<1>1. PICK k \in [DOMAIN timers' -> DOMAIN timers \cup {0}] :
        /\ \A i \in DOMAIN timers' : k[i] = 0 => timers'[i] = x
        /\ \A i \in DOMAIN timers' : k[i] # 0 => /\ k[i] \notin S
                                                 /\ timers'[i] = timers[k[i]]
        /\ \A i, j \in DOMAIN timers' : k[i] = k[j] => i = j
  BY DEF FromOr
<1>2. \A i \in DOMAIN timers' : k[i] # 0 => k[i] \in DOMAIN timers
  OBVIOUS
<1>3. ASSUME NEW F \in Forms, NEW i \in DebounceOf(F)', NEW j \in DebounceOf(F)'
      PROVE  i = j
  <2>1. /\ i \in DOMAIN timers' /\ timers'[i].what = "formUpdated"
        /\ timers'[i].form = F
        /\ j \in DOMAIN timers' /\ timers'[j].what = "formUpdated"
        /\ timers'[j].form = F
    BY DEF DebounceOf
  <2>2. ASSUME NEW m \in {i, j}, k[m] # 0
        PROVE  k[m] \in DebounceOf(F) \ S
    BY <1>1, <1>2, <2>1, <2>2 DEF DebounceOf
  <2>3. ASSUME NEW m \in {i, j}, k[m] = 0
        PROVE  DebounceOf(F) \subseteq S
    BY <1>1, <2>1, <2>3
  <2>4. k[i] = k[j]
    BY <2>2, <2>3 DEF TimersSingle
  <2> QED  BY <1>1, <2>1, <2>4
<1>4. ASSUME NEW i \in NameTimer', NEW j \in NameTimer'
      PROVE  i = j
  <2>1. /\ i \in DOMAIN timers' /\ timers'[i].what = "transliterate"
        /\ j \in DOMAIN timers' /\ timers'[j].what = "transliterate"
    BY DEF NameTimer
  <2>2. ASSUME NEW m \in {i, j}, k[m] # 0
        PROVE  k[m] \in NameTimer \ S
    BY <1>1, <1>2, <2>1, <2>2 DEF NameTimer
  <2>3. ASSUME NEW m \in {i, j}, k[m] = 0
        PROVE  NameTimer \subseteq S
    BY <1>1, <2>1, <2>3
  <2>4. k[i] = k[j]
    BY <2>2, <2>3 DEF TimersSingle
  <2> QED  BY <1>1, <2>1, <2>4
<1>5. ASSUME NEW t \in Waiting'
      PROVE  \/ t = x /\ x.what = "transliterate"
             \/ t \in Waiting /\ ~(NameTimer \subseteq S)
  <2>1. PICK i \in NameTimer' : t = timers'[i]  BY DEF Waiting
  <2>2. i \in DOMAIN timers' /\ t.what = "transliterate"
    BY <2>1 DEF NameTimer
  <2>3. CASE k[i] = 0  BY <1>1, <2>1, <2>2, <2>3
  <2>4. CASE k[i] # 0
    <3>1. k[i] \in NameTimer \ S /\ t = timers[k[i]]
      BY <1>1, <1>2, <2>1, <2>2, <2>4 DEF NameTimer
    <3> QED  BY <3>1 DEF Waiting
  <2> QED  BY <2>3, <2>4
<1>6. TimersSingle'  BY <1>3, <1>4 DEF TimersSingle
<1> QED  BY <1>5, <1>6

\* No timer is started.
LEMMA TimersEnd ==
  ASSUME TimersSingle, NEW S, From(timers', timers, S)
  PROVE  /\ TimersSingle'
         /\ Waiting' \subseteq Waiting
         /\ NameTimer \subseteq S => Waiting' = {}
<1>1. PICK k \in [DOMAIN timers' -> DOMAIN timers \ S] :
        /\ \A i \in DOMAIN timers' : timers'[i] = timers[k[i]]
        /\ \A i, j \in DOMAIN timers' : k[i] = k[j] => i = j
  BY DEF From
<1>2. \A i \in DOMAIN timers' : k[i] \in DOMAIN timers /\ k[i] \notin S
  OBVIOUS
<1>3. ASSUME NEW F \in Forms, NEW i \in DebounceOf(F)', NEW j \in DebounceOf(F)'
      PROVE  i = j
  <2>1. /\ i \in DOMAIN timers' /\ k[i] \in DebounceOf(F)
        /\ j \in DOMAIN timers' /\ k[j] \in DebounceOf(F)
    BY <1>1, <1>2 DEF DebounceOf
  <2> QED  BY <1>1, <2>1 DEF TimersSingle
<1>4. ASSUME NEW i \in NameTimer'
      PROVE  i \in DOMAIN timers' /\ k[i] \in NameTimer \ S
  BY <1>1, <1>2 DEF NameTimer
<1>5. TimersSingle'
  BY <1>1, <1>3, <1>4 DEF TimersSingle
<1>6. ASSUME NEW t \in Waiting'
      PROVE  t \in Waiting /\ ~(NameTimer \subseteq S)
  <2>1. PICK i \in NameTimer' : t = timers'[i]  BY DEF Waiting
  <2>2. i \in DOMAIN timers'  BY DEF NameTimer
  <2> QED  BY <1>1, <1>4, <2>1, <2>2 DEF Waiting
<1> QED  BY <1>5, <1>6

LEMMA FieldsAtType ==
  ASSUME Types
  PROVE  /\ \A S \in SUBSET DOMAIN timers : FieldsAt(timers, S) \subseteq Sources
         /\ \A S \in SUBSET DOMAIN out : FieldsAt(out, S) \subseteq Sources
<1>1. \A i \in DOMAIN timers : timers[i].f \in Sources \cup {None}
  <2>1. \A i \in DOMAIN timers : timers[i] \in Timers  BY DEF Types
  <2> QED  BY <2>1 DEF Timers
<1>2. \A i \in DOMAIN out : out[i].f \in Sources
  <2>1. \A i \in DOMAIN out : out[i] \in Requests  BY DEF Types
  <2> QED  BY <2>1 DEF Requests
<1> QED  BY <1>1, <1>2 DEF FieldsAt

LEMMA Debounced ==
  ASSUME Types, TimersSingle, NEW F \in Forms, NEW f \in Sources \cup {None},
         Debounce(F, f)
  PROVE  /\ timers' \in Seq(Timers) /\ TimersSingle' /\ Waiting' \subseteq Waiting
         /\ robbed' \subseteq Sources
<1> DEFINE x == [what |-> "formUpdated", form |-> F, f |-> f, text |-> Nameless]
<1>1. x \in Timers  BY KindTypes DEF Timers
<1>2. timers' \in Seq(Timers) /\ FromOr(timers', timers, DebounceOf(F), x)
  BY <1>1, AppendFrom DEF Types, Debounce
<1>3. TimersSingle' /\ Waiting' \subseteq Waiting
  <2>1. x.what = "formUpdated" /\ x.form = F  OBVIOUS
  <2> HIDE DEF x
  <2> QED  BY <1>2, <2>1, TimerStarts
<1>4. DebounceOf(F) \subseteq DOMAIN timers  BY DEF DebounceOf
<1>5. robbed' \subseteq Sources
  BY <1>4, FieldsAtType DEF Debounce, Types
<1> QED  BY <1>2, <1>3, <1>5

\* Requests are aborted, answered or fail: those in S are gone.
LEMMA RequestsEnd ==
  ASSUME Types, OutSingle, NEW S, out' = But(out, S)
  PROVE  /\ out' \in Seq(Requests) /\ OutSingle'
         /\ \A r \in Sent' : \E j \in DOMAIN out \ S : r = out[j]
         /\ Sent' \subseteq Sent
<1>1. out' \in Seq(Requests) /\ From(out', out, S)
  BY ButFrom DEF Types
<1>2. PICK k \in [DOMAIN out' -> DOMAIN out \ S] :
        /\ \A i \in DOMAIN out' : out'[i] = out[k[i]]
        /\ \A i, j \in DOMAIN out' : k[i] = k[j] => i = j
  BY <1>1 DEF From
<1>3. \A i \in DOMAIN out' : k[i] \in DOMAIN out \ S  OBVIOUS
<1>4. OutSingle'
  BY <1>2, <1>3 DEF OutSingle
<1>5. \A r \in Sent' : \E j \in DOMAIN out \ S : r = out[j]
  BY <1>2, <1>3 DEF Sent
<1>6. Sent' \subseteq Sent  BY <1>5 DEF Sent
<1> QED  BY <1>1, <1>4, <1>5, <1>6

-----------------------------------------------------------------------------
(* Each action preserves the invariant.                                      *)

Others == XhrInv /\ EditInv /\ TextInv

\* No field changes and nothing new is under way.
LEMMA QuietStep ==
  ASSUME Inv, UNCHANGED <<label, name, on, edit, typed, exposed>>,
         edits' \in Int, edits <= edits',
         Waiting' \subseteq Waiting, Sent' \subseteq Sent
  PROVE  Others'
<1> USE DEF Inv
<1>1. XhrInv'  BY DEF XhrInv
<1>2. EditInv'  BY DEF EditInv
<1>3. \A x \in Waiting' \cup Sent' : Between(x) => Between(x)'
  BY DEF Between
<1>4. \A f \in Sources : /\ label'[f].n <= edits'
                         /\ name'[f] # None => name'[f] <= edits'
  BY TypeFacts DEF TextInv
<1>5. \A x \in Waiting' : x.text.n <= edits' /\ Between(x)'
  BY <1>3, TypeFacts DEF TextInv
<1>6. \A x \in Sent' : x.initial = FALSE => x.text.n <= edits' /\ Between(x)'
  BY <1>3, TypeFacts DEF TextInv
<1>7. TextInv'
  BY <1>4, <1>5, <1>6 DEF TextInv
<1> QED  BY <1>1, <1>2, <1>7 DEF Others

LEMMA SameTimers ==
  ASSUME Inv, UNCHANGED timers
  PROVE  /\ timers' \in Seq(Timers) /\ TimersSingle' /\ Waiting' = Waiting
BY DEF Inv, Types, TimersSingle, DebounceOf, NameTimer, Waiting

LEMMA SameRequests ==
  ASSUME Inv, UNCHANGED out
  PROVE  /\ out' \in Seq(Requests) /\ OutSingle' /\ Sent' = Sent
BY DEF Inv, Types, OutSingle, Sent

LEMMA MoveFocusInv ==
  ASSUME Inv, NEW f \in Sources \cup {None}, MoveFocus(f)
  PROVE  Inv'
<1>1. /\ UNCHANGED <<label, name, on, link, edit, out, edits, failures, typed,
                     failed, overtaken, exposed>>
      /\ focus' = f /\ dirty' = FALSE
  BY DEF MoveFocus
<1>2. /\ timers' \in Seq(Timers) /\ TimersSingle' /\ Waiting' \subseteq Waiting
      /\ robbed' \subseteq Sources
  <2>1. CASE dirty
    <3>1. focus \in Sources /\ Debounce(FormOf[focus], focus)
      BY <2>1 DEF Inv, Types, MoveFocus
    <3>2. FormOf[focus] \in Forms  BY <3>1, EveryLabelInAForm
    <3> QED  BY <3>1, <3>2, Debounced DEF Inv
  <2>2. CASE ~dirty
    <3>1. UNCHANGED <<timers, robbed>>  BY <2>2 DEF MoveFocus
    <3> QED  BY <3>1, SameTimers DEF Inv, Types
  <2> QED  BY <2>1, <2>2
<1>3. Sent' = Sent /\ OutSingle' /\ out' \in Seq(Requests)  BY <1>1, SameRequests
<1>4. Types'  BY <1>1, <1>2, <1>3 DEF Inv, Types
<1>5. edits' \in Int /\ edits <= edits'  BY <1>1, TypeFacts DEF Inv
<1>6. Others'  BY <1>1, <1>2, <1>3, <1>5, QuietStep
<1> QED  BY <1>2, <1>3, <1>4, <1>6 DEF Inv, Others

LEMMA TypeElsewhereInv ==
  ASSUME Inv, NEW F \in Forms, TypeElsewhere(F)
  PROVE  Inv'
<1>1. /\ UNCHANGED <<label, name, on, link, edit, focus, dirty, out, failures,
                     typed, failed, overtaken, exposed>>
      /\ edits < MaxEdits /\ edits' = edits + 1
  BY DEF TypeElsewhere
<1>2. /\ timers' \in Seq(Timers) /\ TimersSingle' /\ Waiting' \subseteq Waiting
      /\ robbed' \subseteq Sources
  <2>1. Debounce(F, None)  BY DEF TypeElsewhere
  <2> QED  BY <2>1, Debounced DEF Inv
<1>3. Sent' = Sent /\ OutSingle' /\ out' \in Seq(Requests)  BY <1>1, SameRequests
<1>4. edits' \in 0 .. MaxEdits /\ edits' \in Int /\ edits <= edits'
  BY <1>1, TypeFacts DEF Inv
<1>5. Types'  BY <1>1, <1>2, <1>3, <1>4 DEF Inv, Types
<1>6. Others'  BY <1>1, <1>2, <1>3, <1>4, QuietStep
<1> QED  BY <1>2, <1>3, <1>5, <1>6 DEF Inv, Others

\* The label gets a text that is newer than anything under way, or none.
LEMMA TypeInv ==
  ASSUME Inv, NEW f \in Sources, NEW kind \in TypedKinds, Type(f, kind)
  PROVE  Inv'
<1> DEFINE text == [n |-> IF kind = "empty" THEN 0 ELSE edits + 1, kind |-> kind]
<1>1. /\ UNCHANGED <<name, on, link, edit, focus, out, failures, typed,
                     failed, overtaken, exposed>>
      /\ focus = f /\ dirty' = TRUE
      /\ edits < MaxEdits /\ edits' = edits + 1
      /\ label' = [label EXCEPT ![f] = text]
      /\ Debounce(FormOf[f], f)
  BY DEF Type
<1>2. FormOf[f] \in Forms  BY EveryLabelInAForm
<1>3. /\ timers' \in Seq(Timers) /\ TimersSingle' /\ Waiting' \subseteq Waiting
      /\ robbed' \subseteq Sources
  BY <1>1, <1>2, Debounced DEF Inv
<1>4. Sent' = Sent /\ OutSingle' /\ out' \in Seq(Requests)  BY <1>1, SameRequests
<1>5. edits' \in 0 .. MaxEdits /\ edits' \in Int /\ edits' = edits + 1
      /\ edits \in Int /\ 0 <= edits
  BY <1>1, TypeFacts DEF Inv
<1>6. /\ text.n \in 0 .. MaxEdits /\ text.kind = kind /\ text \in Texts
      /\ text.n <= edits' /\ 0 <= text.n /\ (kind # "empty" => text.n = edits')
  <2>1. kind \in Kinds  BY KindsKnown
  <2>2. CASE kind = "empty"  BY <1>5, <2>1, <2>2, KindTypes DEF Texts
  <2>3. CASE kind # "empty"  BY <1>5, <2>1, <2>3 DEF Texts
  <2> QED  BY <2>2, <2>3
<1>7. label \in [Sources -> Texts]  BY DEF Inv, Types
<1> HIDE DEF text
<1>8. \A g \in Sources : label'[g] = IF g = f THEN text ELSE label[g]
  BY <1>1, <1>7
<1>9. label' \in [Sources -> Texts]  BY <1>1, <1>6, <1>7
<1>10. Types'
  <2>1. \A t \in Waiting' : t.f \in Sources  BY <1>3 DEF Inv, Types
  <2> QED  BY <1>1, <1>3, <1>4, <1>5, <1>9, <2>1 DEF Inv, Types
<1>11. XhrInv'  BY <1>3, <1>4 DEF Inv, XhrInv
<1>12. EditInv'  BY <1>1, <1>3, <1>4 DEF Inv, EditInv
<1>13. ASSUME NEW x \in Waiting' \cup Sent', x.text.n <= edits, Between(x)
       PROVE  x.text.n <= edits' /\ Between(x)'
  <2>1. x.f \in Sources /\ x.text.n \in Int
    BY <1>3, <1>4, TypeFacts DEF Inv
  <2>2. x.text.n <= edits'  BY <1>5, <1>13, <2>1
  <2>3. label'[x.f].kind # "empty" => x.text.n <= label'[x.f].n
    BY <1>6, <1>8, <1>13, <2>1, <2>2 DEF Between
  <2> QED  BY <1>1, <1>13, <2>2, <2>3 DEF Between
<1>14. TextInv'
  <2>1. \A g \in Sources : label'[g].n <= edits'
    BY <1>5, <1>6, <1>8, TypeFacts DEF Inv, TextInv
  <2>2. \A g \in Sources : name'[g] # None => name'[g] <= edits'
    BY <1>1, <1>5, TypeFacts DEF Inv, TextInv
  <2>3. \A x \in Waiting' : x.text.n <= edits' /\ Between(x)'
    BY <1>3, <1>13 DEF Inv, TextInv
  <2>4. \A x \in Sent' : x.initial = FALSE => x.text.n <= edits' /\ Between(x)'
    BY <1>4, <1>13 DEF Inv, TextInv
  <2>5. \A g \in on' : label'[g].kind # "empty" /\ name'[g] # None
                       => name'[g] <= label'[g].n
    <3> SUFFICES ASSUME NEW g \in on', label'[g].kind # "empty", name'[g] # None
                 PROVE  name'[g] <= label'[g].n
      OBVIOUS
    <3>1. g \in on /\ g \in Sources  BY <1>1 DEF Inv, Types
    <3>2. CASE g = f  BY <1>6, <1>8, <2>2, <3>1, <3>2
    <3>3. CASE g # f
      BY <1>1, <1>8, <3>1, <3>3 DEF Inv, TextInv
    <3> QED  BY <3>2, <3>3
  <2> QED  BY <2>1, <2>2, <2>3, <2>4, <2>5 DEF TextInv
<1> QED  BY <1>3, <1>4, <1>10, <1>11, <1>12, <1>14 DEF Inv

LEMMA ClickEditInv ==
  ASSUME Inv, NEW f \in Sources, ClickEdit(f)
  PROVE  Inv'
<1>1. /\ UNCHANGED <<label, name, focus, dirty, timers, out, edits, failures,
                     typed, robbed, failed, overtaken>>
      /\ edit' = edit \cup {f} /\ link' = link \ {f} /\ on' = on \ {f}
      /\ exposed' = IF UnderWay(f) THEN exposed \cup {f} ELSE exposed
  BY DEF ClickEdit, Off
<1>2. timers' \in Seq(Timers) /\ TimersSingle' /\ Waiting' = Waiting
  BY <1>1, SameTimers
<1>3. Sent' = Sent /\ OutSingle' /\ out' \in Seq(Requests)  BY <1>1, SameRequests
<1>4. Types'  BY <1>1, <1>2, <1>3 DEF Inv, Types
<1>5. XhrInv'  BY <1>2, <1>3 DEF Inv, XhrInv
<1>6. EditInv'
  <2>1. \A g \in edit' \ exposed' : /\ \A t \in Waiting' : t.f # g
                                    /\ \A r \in Sent' : r.f # g
    <3> SUFFICES ASSUME NEW g \in edit' \ exposed'
                 PROVE  /\ \A t \in Waiting : t.f # g
                        /\ \A r \in Sent : r.f # g
      BY <1>2, <1>3
    <3>1. CASE g \in edit  BY <1>1, <3>1 DEF Inv, EditInv
    <3>2. CASE g = f
      <4>1. ~UnderWay(f)  BY <1>1, <3>2
      <4> QED  BY <3>2, <4>1 DEF UnderWay, Waiting, Sent
    <3> QED  BY <1>1, <3>1, <3>2
  <2>2. edit' \cap on' = {}  BY <1>1 DEF Inv, EditInv
  <2>3. \A g \in Sources : typed'[g] # None => g \in edit'
    BY <1>1 DEF Inv, EditInv
  <2> QED  BY <2>1, <2>2, <2>3 DEF EditInv
<1>7. TextInv'
  <2>1. \A x \in Waiting \cup Sent : Between(x) => Between(x)'
    BY <1>1 DEF Between
  <2> QED  BY <1>1, <1>2, <1>3, <2>1 DEF Inv, TextInv
<1> QED  BY <1>2, <1>3, <1>4, <1>5, <1>6, <1>7 DEF Inv

LEMMA TypeNameInv ==
  ASSUME Inv, NEW f \in Sources, TypeName(f)
  PROVE  Inv'
<1>1. /\ UNCHANGED <<label, on, link, edit, focus, dirty, out, failures,
                     failed, overtaken, exposed>>
      /\ f \in edit /\ edits < MaxEdits /\ edits' = edits + 1
      /\ name' = [name EXCEPT ![f] = edits + 1]
      /\ typed' = [typed EXCEPT ![f] = edits + 1]
      /\ Debounce(FormOf[f], None)
  BY DEF TypeName
<1>2. FormOf[f] \in Forms  BY EveryLabelInAForm
<1>3. /\ timers' \in Seq(Timers) /\ TimersSingle' /\ Waiting' \subseteq Waiting
      /\ robbed' \subseteq Sources
  BY <1>1, <1>2, Debounced DEF Inv
<1>4. Sent' = Sent /\ OutSingle' /\ out' \in Seq(Requests)  BY <1>1, SameRequests
<1>5. edits' \in 0 .. MaxEdits /\ edits' \in Int /\ edits' = edits + 1
      /\ edits \in Int
  BY <1>1, TypeFacts DEF Inv
<1>6. /\ name \in [Sources -> Names] /\ typed \in [Sources -> Names]
      /\ edits' \in Names
  BY <1>5 DEF Inv, Types, Names
<1>7. /\ name' \in [Sources -> Names] /\ typed' \in [Sources -> Names]
      /\ \A g \in Sources : name'[g] = IF g = f THEN edits' ELSE name[g]
      /\ \A g \in Sources : typed'[g] = IF g = f THEN edits' ELSE typed[g]
  BY <1>1, <1>6
<1>8. Types'  BY <1>1, <1>3, <1>4, <1>5, <1>7 DEF Inv, Types
<1>9. XhrInv'  BY <1>3, <1>4 DEF Inv, XhrInv
<1>10. EditInv'  BY <1>1, <1>3, <1>4, <1>7 DEF Inv, EditInv
<1>11. ASSUME NEW x \in Waiting' \cup Sent', x.text.n <= edits, Between(x)
       PROVE  x.text.n <= edits' /\ Between(x)'
  <2>1. x.f \in Sources /\ x.text.n \in Int
    BY <1>3, <1>4, TypeFacts DEF Inv
  <2>2. x.text.n <= edits'  BY <1>5, <1>11, <2>1
  <2> QED  BY <1>1, <1>7, <1>11, <2>1, <2>2 DEF Between
<1>12. TextInv'
  <2>1. \A g \in Sources : label'[g].n <= edits'
    BY <1>1, <1>5, TypeFacts DEF Inv, TextInv
  <2>2. \A g \in Sources : name'[g] # None => name'[g] <= edits'
    BY <1>5, <1>7, TypeFacts DEF Inv, TextInv
  <2>3. \A x \in Waiting' : x.text.n <= edits' /\ Between(x)'
    BY <1>3, <1>11 DEF Inv, TextInv
  <2>4. \A x \in Sent' : x.initial = FALSE => x.text.n <= edits' /\ Between(x)'
    BY <1>4, <1>11 DEF Inv, TextInv
  <2>5. \A g \in on' : label'[g].kind # "empty" /\ name'[g] # None
                       => name'[g] <= label'[g].n
    <3>1. \A g \in on' : g # f /\ g \in on /\ g \in Sources
      BY <1>1 DEF Inv, EditInv, Types
    <3> QED  BY <1>1, <1>7, <3>1 DEF Inv, TextInv
  <2> QED  BY <2>1, <2>2, <2>3, <2>4, <2>5 DEF TextInv
<1> QED  BY <1>3, <1>4, <1>8, <1>9, <1>10, <1>12 DEF Inv

LEMMA AppendPlaces ==
  ASSUME NEW X, NEW s \in Seq(X), NEW x \in X
  PROVE  /\ Append(s, x) \in Seq(X)
         /\ \A i \in DOMAIN Append(s, x) :
              /\ Append(s, x)[i] \in X
              /\ \/ i \in DOMAIN s /\ Append(s, x)[i] = s[i]
                 \/ i = Len(s) + 1 /\ Append(s, x)[i] = x
<1> DEFINE t == Append(s, x)
<1>1. t \in Seq(X) /\ DOMAIN t = 1 .. Len(s) + 1 /\ Len(s) \in Nat
      /\ DOMAIN s = 1 .. Len(s)
  OBVIOUS
<1>2. t[Len(s) + 1] = x /\ \A i \in 1 .. Len(s) : t[i] = s[i]
  OBVIOUS
<1> HIDE DEF t
<1>3. ASSUME NEW i \in DOMAIN t
      PROVE  i \in DOMAIN s \/ i = Len(s) + 1
  BY <1>1
<1>4. \A i \in DOMAIN t : t[i] \in X  BY <1>1
<1> QED  BY <1>1, <1>2, <1>3, <1>4 DEF t

LEMMA HeadType ==
  ASSUME Inv, timers # <<>>
  PROVE  /\ Head(timers) = timers[1] /\ 1 \in DOMAIN timers
         /\ Head(timers) \in Timers
BY DEF Inv, Types

\* An event that nothing listens to.
LEMMA UnheardInv ==
  ASSUME Inv, timers' = But(timers, {1}),
         UNCHANGED <<name, link, out, robbed, failed, overtaken, label, on, edit,
                     focus, dirty, edits, failures, typed, exposed>>
  PROVE  Inv'
<1>1. timers' \in Seq(Timers) /\ From(timers', timers, {1})
  BY ButFrom DEF Inv, Types
<1>2. TimersSingle' /\ Waiting' \subseteq Waiting
  BY <1>1, TimersEnd DEF Inv
<1>3. Sent' = Sent /\ OutSingle' /\ out' \in Seq(Requests)  BY SameRequests
<1>4. Types'  BY <1>1, <1>2, <1>3 DEF Inv, Types
<1>5. edits' \in Int /\ edits <= edits'  BY TypeFacts DEF Inv
<1>6. Others'  BY <1>2, <1>3, <1>5, QuietStep
<1> QED  BY <1>2, <1>3, <1>4, <1>6 DEF Inv, Others

\* An event of a label: whatever is under way is taken back, so what is left is
\* the first requests and at most a timer with the text of this label.
LEMMA HandleInv ==
  ASSUME Inv, NEW f \in on, Handle(f, But(timers, Cleared(f) \cup {1})),
         UNCHANGED <<label, on, edit, focus, dirty, edits, failures, typed, exposed>>
  PROVE  Inv'
<1> DEFINE S == Cleared(f) \cup {1}
           x == Transliterate(f, label[f])
<1>1. f \in Sources /\ f \notin edit /\ label[f] \in Texts
  BY TypeFacts DEF Inv, Types, EditInv
<1>2. /\ x \in Timers /\ x.what = "transliterate" /\ x.f = f
      /\ x.text = label[f]
  BY <1>1, TransliterateType
<1>3. NameTimer \subseteq S  BY DEF Cleared
<1>4. /\ out' = But(out, InXhr)
      /\ robbed' = (robbed \cup FieldsAt(out, InXhr)
                           \cup FieldsAt(timers, NameTimer)) \ {f}
  BY DEF Handle, Aborted, Cleared
<1>5. robbed' \subseteq Sources
  BY <1>4, FieldsAtType DEF InXhr, NameTimer, Inv, Types
<1>6. /\ out' \in Seq(Requests) /\ OutSingle' /\ Sent' \subseteq Sent
      /\ \A r \in Sent' : r.initial = TRUE
  <2>1. /\ out' \in Seq(Requests) /\ OutSingle' /\ Sent' \subseteq Sent
        /\ \A r \in Sent' : \E j \in DOMAIN out \ InXhr : r = out[j]
    BY <1>4, RequestsEnd DEF Inv
  <2>2. \A j \in DOMAIN out \ InXhr : out[j].xhr = FALSE
    <3>1. \A j \in DOMAIN out : out[j] \in Requests  BY DEF Inv, Types
    <3> QED  BY <3>1 DEF InXhr, Requests
  <2> QED  BY <2>1, <2>2 DEF Inv, XhrInv
<1> HIDE DEF x, S
<1>7. CASE Hard(label[f])
  <2>1. timers' = Append(But(timers, S), x) /\ UNCHANGED <<name, link, overtaken, failed>>
    BY <1>7 DEF Handle, x, S
  <2>2. timers' \in Seq(Timers) /\ FromOr(timers', timers, S, x)
    BY <1>2, <2>1, AppendFrom DEF Inv, Types
  <2>3. TimersSingle' /\ Waiting' \subseteq {x}
    BY <1>2, <1>3, <2>2, TimerStarts DEF Inv
  <2>4. \A t \in Waiting' : t.f = f /\ t.text = label[f]  BY <1>2, <2>3
  <2>5. label[f].kind # "empty"  BY <1>7 DEF Hard
  <2>6. Types'  BY <1>1, <1>5, <1>6, <2>1, <2>2, <2>4 DEF Inv, Types
  <2>7. XhrInv'  BY <1>6 DEF Inv, XhrInv
  <2>8. EditInv'  BY <1>1, <1>6, <2>4 DEF Inv, EditInv
  <2>9. TextInv'
    <3>1. label[f].n \in Int /\ label[f].n <= edits
      BY <1>1, TypeFacts DEF Inv, TextInv
    <3>2. name[f] # None => name[f] <= label[f].n
      BY <2>5 DEF Inv, TextInv
    <3>3. ASSUME NEW t \in Waiting'  PROVE t.text.n <= edits' /\ Between(t)'
      <4>1. t.text.n <= edits  BY <2>4, <3>1
      <4>2. label'[t.f].kind # "empty" => t.text.n <= label'[t.f].n
        BY <2>4, <3>1
      <4>3. name'[t.f] \notin {None, typed'[t.f]} => name'[t.f] <= t.text.n
        BY <2>1, <2>4, <3>2
      <4> QED  BY <4>1, <4>2, <4>3 DEF Between
    <3> QED  BY <1>6, <2>1, <3>3 DEF Inv, TextInv
  <2> QED  BY <1>6, <2>3, <2>6, <2>7, <2>8, <2>9 DEF Inv
<1>8. CASE ~Hard(label[f])
  <2>1. /\ timers' = But(timers, S) /\ ShowMachineName(f, label[f])
        /\ overtaken' = overtaken \ {f} /\ failed' = failed \ {f}
    BY <1>8 DEF Handle, S
  <2>2. timers' \in Seq(Timers) /\ From(timers', timers, S)
    BY <2>1, ButFrom DEF Inv, Types
  <2>3. TimersSingle' /\ Waiting' = {}
    BY <1>3, <2>2, TimersEnd DEF Inv
  <2>4. /\ name' = [name EXCEPT ![f] = Shown(f, label[f])]
        /\ link' \subseteq Sources
    BY <1>1, <2>1 DEF ShowMachineName, Inv, Types
  <2>5. /\ label[f].kind = "empty" => Shown(f, label[f]) = None
        /\ label[f].kind # "empty" => Shown(f, label[f]) = label[f].n
    <3>1. label[f].kind # "symbols"  BY <1>8 DEF Hard
    <3> QED  BY <3>1 DEF Shown
  <2>6. Shown(f, label[f]) \in Names
    <3>1. label[f].n \in 0 .. MaxEdits  BY <1>1 DEF Texts
    <3> QED  BY <2>5, <3>1 DEF Names
  <2>7. name \in [Sources -> Names]  BY DEF Inv, Types
  <2>8. /\ name' \in [Sources -> Names]
        /\ \A g \in Sources : name'[g] = IF g = f THEN Shown(f, label[f]) ELSE name[g]
    BY <2>4, <2>6, <2>7
  <2>9. Types'
    BY <1>5, <1>6, <2>1, <2>2, <2>3, <2>4, <2>8 DEF Inv, Types
  <2>10. XhrInv'  BY <1>6 DEF Inv, XhrInv
  <2>11. EditInv'  BY <1>6, <2>3 DEF Inv, EditInv
  <2>12. TextInv'
    <3>1. \A g \in Sources : label'[g].n <= edits'
      BY DEF Inv, TextInv
    <3>2. \A g \in Sources : name'[g] # None => name'[g] <= edits'
      BY <2>5, <2>8 DEF Inv, TextInv
    <3>3. \A x_1 \in Sent' : x_1.initial # FALSE  BY <1>6
    <3>4. label[f].n <= label[f].n  BY <1>1, TypeFacts DEF Inv
    <3>5. \A g \in on' : label'[g].kind # "empty" /\ name'[g] # None
                         => name'[g] <= label'[g].n
      <4>1. \A g \in on' : g \in Sources /\ g \in on  BY DEF Inv, Types
      <4> QED  BY <2>5, <2>8, <3>4, <4>1 DEF Inv, TextInv
    <3> QED  BY <2>3, <3>1, <3>2, <3>3, <3>5 DEF TextInv
  <2> QED  BY <1>6, <2>3, <2>9, <2>10, <2>11, <2>12 DEF Inv
<1> QED  BY <1>7, <1>8

\* The request is sent: as a timer was left the others are first requests,
\* without xhr.
LEMMA SendInv ==
  ASSUME Inv, timers # <<>>, Head(timers).what = "transliterate",
         timers' = But(timers, {1}),
         out' = Append([i \in DOMAIN out |-> [out[i] EXCEPT !.xhr = FALSE]],
                       Request(Head(timers).f, Head(timers).text, FALSE)),
         UNCHANGED <<name, link, robbed, failed, overtaken, label, on, edit,
                     focus, dirty, edits, failures, typed, exposed>>
  PROVE  Inv'
<1> DEFINE t == Head(timers)
<1>0. PICK r : r = Request(t.f, t.text, FALSE)  OBVIOUS
<1>1. t \in Waiting /\ 1 \in NameTimer
  BY HeadType DEF Waiting, NameTimer
<1>2. NameTimer \subseteq {1}  BY <1>1 DEF Inv, TimersSingle
<1>3. /\ t.f \in Sources /\ t.text \in Texts
      /\ t.text.n <= edits /\ Between(t)
  BY <1>1, TypeFacts DEF Inv, TextInv
<1>4. /\ r \in Requests /\ r.f = t.f /\ r.text = t.text
      /\ r.initial = FALSE /\ r.xhr = TRUE
  BY <1>0, <1>3, RequestType
<1>5. \A i \in DOMAIN out : /\ out[i] \in Requests /\ out[i].initial = TRUE
                            /\ out[i].xhr = FALSE
  BY <1>1 DEF Inv, XhrInv, Sent, Types
<1>6. \A i \in DOMAIN out : [out[i] EXCEPT !.xhr = FALSE] = out[i]
  BY <1>5 DEF Requests
<1>7. [i \in DOMAIN out |-> [out[i] EXCEPT !.xhr = FALSE]] = out
  <2>1. out = [i \in DOMAIN out |-> out[i]]  BY DEF Inv, Types
  <2> QED  BY <1>6, <2>1
<1>8. out' = Append(out, r)  BY <1>0, <1>7
<1> HIDE DEF t
<1>9. /\ out' \in Seq(Requests)
      /\ \A i \in DOMAIN out' : /\ out'[i] \in Requests
                                /\ \/ i \in DOMAIN out /\ out'[i] = out[i]
                                   \/ i = Len(out) + 1 /\ out'[i] = r
  <2>1. out \in Seq(Requests)  BY DEF Inv, Types
  <2>2. r \in Requests  BY <1>4
  <2>3. \A s \in Seq(Requests), x \in Requests :
          /\ Append(s, x) \in Seq(Requests)
          /\ \A i \in DOMAIN Append(s, x) :
               /\ Append(s, x)[i] \in Requests
               /\ \/ i \in DOMAIN s /\ Append(s, x)[i] = s[i]
                  \/ i = Len(s) + 1 /\ Append(s, x)[i] = x
    BY AppendPlaces
  <2>4. /\ Append(out, r) \in Seq(Requests)
        /\ \A i \in DOMAIN Append(out, r) :
             /\ Append(out, r)[i] \in Requests
             /\ \/ i \in DOMAIN out /\ Append(out, r)[i] = out[i]
                \/ i = Len(out) + 1 /\ Append(out, r)[i] = r
    BY <2>1, <2>2, <2>3, Zenon
  <2> QED  BY <1>8, <2>4, Zenon
<1>10. Sent' \subseteq Sent \cup {r}  BY <1>9 DEF Sent
<1>11. OutSingle'
  <2>1. \A i \in DOMAIN out' : out'[i].initial = FALSE => i = Len(out) + 1
    BY <1>5, <1>9
  <2>2. \A i \in DOMAIN out' : out'[i].initial \in BOOLEAN
    <3> SUFFICES ASSUME NEW i \in DOMAIN out'  PROVE out'[i].initial \in BOOLEAN
      OBVIOUS
    <3>1. out'[i] \in Requests  BY <1>9
    <3> QED  BY <3>1 DEF Requests
  <2> QED  BY <2>1, <2>2 DEF OutSingle
<1>12. timers' \in Seq(Timers) /\ From(timers', timers, {1})
  BY ButFrom DEF Inv, Types
<1>13. TimersSingle' /\ Waiting' = {}
  BY <1>2, <1>12, TimersEnd DEF Inv
<1>14. Types'  BY <1>9, <1>12, <1>13 DEF Inv, Types
<1>15. XhrInv'
  BY <1>4, <1>10, <1>13 DEF Inv, XhrInv
<1>16. EditInv'
  BY <1>1, <1>4, <1>10, <1>13 DEF Inv, EditInv
<1>17. TextInv'
  <2>1. r.text.n <= edits' /\ Between(r)'
    <3>1. r.f = t.f /\ r.text = t.text  BY <1>4
    <3>2. r.text.n <= edits'  BY <1>3, <3>1
    <3>3. Between(r)' <=> Between(t)  BY <3>1 DEF Between
    <3> QED  BY <1>3, <3>2, <3>3
  <2>3. \A x \in Sent' : x.initial = FALSE => x.text.n <= edits' /\ Between(x)'
    <3>1. \A x \in Sent : x.initial = TRUE  BY <1>1 DEF Inv, XhrInv
    <3> QED  BY <1>10, <2>1, <3>1
  <2> QED  BY <1>13, <2>3 DEF Inv, TextInv
<1> QED  BY <1>11, <1>13, <1>14, <1>15, <1>16, <1>17 DEF Inv

LEMMA ElapseInv ==
  ASSUME Inv, Elapse
  PROVE  Inv'
<1> DEFINE t == Head(timers)
<1>1. timers # <<>> /\ UNCHANGED <<label, on, edit, focus, dirty, edits, failures,
                                   typed, exposed>>
  BY DEF Elapse
<1>2. CASE /\ t.what = "formUpdated" /\ t.f \notin on
           /\ timers' = But(timers, {1})
           /\ UNCHANGED <<name, link, out, robbed, failed, overtaken>>
  BY <1>1, <1>2, UnheardInv
<1>3. CASE /\ t.what = "formUpdated" /\ t.f \in on
           /\ Handle(t.f, But(timers, Cleared(t.f) \cup {1}))
  BY <1>1, <1>3, HandleInv
<1>4. CASE /\ t.what = "transliterate"
           /\ timers' = But(timers, {1})
           /\ out' = Append([i \in DOMAIN out |-> [out[i] EXCEPT !.xhr = FALSE]],
                            Request(t.f, t.text, FALSE))
           /\ UNCHANGED <<name, link, robbed, failed, overtaken>>
  BY <1>1, <1>4, SendInv
<1> QED  BY <1>2, <1>3, <1>4 DEF Elapse

LEMMA AnswerInv ==
  ASSUME Inv, NEW i \in DOMAIN out, Answer(i)
  PROVE  Inv'
<1> DEFINE r == out[i]
           f == r.f
           new == Shown(f, r.text)
<1>1. /\ UNCHANGED <<label, on, edit, focus, dirty, timers, edits, failures,
                     typed, robbed, exposed>>
      /\ out' = But(out, {i}) /\ ShowMachineName(f, r.text)
      /\ failed' = failed \ {f}
      /\ overtaken' \in {overtaken \cup {f}, overtaken \ {f}}
  BY DEF Answer
<1>2. /\ r \in Requests /\ r \in Sent /\ f \in Sources /\ r.text \in Texts
      /\ r.text.n \in 0 .. MaxEdits /\ r.text.n \in Int /\ 0 <= r.text.n
  BY TypeFacts DEF Sent, Inv, Types, Texts
<1>3. /\ timers' \in Seq(Timers) /\ TimersSingle' /\ Waiting' = Waiting
  BY <1>1, SameTimers
<1>4. /\ out' \in Seq(Requests) /\ OutSingle' /\ Sent' \subseteq Sent
      /\ \A s \in Sent' : \E j \in DOMAIN out \ {i} : s = out[j]
  BY <1>1, RequestsEnd DEF Inv
<1>5. name' = [name EXCEPT ![f] = new] /\ link' \subseteq Sources
  BY <1>1, <1>2 DEF ShowMachineName, Inv, Types
<1>6. new \in {None, name[f], r.text.n}  BY DEF Shown
<1>7. name \in [Sources -> Names]  BY DEF Inv, Types
<1>8. new \in Names
  BY <1>2, <1>6, <1>7 DEF Names
<1> HIDE DEF new
<1>9. /\ name' \in [Sources -> Names]
      /\ \A g \in Sources : name'[g] = IF g = f THEN new ELSE name[g]
  BY <1>2, <1>5, <1>7, <1>8
<1>10. Types'  BY <1>1, <1>2, <1>3, <1>4, <1>5, <1>9 DEF Inv, Types
<1>11. XhrInv'  BY <1>3, <1>4 DEF Inv, XhrInv
<1>12. EditInv'  BY <1>1, <1>3, <1>4 DEF Inv, EditInv
<1>13. CASE r.initial = TRUE
  <2>1. r.text.n = 0  BY <1>2, <1>13 DEF Inv, XhrInv
  <2>2. new \in {None, name[f], 0}  BY <1>6, <2>1
  <2>3. \A x \in Waiting' \cup Sent' : Between(x) => Between(x)'
    <3> SUFFICES ASSUME NEW x \in Waiting' \cup Sent', Between(x)
                 PROVE  Between(x)'
      OBVIOUS
    <3>1. x.f \in Sources /\ 0 <= x.text.n
      BY <1>3, <1>4, TypeFacts DEF Inv
    <3> QED  BY <1>1, <1>9, <2>2, <3>1 DEF Between
  <2>4. \A g \in Sources : name'[g] # None => name'[g] <= edits'
    BY <1>1, <1>9, <2>2, TypeFacts DEF Inv, TextInv
  <2>5. \A g \in on' : label'[g].kind # "empty" /\ name'[g] # None
                       => name'[g] <= label'[g].n
    <3>1. \A g \in on' : g \in Sources /\ g \in on /\ 0 <= label[g].n
      BY <1>1, TypeFacts DEF Inv, Types
    <3> QED  BY <1>1, <1>9, <2>2, <3>1 DEF Inv, TextInv
  <2> QED  BY <1>1, <1>3, <1>4, <1>10, <1>11, <1>12, <2>3, <2>4, <2>5 DEF Inv, TextInv
<1>14. CASE r.initial = FALSE
  <2>1. Waiting' = {}
    <3>1. \A t \in Waiting : FALSE  BY <1>2, <1>14 DEF Inv, XhrInv
    <3> QED  BY <1>3, <3>1
  <2>2. \A s \in Sent' : s.initial # FALSE
    <3>1. ASSUME NEW j \in DOMAIN out \ {i}, out[j].initial = FALSE  PROVE FALSE
      BY <1>14, <3>1 DEF Inv, OutSingle
    <3> QED  BY <1>4, <3>1
  <2>3. r.text.n <= edits /\ Between(r)  BY <1>2, <1>14 DEF Inv, TextInv
  <2>4. \A g \in Sources : name'[g] # None => name'[g] <= edits'
    BY <1>1, <1>6, <1>9, <2>3 DEF Inv, TextInv
  <2>5. \A g \in on' : label'[g].kind # "empty" /\ name'[g] # None
                       => name'[g] <= label'[g].n
    <3>1. \A g \in on' : g \in Sources /\ g \in on
      BY <1>1 DEF Inv, Types
    <3>2. label[f].kind # "empty" => r.text.n <= label[f].n
      BY <2>3 DEF Between
    <3> QED  BY <1>1, <1>6, <1>9, <3>1, <3>2 DEF Inv, TextInv
  <2> QED  BY <1>1, <1>3, <1>4, <1>10, <1>11, <1>12, <2>1, <2>2, <2>4, <2>5
           DEF Inv, TextInv
<1>15. r.initial \in BOOLEAN  BY <1>2 DEF Requests
<1> QED  BY <1>13, <1>14, <1>15

LEMMA FailInv ==
  ASSUME Inv, NEW i \in DOMAIN out, Fail(i)
  PROVE  Inv'
<1>1. /\ UNCHANGED <<label, name, on, link, edit, focus, dirty, timers, edits,
                     typed, robbed, overtaken, exposed>>
      /\ failures < MaxFailures /\ failures' = failures + 1
      /\ out' = But(out, {i}) /\ failed' = failed \cup {out[i].f}
  BY DEF Fail
<1>2. out[i].f \in Sources
  BY TypeFacts DEF Sent, Inv
<1>3. timers' \in Seq(Timers) /\ TimersSingle' /\ Waiting' = Waiting
  BY <1>1, SameTimers
<1>4. out' \in Seq(Requests) /\ OutSingle' /\ Sent' \subseteq Sent
  BY <1>1, RequestsEnd DEF Inv
<1>5. failures' \in 0 .. MaxFailures
  BY <1>1, Bounds DEF Inv, Types
<1>6. Types'  BY <1>1, <1>2, <1>3, <1>4, <1>5 DEF Inv, Types
<1>7. edits' \in Int /\ edits <= edits'  BY <1>1, TypeFacts DEF Inv
<1>8. Others'  BY <1>1, <1>3, <1>4, <1>7, QuietStep
<1> QED  BY <1>3, <1>4, <1>6, <1>8 DEF Inv, Others

\* Every step of the user, of the timers and of the site preserves it.
LEMMA NextInv == Inv /\ [Next]_vars => Inv'
<1> SUFFICES ASSUME Inv, [Next]_vars  PROVE Inv'  OBVIOUS
<1>1. CASE UNCHANGED vars
  <2>1. UNCHANGED <<label, name, on, link, edit, focus, dirty, timers, out,
                    edits, failures, typed, robbed, failed, overtaken, exposed>>
    BY <1>1 DEF vars, form, aux
  <2>2. TimersSingle' /\ Waiting' = Waiting  BY <2>1, SameTimers
  <2>3. OutSingle' /\ Sent' = Sent  BY <2>1, SameRequests
  <2>4. Types'  BY <2>1, <2>2 DEF Inv, Types
  <2>5. edits' \in Int /\ edits <= edits'  BY <2>1, TypeFacts DEF Inv
  <2>6. Others'  BY <2>1, <2>2, <2>3, <2>5, QuietStep
  <2> QED  BY <2>2, <2>3, <2>4, <2>6 DEF Inv, Others
<1>2. ASSUME NEW f \in Sources \cup {None}, MoveFocus(f)  PROVE Inv'
  BY <1>2, MoveFocusInv
<1>3. ASSUME NEW f \in Sources, NEW kind \in TypedKinds, Type(f, kind)  PROVE Inv'
  BY <1>3, TypeInv
<1>4. ASSUME NEW F \in Forms, TypeElsewhere(F)  PROVE Inv'
  BY <1>4, TypeElsewhereInv
<1>5. ASSUME NEW f \in Sources, ClickEdit(f)  PROVE Inv'
  BY <1>5, ClickEditInv
<1>6. ASSUME NEW f \in Sources, TypeName(f)  PROVE Inv'
  BY <1>6, TypeNameInv
<1>7. ASSUME Elapse  PROVE Inv'
  BY <1>7, ElapseInv
<1>8. ASSUME NEW i \in DOMAIN out, Answer(i)  PROVE Inv'
  BY <1>8, AnswerInv
<1>9. ASSUME NEW i \in DOMAIN out, Fail(i)  PROVE Inv'
  BY <1>9, FailInv
<1> QED  BY <1>1, <1>2, <1>3, <1>4, <1>5, <1>6, <1>7, <1>8, <1>9 DEF Next

\* The invariant holds in every state, however the labels are edited.
THEOREM Invariance == Spec => []Inv
<1>1. Init => Inv  BY InitInv
<1>2. Inv /\ [Next]_vars => Inv'  BY NextInv
<1> QED  BY <1>1, <1>2, PTL DEF Spec

-----------------------------------------------------------------------------
(* What follows from the invariant.                                          *)

LEMMA OneAtMost ==
  ASSUME NEW S, \A i, j \in S : i = j
  PROVE  Cardinality(S) <= 1
<1>1. CASE S = {}  BY <1>1, FS_EmptySet
<1>2. CASE S # {}
  <2>1. PICK x : x \in S  BY <1>2
  <2>2. S = {x}  BY <2>1
  <2> QED  BY <2>2, FS_Singleton
<1> QED  BY <1>1, <1>2

\* However many labels there are, one timer and one request (but for the first
\* ones) are kept, and one event per form.
THEOREM TypeCorrect == Spec => []TypeOK
<1>1. Inv => TypeOK
  <2> SUFFICES ASSUME Inv  PROVE TypeOK  OBVIOUS
  <2>1. \A F \in Forms : Cardinality(DebounceOf(F)) <= 1
    BY OneAtMost DEF Inv, TimersSingle
  <2>2. Cardinality(NameTimer) <= 1
    BY OneAtMost DEF Inv, TimersSingle
  <2>3. Cardinality({i \in DOMAIN out : ~out[i].initial}) <= 1
    <3>1. \A i, j \in {i \in DOMAIN out : ~out[i].initial} : i = j
      BY DEF Inv, OutSingle
    <3> QED  BY <3>1, OneAtMost
  <2> QED  BY <2>1, <2>2, <2>3 DEF Inv, Types, TypeOK, Requests
<1> QED  BY <1>1, Invariance, PTL

\* A name is changed by the user, by an event of a label that is listened to,
\* or by an answer.
LEMMA NameSteps ==
  ASSUME Inv, [Next]_vars, NEW f \in Sources, name'[f] # name[f]
  PROVE  \/ /\ f \in edit /\ name'[f] = edits + 1 /\ typed'[f] = edits + 1
         \/ /\ f \in on
            /\ \/ name'[f] = None
               \/ label[f].kind # "empty" /\ name'[f] = label[f].n
         \/ \E i \in DOMAIN out : /\ out[i].f = f
                                  /\ name'[f] \in {None, out[i].text.n}
<1>1. name \in [Sources -> Names] /\ typed \in [Sources -> Names]
  BY DEF Inv, Types
<1>2. ~UNCHANGED name  OBVIOUS
<1>3. ASSUME NEW g \in Sources, NEW text, ShowMachineName(g, text)
      PROVE  /\ g = f
             /\ \/ name'[f] = None
                \/ /\ text.kind \notin {"empty", "symbols"}
                   /\ name'[f] = text.n
  <2>1. name' = [name EXCEPT ![g] = Shown(g, text)]
    BY <1>3 DEF ShowMachineName
  <2>2. g = f /\ name'[f] = Shown(f, text)  BY <1>1, <2>1
  <2> QED  BY <2>2 DEF Shown
<1>4. CASE \E g \in Sources : TypeName(g)
  <2>1. PICK g \in Sources : TypeName(g)  BY <1>4
  <2>2. /\ g \in edit /\ name' = [name EXCEPT ![g] = edits + 1]
        /\ typed' = [typed EXCEPT ![g] = edits + 1]
    BY <2>1 DEF TypeName
  <2> QED  BY <1>1, <2>2
<1>5. CASE Elapse
  <2>1. PICK g \in on : Handle(g, But(timers, Cleared(g) \cup {1}))
    BY <1>2, <1>5 DEF Elapse
  <2>2. ShowMachineName(g, label[g])  BY <1>2, <2>1 DEF Handle
  <2>3. g \in Sources  BY DEF Inv, Types
  <2> QED  BY <1>3, <2>2, <2>3
<1>6. CASE \E i \in DOMAIN out : Answer(i)
  <2>1. PICK i \in DOMAIN out : Answer(i)  BY <1>6
  <2>2. ShowMachineName(out[i].f, out[i].text)  BY <2>1 DEF Answer
  <2>3. out[i].f \in Sources  BY TypeFacts DEF Sent, Inv
  <2>4. f = out[i].f /\ name'[f] \in {None, out[i].text.n}
    BY <1>3, <2>2, <2>3
  <2> QED  BY <2>4
<1>7. Next  BY <1>2 DEF vars, form
<1>8. ASSUME \/ \E g \in Sources \cup {None} : MoveFocus(g)
             \/ \E g \in Sources, kind \in TypedKinds : Type(g, kind)
             \/ \E F \in Forms : TypeElsewhere(F)
             \/ \E g \in Sources : ClickEdit(g)
             \/ \E i \in DOMAIN out : Fail(i)
      PROVE  FALSE
  BY <1>2, <1>8 DEF MoveFocus, Type, TypeElsewhere, ClickEdit, Fail
<1> QED  BY <1>4, <1>5, <1>6, <1>7, <1>8 DEF Next

\* Whatever is typed, in whatever order timers end and requests are answered, a
\* derived name follows its label: only the first request is ever out of date.
THEOREM NamesNeverGoBack == Spec => NeverBack
<1> DEFINE A(f) == /\ None \notin {name[f], name'[f]} /\ name[f] # typed[f]
                   /\ name'[f] < name[f]
           B(f) == \E i \in DOMAIN out : /\ out[i].initial /\ out[i].f = f
                                         /\ out[i].text.n = name'[f]
<1>1. ASSUME Inv, [Next]_vars, NEW f \in Sources, A(f)
      PROVE  B(f)
  <2>1. name[f] \in Int /\ 0 <= name[f]  BY <1>1, TypeFacts DEF Inv
  <2>2. name'[f] # name[f]  BY <1>1, <2>1
  <2>3. ~(name'[f] = edits + 1)
    BY <1>1, <2>1, TypeFacts DEF Inv, TextInv
  <2>4. f \in on /\ label[f].kind # "empty" => name'[f] # label[f].n
    BY <1>1, <2>1, TypeFacts DEF Inv, TextInv
  <2>5. PICK i \in DOMAIN out : out[i].f = f /\ name'[f] = out[i].text.n
    BY <1>1, <2>2, <2>3, <2>4, NameSteps
  <2>6. out[i] \in Sent /\ out[i] \in Requests /\ out[i].text.n \in Int
    BY <1>1, TypeFacts DEF Sent, Inv
  <2>7. CASE out[i].initial = FALSE
    <3>1. Between(out[i])  BY <1>1, <2>6, <2>7 DEF Inv, TextInv
    <3>2. name[f] <= name'[f]  BY <1>1, <2>5, <3>1 DEF Between
    <3> QED  BY <1>1, <2>1, <2>5, <2>6, <3>2
  <2>8. CASE out[i].initial = TRUE  BY <2>5, <2>8
  <2> QED  BY <2>6, <2>7, <2>8 DEF Requests
<1>2. Inv /\ [Next]_vars => [\A f \in Sources : A(f) => B(f)]_vars
  BY <1>1
<1> QED  BY <1>2, Invariance, PTL DEF Spec, NeverBack

\* A name that the user gave is only lost to what was already under way when
\* the user turned to it.
THEOREM TypedNamesAreKept == Spec => TypedKept
<1> DEFINE A(f) == /\ name[f] # None /\ name[f] = typed[f] /\ name'[f] # name[f]
           B(f) == name'[f] = typed'[f] \/ f \in exposed
<1>1. ASSUME Inv, [Next]_vars, NEW f \in Sources, A(f)
      PROVE  B(f)
  <2>1. f \in edit /\ f \notin on  BY <1>1 DEF Inv, EditInv
  <2>2. CASE \E i \in DOMAIN out : out[i].f = f
    BY <1>1, <2>1, <2>2 DEF Inv, EditInv, Sent
  <2>3. CASE name'[f] = edits + 1 /\ typed'[f] = edits + 1
    BY <2>3
  <2> QED  BY <1>1, <2>1, <2>2, <2>3, NameSteps
<1>2. Inv /\ [Next]_vars => [\A f \in Sources : A(f) => B(f)]_vars
  BY <1>1
<1> QED  BY <1>2, Invariance, PTL DEF Spec, TypedKept
=============================================================================
