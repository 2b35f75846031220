----------------------------- MODULE MachineName -----------------------------
(* The machine name of a form, core/misc/machine-name.es6.js: while the user *)
(* types a label its machine name is derived from it, by the page where that *)
(* is easy and by the site where it is not. The events come through          *)
(* core/misc/form.es6.js, which waits until nothing in the form has changed  *)
(* for 300 ms; another 300 ms pass before a request is sent. All the labels  *)
(* of a page share one timer and one request.                                *)
EXTENDS Integers, Sequences, FiniteSets

CONSTANTS Sources,   \* the labels that names are derived from, in their order
          Forms,
          FormOf,    \* the form of a label
          None,
          MaxEdits,  \* bound on the edits, each of which makes a new text
          MaxFailures, \* bound on the requests that fail
          FirstKinds, TypedKinds \* bound on the kinds of texts, see Kinds

ASSUME SourcesNumbered == Sources \subseteq Nat /\ IsFiniteSet(Sources)
ASSUME EveryLabelInAForm == FormOf \in [Sources -> Forms]
ASSUME Bounds == {MaxEdits, MaxFailures} \subseteq Nat

VARIABLES
  label,     \* the text of each label: the edit it is from, and its kind
  name,      \* the machine name: the edit its text is from, None if empty
  on,        \* labels whose changes are listened to
  link,      \* labels that show the link "Edit"
  edit,      \* labels whose machine name can be edited
  focus,     \* the label that has the focus, or None
  dirty,     \* whether its text has changed since
  timers,    \* in the order in which they end: all last 300 ms
  out,       \* the requests; "xhr" marks the one the variable xhr refers to
  edits, failures,
  typed,     \* auxiliary: the machine name the user gave, or None
  robbed,    \* auxiliary: labels whose event, timer or request was cancelled
             \* on account of another field
  failed,    \* auxiliary: labels with a request that failed
  overtaken, \* auxiliary: labels with a name from an older text
  exposed    \* auxiliary: labels that had something under way when the user
             \* went on to edit the name

aux  == <<typed, robbed, failed, overtaken, exposed>>
form == <<label, name, on, link, edit, focus, dirty>>
vars == <<form, timers, out, edits, failures, aux>>

\* "plain": its name is the text itself, in lower case; "symbols": its name
\* would be the replacement character alone.
Kinds  == {"empty", "plain", "other", "symbols"}
ASSUME KindsKnown == FirstKinds \cup TypedKinds \subseteq Kinds

Texts  == [n : 0 .. MaxEdits, kind : Kinds]
Names  == 0 .. MaxEdits \cup {None}
Timers == [what : {"formUpdated", "transliterate"}, form : Forms,
           f : Sources \cup {None}, text : Texts]

Nameless == [n |-> 0, kind |-> "empty"]

-----------------------------------------------------------------------------
(* Timers: Drupal.debounce() of a form, and the timer of the machine names.  *)

DebounceOf(F) == {i \in DOMAIN timers : /\ timers[i].what = "formUpdated"
                                        /\ timers[i].form = F}
NameTimer == {i \in DOMAIN timers : timers[i].what = "transliterate"}
InXhr     == {i \in DOMAIN out : out[i].xhr}

\* A finite set of numbers in their order; a sequence without the places in S.
Ordered(N) == [i \in 1 .. Cardinality(N) |->
                CHOOSE x \in N : Cardinality({y \in N : y < x}) = i - 1]
But(seq, S) == LET rest == Ordered(DOMAIN seq \ S)
               IN [i \in DOMAIN rest |-> seq[rest[i]]]

FieldsAt(seq, S) == {seq[i].f : i \in S} \ {None}

\* Something in form F has changed: label f or, for None, another field.
Debounce(F, f) ==
  /\ timers' = Append(But(timers, DebounceOf(F)),
                      [what |-> "formUpdated", form |-> F, f |-> f,
                       text |-> Nameless])
  /\ robbed' = robbed \cup (FieldsAt(timers, DebounceOf(F)) \ {f})

Transliterate(f, text) ==
  [what |-> "transliterate", form |-> FormOf[f], f |-> f, text |-> text]

\* Mutant: the request is not kept in xhr.
RequestForgotten(f, text, initial) ==
  [f |-> f, text |-> text, initial |-> initial, xhr |-> FALSE]

Request(f, text, initial) ==
  [f |-> f, text |-> text, initial |-> initial, xhr |-> ~initial]

-----------------------------------------------------------------------------
(* Attaching the behavior.                                                   *)

NameOf(text) == IF text.kind = "empty" THEN None ELSE text.n
Hard(text) == text.kind \in {"other", "symbols"}

\* attach(): a label is listened to if it has no name yet, and first handled
\* at once: an easy name is shown, a hard one gets the timer, which the next
\* label clears. The name of a text is asked for as well, outside of xhr. Where
\* the name has an error nothing is done, and it can be edited.
Attached(labels, names, wrong) ==
  LET fresh == {f \in Sources \ wrong : names[f] = None}
      asked == Ordered({f \in fresh : labels[f].kind # "empty"})
      last  == {f \in fresh : Hard(labels[f]) /\ \A g \in fresh : g <= f}
  IN [name   |-> [f \in Sources |->
                   IF f \in fresh /\ ~Hard(labels[f]) THEN NameOf(labels[f])
                   ELSE names[f]],
      on     |-> fresh,
      link   |-> {f \in Sources \ wrong : f \in fresh => labels[f].kind # "empty"},
      edit   |-> wrong,
      timers |-> [i \in 1 .. Cardinality(last) |->
                   LET f == CHOOSE f \in last : TRUE IN Transliterate(f, labels[f])],
      out    |-> [i \in DOMAIN asked |->
                   Request(asked[i], labels[asked[i]], TRUE)]]

Init ==
  /\ label \in [Sources -> [n : {0}, kind : FirstKinds]]
  /\ \E names \in [Sources -> {None, 0}], wrong \in SUBSET Sources :
       LET a == Attached(label, names, wrong) IN
       /\ \A f \in Sources : names[f] = 0 => label[f].kind # "empty"
       /\ name = a.name /\ on = a.on /\ link = a.link /\ edit = a.edit
       /\ timers = a.timers /\ out = a.out
  /\ focus = None /\ dirty = FALSE
  /\ edits = 0 /\ failures = 0
  /\ typed = [f \in Sources |-> None]
  /\ robbed = {} /\ failed = {} /\ overtaken = {} /\ exposed = {}

-----------------------------------------------------------------------------
(* The user.                                                                 *)

\* Leaving a label whose text has changed sends another event, "change".
MoveFocus(f) ==
  /\ focus # f
  /\ focus' = f /\ dirty' = FALSE
  /\ IF dirty THEN Debounce(FormOf[focus], focus) ELSE UNCHANGED <<timers, robbed>>
  /\ UNCHANGED <<label, name, on, link, edit, out, edits, failures, typed,
                 failed, overtaken, exposed>>

Type(f, kind) ==
  /\ focus = f /\ edits < MaxEdits /\ edits' = edits + 1
  /\ label' = [label EXCEPT ![f] =
       [n |-> IF kind = "empty" THEN 0 ELSE edits + 1, kind |-> kind]]
  /\ dirty' = TRUE
  /\ Debounce(FormOf[f], f)
  /\ UNCHANGED <<name, on, link, edit, focus, out, failures, typed,
                 failed, overtaken, exposed>>

\* Another field of the form.
TypeElsewhere(F) ==
  /\ focus = None /\ edits < MaxEdits /\ edits' = edits + 1
  /\ Debounce(F, None)
  /\ UNCHANGED <<label, name, on, link, edit, focus, dirty, out, failures,
                 typed, failed, overtaken, exposed>>

\* Something that will still show a name for label f.
UnderWay(f) ==
  \/ \E i \in NameTimer : timers[i].f = f
  \/ \E i \in DOMAIN out : out[i].f = f

\* Mutant: the label is still listened to.
StillOn(f) == on

\* $source.off('.machineName')
Off(f) == on \ {f}

\* clickEditHandler(): a click on the link, or a form that the browser does
\* not submit since a name is empty.
ClickEdit(f) ==
  /\ focus = None
  /\ f \in link \/ name[f] = None
  /\ f \in link \cup on
  /\ edit' = edit \cup {f} /\ link' = link \ {f} /\ on' = Off(f)
  /\ exposed' = IF UnderWay(f) THEN exposed \cup {f} ELSE exposed
  /\ UNCHANGED <<label, name, focus, dirty, timers, out, edits, failures,
                 typed, robbed, failed, overtaken>>

TypeName(f) ==
  /\ focus = None /\ f \in edit
  /\ edits < MaxEdits /\ edits' = edits + 1
  /\ name' = [name EXCEPT ![f] = edits + 1]
  /\ typed' = [typed EXCEPT ![f] = edits + 1]
  /\ Debounce(FormOf[f], None)
  /\ UNCHANGED <<label, on, link, edit, focus, dirty, out, failures,
                 failed, overtaken, exposed>>

-----------------------------------------------------------------------------
(* The browser and the site.                                                 *)

\* What showMachineName() leaves in the field: not the replacement alone.
Shown(f, text) ==
  CASE text.kind = "empty"   -> None
    [] text.kind = "symbols" -> name[f]
    [] OTHER                 -> text.n

ShowMachineName(f, text) ==
  /\ name' = [name EXCEPT ![f] = Shown(f, text)]
  /\ link' = IF text.kind = "empty" THEN link \ {f} ELSE link \cup {f}

\* Mutant: the request before is not aborted.
AbortNothing(f) == {}

\* The requests that a change of label f aborts.
Aborted(f) == InXhr

\* Mutant: only the timer of the label itself is cleared.
ClearedOwn(f) == {i \in NameTimer : timers[i].f = f}

\* The timers that it clears.
Cleared(f) == NameTimer

\* machineNameHandler()
Handle(f, rest) ==
  /\ out' = But(out, Aborted(f))
  /\ robbed' = (robbed \cup FieldsAt(out, Aborted(f))
                       \cup FieldsAt(timers, Cleared(f))) \ {f}
  /\ IF Hard(label[f])
     THEN /\ timers' = Append(rest, Transliterate(f, label[f]))
          /\ UNCHANGED <<name, link, overtaken, failed>>
     ELSE /\ timers' = rest
          /\ ShowMachineName(f, label[f])
          /\ overtaken' = overtaken \ {f} /\ failed' = failed \ {f}

\* The first timer ends: an event that nothing listens to, an event of a label,
\* or the request of the name of its text.
Elapse ==
  /\ timers # <<>>
  /\ LET t == Head(timers) IN
     \/ /\ t.what = "formUpdated" /\ t.f \notin on
        /\ timers' = But(timers, {1})
        /\ UNCHANGED <<name, link, out, robbed, failed, overtaken>>
     \/ /\ t.what = "formUpdated" /\ t.f \in on
        /\ Handle(t.f, But(timers, Cleared(t.f) \cup {1}))
     \/ /\ t.what = "transliterate"
        /\ timers' = But(timers, {1})
        /\ out' = Append([i \in DOMAIN out |-> [out[i] EXCEPT !.xhr = FALSE]],
                         Request(t.f, t.text, FALSE))
        /\ UNCHANGED <<name, link, robbed, failed, overtaken>>
  /\ UNCHANGED <<label, on, edit, focus, dirty, edits, failures, typed,
                 exposed>>

\* MachineNameController::transliterate() and the callback of its answer.
Answer(i) ==
  LET r == out[i] IN
  /\ ShowMachineName(r.f, r.text)
  /\ out' = But(out, {i})
  /\ overtaken' = IF r.initial /\ r.text # label[r.f] THEN overtaken \cup {r.f}
                  ELSE overtaken \ {r.f}
  /\ failed' = failed \ {r.f}
  /\ UNCHANGED <<label, on, edit, focus, dirty, timers, edits, failures,
                 typed, robbed, exposed>>

Fail(i) ==
  /\ failures < MaxFailures /\ failures' = failures + 1
  /\ out' = But(out, {i})
  /\ failed' = failed \cup {out[i].f}
  /\ UNCHANGED <<label, name, on, link, edit, focus, dirty, timers, edits,
                 typed, robbed, overtaken, exposed>>

-----------------------------------------------------------------------------
Next == \/ \E f \in Sources \cup {None} : MoveFocus(f)
        \/ \E f \in Sources, kind \in TypedKinds : Type(f, kind)
        \/ \E F \in Forms : TypeElsewhere(F)
        \/ \E f \in Sources : ClickEdit(f) \/ TypeName(f)
        \/ Elapse
        \/ \E i \in DOMAIN out : Answer(i) \/ Fail(i)

Spec == Init /\ [][Next]_vars

\* Timers end, and the oldest request is answered.
FairSpec == Spec /\ WF_vars(Elapse) /\ WF_vars(out # <<>> /\ (Answer(1) \/ Fail(1)))

-----------------------------------------------------------------------------
(* Properties.                                                               *)

\* The types, and what the shared variables are for: there is one timer and
\* one request at most, however many labels change.
TypeOK ==
  /\ label \in [Sources -> Texts] /\ name \in [Sources -> Names]
  /\ on \subseteq Sources /\ link \subseteq Sources /\ edit \subseteq Sources
  /\ focus \in Sources \cup {None} /\ dirty \in BOOLEAN
  /\ timers \in Seq(Timers)
  /\ out \in Seq([f : Sources, text : Texts, initial : BOOLEAN, xhr : BOOLEAN])
  /\ edits \in 0 .. MaxEdits /\ failures \in 0 .. MaxFailures
  /\ typed \in [Sources -> Names]
  /\ {robbed, failed, overtaken, exposed} \subseteq SUBSET Sources
  /\ \A F \in Forms : Cardinality(DebounceOf(F)) <= 1
  /\ Cardinality(NameTimer) <= 1
  /\ Cardinality({i \in DOMAIN out : ~out[i].initial}) <= 1

\* A name is never replaced by that of an older text, but by the answer to the
\* first request, which nothing aborts.
NeverBack ==
  [][\A f \in Sources :
       /\ None \notin {name[f], name'[f]} /\ name[f] # typed[f]
       /\ name'[f] < name[f]
       => \E i \in DOMAIN out : /\ out[i].initial /\ out[i].f = f
                                /\ out[i].text.n = name'[f]]_vars

\* The name that a user gave is only changed by the user ("only if there is no
\* machine name yet"), unless a timer or a request was under way for the label
\* when the user turned to the name: nothing cancels them.
TypedKept ==
  [][\A f \in Sources :
       /\ name[f] # None /\ name[f] = typed[f] /\ name'[f] # name[f]
       => name'[f] = typed'[f] \/ f \in exposed]_vars

\* The label shows the name of another text, and none of four things explains
\* it: its event, timer or request was cancelled for another field; its request
\* failed; the first request, of an older text, was answered last; or its text
\* has no name at all.
Behind(f) ==
  /\ f \in on \ (robbed \cup failed \cup overtaken)
  /\ label[f].kind # "symbols" /\ name[f] # NameOf(label[f])

\* It does so for a while only: when the timers have ended and the requests
\* are answered the name is that of the label's text.
CatchesUp == \A f \in Sources : Behind(f) ~> ~Behind(f)
=============================================================================
