------------------------------ MODULE QuickEdit ------------------------------
(* In-place editing, core/modules/quickedit/js: the user opens an entity of  *)
(* the page, edits its fields one after the other, and saves or closes it.   *)
(* An entity and its fields are state machines whose events set each other   *)
(* off at once, or later, by deferred tasks (_.defer) that the browser runs   *)
(* one by one, in order. An edited field is first stored in the server's     *)
(* PrivateTempStore, by a hidden or a visible form; saving the entity then   *)
(* commits the stored copy. Requests may overtake each other.                *)
EXTENDS Integers, Sequences, FiniteSets, SequencesExt

CONSTANTS Entities,     \* entities of the page, numbered in its order
          Fields,       \* their editable fields
          EntityOf,     \* the entity of a field
          FormFields,   \* fields edited in a form; the others in plain text
          None,
          MaxEdits,     \* bound on the edits, each one a new text
          MaxMishaps,   \* bound on requests that fail or find errors, and on
                        \* user events that come before the deferred tasks ran
          MaxRequests   \* no field is pointed at or clicked while so many are out

ASSUME EntitiesNumbered == Entities \subseteq Nat /\ IsFiniteSet(Entities)
ASSUME EveryFieldOwned == IsFiniteSet(Fields) /\ EntityOf \in [Fields -> Entities]
ASSUME FormsAreFields == FormFields \subseteq Fields
ASSUME Bounds == {MaxEdits, MaxMishaps, MaxRequests} \subseteq Nat

VARIABLES ui,        \* the models, views, tasks and requests of the page
          temp,      \* the PrivateTempStore copy of each entity, or None
          final,     \* the stored text of each field
          edits, mishaps,
          kept,      \* auxiliary: text the page was told is in the temp store
          racing,    \* auxiliary: fields whose text in the temp store the page
                     \* cannot know
          lost,      \* auxiliary: fields whose text a step threw away unasked
          untimely,  \* auxiliary: fields typed into too early or too late
          late,      \* auxiliary: fields that an answer came for when their
                     \* entity was being committed or left
          bypassed,  \* auxiliary: active fields that were not asked to yield
          discarded  \* auxiliary: texts the user chose not to save

vars == <<ui, temp, final, edits, mishaps, kept, racing, lost, untimely, late,
          bypassed, discarded>>

Texts == 0 .. MaxEdits
FieldsOf(e) == {f \in Fields : EntityOf[f] = e}

ASSUME NoneIsNothing ==
  /\ None \notin Fields /\ \A S \in SUBSET Fields : None # S
  /\ \A e \in Entities : \A copy \in [FieldsOf(e) -> Texts] : None # copy

\* FieldModel.states and EntityModel.states, in the order of their sequences.
FieldStates == <<"inactive", "candidate", "highlighted", "activating", "active",
                 "changed", "saving", "saved", "invalid">>
EntityStates == <<"closed", "launching", "opening", "opened", "committing",
                  "deactivating", "closing">>

\* How far the site is with a request.
Stages == {"sent", "loaded", "missing", "got", "stored", "saved", "done"}

Elements(seq) == {seq[i] : i \in DOMAIN seq}

Entity == [state : Elements(EntityStates), isActive : BOOLEAN, isDirty : BOOLEAN,
           inTempStore : BOOLEAN, isCommitting : BOOLEAN, reload : BOOLEAN]
Field == [state : Elements(FieldStates), views : BOOLEAN, form : BOOLEAN,
          text : Texts, orig : Texts]

\* The elements of a sequence at the places of a set, in order.
Chosen(seq, places) ==
  LET Upto[n \in 0 .. Len(seq)] ==
        IF n = 0 THEN <<>>
        ELSE IF n \in places THEN Append(Upto[n - 1], seq[n]) ELSE Upto[n - 1]
  IN Upto[Len(seq)]

\* followsStateSequence()
Follows(states, from, to) ==
  \E i \in DOMAIN states :
    states[i] = from /\ \E j \in i + 1 .. Len(states) : states[j] = to

Ready == {"candidate", "highlighted"}
Active == {"activating", "active"}

-----------------------------------------------------------------------------
(* Operators on the page s; each is what one call does before it returns.    *)

Defer(s, task) == [s EXCEPT !.tasks = Append(@, task)]
Send(s, kind, e, f, reset, text) ==
  [s EXCEPT !.out = Append(@, [kind |-> kind, e |-> e, f |-> f, reset |-> reset,
                               text |-> text, at |-> "sent", copy |-> None,
                               answer |-> "none", stale |-> FALSE])]

InTempStore(s, e) == IF s.own[e] = None THEN s.shared ELSE s.own[e]

\* Mutant: the fields of a view that is gone do not count.
AnyStates(s, e, accepted) == TRUE

\* _fieldsHaveAcceptableStates()
AcceptableStates(s, e, accepted) ==
  accepted = {} \/ \A f \in FieldsOf(e) : s.fld[f].state \in accepted

\* EditorView.save(): a plain text is saved through a hidden form.
LoadHiddenForm(s, f) ==
  Send(s, "load", EntityOf[f], f, ~s.ent[EntityOf[f]].inTempStore, 0)

\* EditorView.stateChange() of the field's editor.
EditorChange(s, f, from, to) ==
  IF ~s.fld[f].views THEN s ELSE
  CASE to = "candidate" /\ from # "inactive" /\ f \in FormFields ->
         [s EXCEPT !.fld[f].form = FALSE, !.fld[f].text = s.fld[f].orig]
    [] to = "activating" /\ f \notin FormFields ->
         Defer(s, [do |-> "activate", e |-> EntityOf[f], f |-> f, text |-> 0])
    [] to = "activating" /\ f \in FormFields /\ from # "invalid" ->
         Send(s, "edit", EntityOf[f], f, ~s.ent[EntityOf[f]].inTempStore, 0)
    [] to = "saving" /\ f \notin FormFields -> LoadHiddenForm(s, f)
    [] to = "saving" /\ f \in FormFields ->
         Send(s, "submit", EntityOf[f], f, FALSE, s.fld[f].text)
    [] OTHER -> s

\* _updateInTempStoreAttributes(): push() changes the array that the entity
\* has at the moment, which is at first the one of the defaults, shared by all
\* entities; set() then gives it an array of its own, unless it is committing.
UpdateTempStore(s, e, f) ==
  LET mutex == s.ent[e].isCommitting IN
  [s EXCEPT !.ent[e].inTempStore = IF mutex THEN @ ELSE TRUE,
            !.shared = IF s.own[e] = None THEN @ \cup {f} ELSE @,
            !.own[e] = IF mutex /\ @ = None THEN None
                       ELSE InTempStore(s, e) \cup {f}]

\* entityModel.set('isCommitting', true): the mutex, and every field ready.
TryCommit(s, e) ==
  IF ~s.ent[e].isCommitting /\ AcceptableStates(s, e, Ready)
  THEN Send([s EXCEPT !.ent[e].isCommitting = TRUE], "commit", e, None, FALSE, 0)
  ELSE s

DeferEntity(s, what, e) == Defer(s, [do |-> what, e |-> e, f |-> None, text |-> 0])

\* EntityModel.fieldStateChange()
FieldStateChange(s, f, to) ==
  LET e == EntityOf[f]  state == s.ent[e].state IN
  CASE state = "opening" -> DeferEntity(s, "opened", e)
    [] state = "opened" /\ to = "changed" ->
         IF s.ent[e].isCommitting THEN s ELSE [s EXCEPT !.ent[e].isDirty = TRUE]
    [] state = "opened" /\ to = "saved" -> UpdateTempStore(s, e, f)
    [] state = "committing" ->
         TryCommit(CASE to = "invalid" -> DeferEntity(s, "invalid", e)
                     [] to = "saved" -> UpdateTempStore(s, e, f)
                     [] OTHER -> s, e)
    [] state = "deactivating" -> DeferEntity(s, "closing", e)
    [] state = "closing" -> DeferEntity(s, "closed", e)
    [] OTHER -> s

\* AppView.editorStateChange(): the active field, and revert() for plain text.
EditorStateChange(s, f, from, to) ==
  CASE to \in Active -> [s EXCEPT !.activeField = f]
    [] to = "candidate" /\ s.activeField = f ->
         [s EXCEPT !.activeField = None,
                   !.fld[f].text = IF from \in {"changed", "invalid"}
                                   THEN s.fld[f].orig ELSE @]
    [] OTHER -> s

\* All the listeners of a field's change:state.
Heard(s, f, from, to) ==
  EditorStateChange(
    FieldStateChange(EditorChange(s, f, from, to), f, to), f, from, to)

Changed(s, f, to) ==
  Heard([s EXCEPT !.fld[f].state = to], f, s.fld[f].state, to)

\* The transitions acceptEditorStateChange() knows.
Transition(from, to) ==
  \/ Follows(FieldStates, from, to)
  \/ to = "candidate" /\ from \in {"highlighted", "changed", "saved", "invalid"} \cup Active
  \/ from = "invalid" /\ to \in {"saving", "activating"}

\* fieldModel.set('state', to, {reason}) to a state that is not active.
SetField(s, f, to, reason) ==
  LET from == s.fld[f].state IN
  IF \/ from = to
     \/ reason \notin {"stop", "rerender"}
        /\ \/ ~Transition(from, to)
           \/ /\ reason = "mouseleave" /\ to = "candidate"
              /\ from \in {"changed", "invalid"} \cup Active
  THEN s ELSE Changed(s, f, to)

\* Mutant: the field is left as it is.
LetBe(s, f) == s

\* Mutant: an edited field is left without saving it.
YieldDropping(s, f) == SetField(s, f, "candidate", "")

\* What another field becoming active does to the one that is.
Yield(s, f) ==
  CASE s.fld[f].state \in Active -> SetField(s, f, "candidate", "")
    [] s.fld[f].state \in {"changed", "invalid"} -> SetField(s, f, "saving", "")
    [] OTHER -> s

\* fieldModel.set('state', to) with an active state.
Activate(s, f, to) ==
  LET from  == s.fld[f].state
      other == s.activeField
      takes == from \in Ready \cup {"invalid"} /\ other \notin {None, f}
      t     == IF takes THEN Yield(s, other) ELSE s
  IN IF from = to \/ ~Transition(from, to) THEN s
     ELSE IF takes /\ from = "invalid" THEN [t EXCEPT !.activeField = f]
     ELSE Changed(t, f, to)

-----------------------------------------------------------------------------
(* Entities: what entityModel.set('state', to, options) does.                *)

\* _acceptStateChange()
AcceptStateChange(from, to, why) ==
  \/ Follows(EntityStates, from, to)
  \/ from = "closing" /\ to = "closed"
  \/ from = "committing" /\ to = "opened" /\ why \in {"invalid", "networkerror"}
  \/ from = "deactivating" /\ to = "opened" /\ why = "confirming"

\* Mutant: isCommitting does not hold the other attributes.
AcceptsWhileCommitting(s, e, to, why, accepted) ==
  /\ s.ent[e].state # to
  /\ AcceptStateChange(s.ent[e].state, to, why)
  /\ AcceptableStates(s, e, accepted)

\* EntityModel.validate(): while isCommitting holds no attribute can be set.
Accepts(s, e, to, why, accepted) ==
  /\ ~s.ent[e].isCommitting
  /\ s.ent[e].state # to
  /\ AcceptStateChange(s.ent[e].state, to, why)
  /\ AcceptableStates(s, e, accepted)

Put(s, e, state) == [s EXCEPT !.ent[e].state = state]

\* A field of an entity that is left; a ready one only says so again, for the
\* entity to hear.
Released(s, f, why) ==
  IF s.fld[f].state \in Ready THEN Heard(s, f, s.fld[f].state, s.fld[f].state)
  ELSE SetField(s, f, "candidate", why)

\* What an entity has one of its fields do, and all of them in turn.
Told(s, f, what, why) ==
  CASE what = "offer"   -> SetField(s, f, "candidate", "")
    [] what = "leave"   -> IF s.fld[f].state = "active"
                           THEN SetField(s, f, "candidate", "") ELSE s
    [] what = "save"    -> IF s.fld[f].state \in {"changed", "invalid"}
                           THEN SetField(s, f, "saving", "") ELSE s
    [] what = "release" -> Released(s, f, why)
    [] what = "stop"    -> SetField(s, f, "inactive", "stop")
TellAll(s, e, what, why) ==
  FoldSet(LAMBDA f, t : Told(t, f, what, why), s, FieldsOf(e))

\* stateChange() to deactivating: back to opened and ask, or release the fields.
Deactivated(s, e, why) ==
  LET t == Put(s, e, "deactivating")
      In(states) == {f \in FieldsOf(e) : t.fld[f].state \in states}
  IN IF /\ In({"changed", "invalid"}) # {} \/ InTempStore(t, e) # {}
        /\ why \notin {"saved", "confirmed"}
     THEN DeferEntity(Put(t, e, "opened"), "confirm", e)
     ELSE TellAll([t EXCEPT !.ent[e].reload =
                     InTempStore(t, e) # {} \/ In({"invalid"}) # {}],
                  e, "release", why)

Deactivate(s, e, why) ==
  IF Accepts(s, e, "deactivating", why, {}) THEN Deactivated(s, e, why) ELSE s

\* enforceSingleActiveEntity()
DeactivateOthers(s, e) ==
  FoldSet(LAMBDA o, t : IF t.ent[o].isActive THEN Deactivate(t, o, "") ELSE t,
          s, Entities \ {e})

\* stateChange() to opened.
Open(s, e, why, accepted) ==
  IF ~Accepts(s, e, "opened", why, accepted) THEN s
  ELSE IF s.ent[e].isActive THEN Put(s, e, "opened")
  ELSE DeactivateOthers([Put(s, e, "opened") EXCEPT !.ent[e].isActive = TRUE], e)

\* stateChange() to committing: active fields are left, changed ones are saved.
Commit(s, e) ==
  IF ~Accepts(s, e, "committing", "", {}) THEN s
  ELSE TellAll(TellAll(Put(s, e, "committing"), e, "leave", ""), e, "save", "")

\* stateChange() to opening: all fields become candidates.
Opening(s, e) ==
  IF ~Accepts(s, e, "opening", "", {}) THEN s
  ELSE TellAll(Put(s, e, "opening"), e, "offer", "")

\* stateChange() to closing: all fields are stopped.
Closing(s, e) ==
  IF ~Accepts(s, e, "closing", "", Ready) THEN s
  ELSE TellAll(Put(s, e, "closing"), e, "stop", "")

\* setupEditor() and teardownEditor(): the views of some fields.
SetViews(s, S, on) ==
  [s EXCEPT !.fld = [f \in Fields |->
     IF f \in S THEN [@[f] EXCEPT !.views = on, !.form = FALSE] ELSE @[f]]]

\* stateChange() to closed, then appStateChange(), which may reload the page.
Closed(s, e) ==
  IF ~Accepts(s, e, "closed", "", {"inactive"}) THEN s
  ELSE SetViews([Put(s, e, "closed") EXCEPT !.ent[e].isActive = FALSE,
                                            !.ent[e].inTempStore = FALSE,
                                            !.ent[e].isDirty = FALSE,
                                            !.loading = s.reload],
                FieldsOf(e), FALSE)

\* appStateChange() to launching: the app's reload flag is cleared, the editors
\* are set up, the rest is deferred.
Launch(s, e) ==
  DeferEntity(SetViews([Put(s, e, "launching") EXCEPT !.reload = FALSE],
                       FieldsOf(e), TRUE), "opening", e)

\* renderField() and what follows it: the old model is gone with its views and
\* with what was to become of it, and stands for no field where it is still the
\* active one; the new field joins the active entity.
Rerendered(s, f, text) ==
  LET e    == EntityOf[f]
      mine == {o \in Entities : s.ent[o].isActive}
      t    == [s EXCEPT
                 !.fld[f] = [state |-> "inactive", views |-> FALSE, form |-> FALSE,
                             text |-> text, orig |-> text],
                 !.activeField = IF @ = f THEN None ELSE @,
                 !.tasks = Chosen(@, {i \in DOMAIN s.tasks : s.tasks[i].f # f}),
                 !.out = [i \in DOMAIN @ |->
                           IF @[i].f = f THEN [@[i] EXCEPT !.stale = TRUE] ELSE @[i]]]
  IN IF mine # {} /\ e = Min(mine)
     THEN SetField(SetViews(t, {f}, TRUE), f, "candidate", "") ELSE t

-----------------------------------------------------------------------------
(* A page as the server renders it.                                          *)

Fresh(stored) ==
  [ent |-> [e \in Entities |->
              [state |-> "closed", isActive |-> FALSE, isDirty |-> FALSE,
               inTempStore |-> FALSE, isCommitting |-> FALSE, reload |-> FALSE]],
   fld |-> [f \in Fields |->
              [state |-> "inactive", views |-> FALSE, form |-> FALSE,
               text |-> stored[f], orig |-> stored[f]]],
   own |-> [e \in Entities |-> None], shared |-> {},
   activeField |-> None, activeModal |-> None,
   reload |-> FALSE, loading |-> FALSE, tasks |-> <<>>, out |-> <<>>]

\* The tasks that render field f again, with a text that the site answered.
Renderings(s, f) ==
  {k \in Elements(s.tasks) : k.do \in {"render", "candidate", "inactive"} /\ k.f = f}

\* Fields with a text on page s that they have lost on page t, and that is not
\* the one they are rendered with. A text that was invalid, in a field that is
\* taken up again, is not counted: the code forgets that there is one.
Reverted(s, t) ==
  {f \in Fields : /\ s.fld[f].text # s.fld[f].orig /\ t.fld[f].text # s.fld[f].text
                  /\ \A k \in Renderings(s, f) : k.text # s.fld[f].text
                  /\ s.fld[f].state \notin Active}

\* Fields that are active although another one was activated meanwhile: one
\* that was not ready, or invalid, and so asked nobody to yield.
Bypassed(s, t) ==
  {f \in Fields :
     /\ t.fld[f].state \in Active
     /\ \/ f \in bypassed
        \/ /\ f = s.activeField /\ t.activeField \notin {None, f}
           /\ s.fld[t.activeField].state \notin Ready \cup {"invalid"}}

\* A step of the page that must not throw an edit away.
Show(t) == /\ ui' = t
           /\ bypassed' = Bypassed(ui, t)
           /\ lost' = lost \cup (Reverted(ui, t) \ (untimely \cup racing \cup late))
           /\ untimely' = {f \in untimely : t.fld[f].text # t.fld[f].orig}

ServerSame ==
  UNCHANGED <<temp, final, kept, racing, late, discarded>>

-----------------------------------------------------------------------------
(* The user. A dialog covers the page; a page that reloads takes no events.  *)

Idle == /\ ~ui.loading /\ ui.activeModal = None
        /\ \/ ui.tasks = <<>> /\ UNCHANGED mishaps
           \/ ui.tasks # <<>> /\ mishaps < MaxMishaps /\ mishaps' = mishaps + 1

\* ContextualLinkView: a click on Quick edit.
ClickQuickEdit(e) ==
  /\ ui.ent[e].state = "closed" /\ Idle
  /\ Show(Launch(ui, e)) /\ UNCHANGED edits /\ ServerSame

\* FieldDecorationView: the mouse comes, goes, clicks.
MouseEnter(f) ==
  /\ ui.fld[f].views /\ Len(ui.out) < MaxRequests /\ Idle
  /\ Show(SetField(ui, f, "highlighted", "")) /\ UNCHANGED edits /\ ServerSame

MouseLeave(f) ==
  /\ ui.fld[f].views /\ Idle
  /\ Show(SetField(ui, f, "candidate", "mouseleave"))
  /\ UNCHANGED edits /\ ServerSame

Click(f) ==
  /\ ui.fld[f].views /\ Len(ui.out) < MaxRequests /\ Idle
  /\ Show(Activate(ui, f, "activating")) /\ UNCHANGED edits /\ ServerSame

\* Typing: in the text itself while it is contenteditable, or in the form.
Typed(s, f, text) ==
  LET t == [s EXCEPT !.fld[f].text = text] IN
  IF f \in FormFields /\ s.fld[f].state = "invalid"
  THEN Activate(t, f, "activating") ELSE SetField(t, f, "changed", "")

\* An edit that the page will not keep: its entity is not open, or the field is
\* to be rendered again with the text that was sent before.
Untimely(f) ==
  \/ ui.ent[EntityOf[f]].state # "opened"
  \/ ui.fld[f].state \in {"saving", "saved"} \/ Renderings(ui, f) # {}

Edit(f) ==
  LET t == Typed(ui, f, edits + 1) IN
  /\ ui.fld[f].views /\ edits < MaxEdits
  /\ IF f \in FormFields THEN ui.fld[f].form
     ELSE ui.fld[f].state \in {"active", "changed", "saving", "saved", "invalid"}
  /\ Idle
  /\ edits' = edits + 1
  /\ ui' = t
  /\ bypassed' = Bypassed(ui, t)
  /\ lost' = lost \cup (Reverted(ui, t) \ (untimely \cup racing \cup late \cup {f}))
  /\ untimely' = IF Untimely(f) THEN untimely \cup {f} ELSE untimely \ {f}
  /\ ServerSame

\* EntityToolbarView: the buttons; Save shows when the entity is dirty.
ClickSave(e) ==
  /\ ui.ent[e].state = "opened" /\ ui.ent[e].isDirty /\ Idle
  /\ Show(Commit(ui, e)) /\ UNCHANGED edits /\ ServerSame

ClickClose(e) ==
  /\ ui.ent[e].isActive /\ Idle
  /\ Show(Deactivate(ui, e, "")) /\ UNCHANGED edits /\ ServerSame

\* The dialog of confirmEntityDeactivation().
Confirm ==
  /\ ~ui.loading /\ ui.activeModal # None
  /\ Show(Commit([ui EXCEPT !.activeModal = None], ui.activeModal))
  /\ UNCHANGED <<edits, mishaps>> /\ ServerSame

\* The page is to be reloaded when the entity says so.
MarkReload(s, e) ==
  IF s.ent[e].reload THEN [s EXCEPT !.reload = TRUE, !.ent[e].reload = FALSE] ELSE s

Discard ==
  /\ ~ui.loading /\ ui.activeModal # None
  /\ LET e == ui.activeModal
         t == Deactivate([ui EXCEPT !.activeModal = None], e, "confirmed")
     IN /\ ui' = MarkReload(t, e)
        /\ bypassed' = Bypassed(ui, ui')
        /\ kept' = [f \in Fields |-> IF EntityOf[f] = e THEN None ELSE kept[f]]
        /\ discarded' = discarded \cup
             {ui.fld[f].text : f \in {g \in FieldsOf(e) : ui.fld[g].text # final[g]}}
  /\ UNCHANGED <<temp, final, edits, mishaps, racing, lost, untimely, late>>

-----------------------------------------------------------------------------
(* The browser: the first deferred task, and the answers to requests.        *)

Run(s, k) ==
  CASE k.do = "opening"   -> Opening(s, k.e)
    [] k.do = "opened"    -> Open(s, k.e, "", Ready)
    [] k.do = "invalid"   -> Open(s, k.e, "invalid", {})
    [] k.do = "closing"   -> Closing(s, k.e)
    [] k.do = "closed"    -> Closed(s, k.e)
    [] k.do = "confirm"   -> IF s.activeModal = None
                             THEN [s EXCEPT !.activeModal = k.e] ELSE s
    [] k.do = "activate"  -> Activate(s, k.f, "active")
    [] k.do = "render"    -> Defer(s, [k EXCEPT !.do = "candidate"])
    [] k.do = "candidate" -> Defer(SetField(s, k.f, "candidate", ""),
                                   [k EXCEPT !.do = "inactive"])
    [] k.do = "inactive"  -> Rerendered(SetField(s, k.f, "inactive", "rerender"),
                                        k.f, k.text)

RunTask ==
  /\ ~ui.loading /\ ui.tasks # <<>>
  /\ Show(Run([ui EXCEPT !.tasks = Tail(@)], Head(ui.tasks)))
  /\ UNCHANGED <<edits, mishaps>> /\ ServerSame

\* What the page does with the answer to request r; a form that does not load
\* takes back the active field, whichever that is.
Receive(s, r) ==
  IF r.kind \in {"edit", "load"} /\ r.answer = "error"
  THEN IF s.activeField = None THEN s
       ELSE SetField(s, s.activeField, "candidate", "")
  ELSE IF r.stale THEN s ELSE
  CASE r.kind = "edit" /\ r.answer = "ok" ->
         Activate([s EXCEPT !.fld[r.f].form = s.fld[r.f].state \in Active], r.f, "active")
    [] r.kind = "load" /\ r.answer = "ok" ->
         Send(s, "submit", r.e, r.f, FALSE, s.fld[r.f].text)
    [] r.kind = "submit" /\ r.answer = "ok" ->
         Defer(SetField(s, r.f, "saved", ""),
               [do |-> IF r.f \in FormFields THEN "render" ELSE "candidate",
                e |-> r.e, f |-> r.f, text |-> r.copy[r.f]])
    [] r.kind = "submit" /\ r.answer = "invalid" -> SetField(s, r.f, "invalid", "")
    [] r.kind = "submit" /\ r.answer = "error" -> s
    [] r.kind = "commit" /\ r.answer = "ok" ->
         Deactivated([s EXCEPT !.ent[r.e].isCommitting = FALSE], r.e, "saved")
    [] r.kind = "commit" /\ r.answer = "error" ->
         Open([s EXCEPT !.ent[r.e].isCommitting = FALSE], r.e, "networkerror", {})

\* A load of the same entity that will reset the temp store.
ResetComing(e) ==
  \E i \in DOMAIN ui.out : /\ ui.out[i].e = e /\ ui.out[i].reset
                          /\ ui.out[i].answer = "none"
                          /\ ui.out[i].at \in {"sent", "loaded"}

\* A submit of the same field that is still to be served and has an older text:
\* one of before the field was rendered again, or the page reloaded.
OlderComing(r) ==
  \E i \in DOMAIN ui.out : /\ ui.out[i].kind = "submit" /\ ui.out[i].f = r.f
                          /\ ui.out[i].text < r.text /\ ui.out[i].answer = "none"

\* A request that has read a copy of its entity, and is to write it.
ToWrite(o) == o.at = "missing" \/ (o.at = "got" /\ o.kind \in {"submit", "commit"})

\* One of the same entity whose copy has an older text of the field, or a commit
\* of before the page was reloaded.
OlderHeld(r) ==
  \E i \in DOMAIN ui.out :
    /\ ui.out[i].e = r.e /\ ui.out[i].answer = "none"
    /\ \/ ui.out[i].kind = "commit"
       \/ ToWrite(ui.out[i]) /\ ui.out[i].copy[r.f] < r.text

StoredIn(e, f, text) == temp[e] # None /\ temp[e][f] >= text

\* What answer r is too late for.
Belated(r) ==
  IF r.answer # "ok" \/ (r.stale <=> r.kind # "commit") THEN {}
  ELSE IF r.kind = "commit" THEN FieldsOf(r.e)
  ELSE IF ui.ent[r.e].state \in {"opened", "committing"}
          /\ ~ui.ent[r.e].isCommitting THEN {} ELSE {r.f}

Answer(i) ==
  LET r == ui.out[i]
      t == Receive([ui EXCEPT !.out = RemoveAt(@, i)], r)
      stored == /\ r.kind = "submit" /\ r.answer = "ok" /\ ~r.stale
                /\ ui.ent[r.e].state \in {"opened", "committing"}
  IN /\ ~ui.loading /\ r.answer # "none"
     /\ ui' = t
     /\ bypassed' = Bypassed(ui, t)
     /\ kept' = IF stored THEN [kept EXCEPT ![r.f] = r.text] ELSE kept
     /\ racing' = IF ~stored THEN racing
                  ELSE IF \/ ResetComing(r.e) \/ OlderComing(r) \/ OlderHeld(r)
                          \/ ~StoredIn(r.e, r.f, r.text)
                       THEN racing \cup {r.f} ELSE racing \ {r.f}
     /\ lost' = IF r.kind \in {"edit", "load"} /\ r.answer = "error" THEN lost
                ELSE lost \cup (Reverted(ui, t) \ (untimely \cup racing \cup late))
     /\ late' = late \cup Belated(r)
     /\ UNCHANGED <<temp, final, edits, mishaps, untimely, discarded>>

\* window.location.reload(): requests that were not served may still be.
Reload ==
  LET out == Chosen(ui.out, {i \in DOMAIN ui.out : ui.out[i].answer = "none"}) IN
  /\ ui.loading
  /\ ui' = [Fresh(final) EXCEPT !.out =
              [i \in DOMAIN out |-> [out[i] EXCEPT !.stale = TRUE]]]
  /\ kept' = [f \in Fields |-> None] /\ racing' = {} /\ late' = {}
  /\ bypassed' = {} /\ untimely' = {}
  /\ UNCHANGED <<temp, final, edits, mishaps, lost, discarded>>

-----------------------------------------------------------------------------
(* The site: QuickEditController::fieldForm() and entitySave(). A request      *)
(* reads the entity or its copy, and writes it later; nothing is locked in      *)
(* between. It may fail at any place, which the page sees as an error.         *)

At(i, at, copy) == ui' = [ui EXCEPT !.out[i] = [@ EXCEPT !.at = at, !.copy = copy]]
Reply(i, answer, copy) ==
  ui' = [ui EXCEPT !.out[i] = [@ EXCEPT !.at = "done", !.copy = copy, !.answer = answer]]

\* The entity of the request's path.
LoadEntity(i) ==
  LET e == ui.out[i].e IN
  /\ ui.out[i].at = "sent" /\ ui.out[i].kind # "commit"
  /\ At(i, "loaded", [f \in FieldsOf(e) |-> final[f]])
  /\ UNCHANGED <<temp, final, mishaps, kept>>

\* Mutant: a form that is not told to reset starts over as well.
GetFresh(i) ==
  /\ ui.out[i].at = "loaded"
  /\ At(i, "missing", ui.out[i].copy)
  /\ UNCHANGED <<temp, final, mishaps, kept>>

\* The copy in the temp store, if there is one and it is not to be reset.
GetCopy(i) ==
  LET r == ui.out[i] IN
  /\ r.at = "loaded"
  /\ IF temp[r.e] = None \/ r.reset THEN At(i, "missing", r.copy)
     ELSE At(i, "got", temp[r.e])
  /\ UNCHANGED <<temp, final, mishaps, kept>>

InitCopy(i) ==
  /\ ui.out[i].at = "missing"
  /\ temp' = [temp EXCEPT ![ui.out[i].e] = ui.out[i].copy]
  /\ At(i, "got", ui.out[i].copy)
  /\ UNCHANGED <<final, mishaps, kept>>

ServeForm(i) ==
  /\ ui.out[i].at = "got" /\ ui.out[i].kind \in {"edit", "load"}
  /\ Reply(i, "ok", None)
  /\ UNCHANGED <<temp, final, mishaps, kept>>

\* QuickEditFieldForm::validateForm() finds errors.
Reject(i) ==
  /\ ui.out[i].at = "got" /\ ui.out[i].kind = "submit"
  /\ mishaps < MaxMishaps /\ mishaps' = mishaps + 1
  /\ Reply(i, "invalid", None)
  /\ UNCHANGED <<temp, final, kept>>

\* QuickEditFieldForm::submitForm()
StoreCopy(i) ==
  LET r == ui.out[i] IN
  /\ r.at = "got" /\ r.kind = "submit"
  /\ temp' = [temp EXCEPT ![r.e] = [r.copy EXCEPT ![r.f] = r.text]]
  /\ At(i, "stored", None)
  /\ UNCHANGED <<final, mishaps, kept>>

\* The field is shown as it is in the temp store now.
ServeSubmit(i) ==
  LET r == ui.out[i] IN
  /\ r.at = "stored"
  /\ IF temp[r.e] = None THEN Reply(i, "error", None) ELSE Reply(i, "ok", temp[r.e])
  /\ UNCHANGED <<temp, final, mishaps, kept>>

\* entitySave(): the copy is read, saved, and deleted.
GetToSave(i) ==
  LET r == ui.out[i] IN
  /\ r.at = "sent" /\ r.kind = "commit"
  /\ IF temp[r.e] = None THEN Reply(i, "error", None) ELSE At(i, "got", temp[r.e])
  /\ UNCHANGED <<temp, final, mishaps, kept>>

SaveEntity(i) ==
  LET r == ui.out[i] IN
  /\ r.at = "got" /\ r.kind = "commit"
  /\ final' = [f \in Fields |-> IF EntityOf[f] = r.e THEN r.copy[f] ELSE final[f]]
  /\ kept' = [f \in Fields |->
                IF EntityOf[f] = r.e /\ kept[f] # None /\ r.copy[f] >= kept[f]
                THEN None ELSE kept[f]]
  /\ At(i, "saved", None)
  /\ UNCHANGED <<temp, mishaps>>

ServeCommit(i) ==
  /\ ui.out[i].at = "saved"
  /\ temp' = [temp EXCEPT ![ui.out[i].e] = None]
  /\ \/ Reply(i, "ok", None) /\ UNCHANGED mishaps
     \/ Reply(i, "error", None) /\ mishaps < MaxMishaps /\ mishaps' = mishaps + 1
  /\ UNCHANGED <<final, kept>>

\* The network or the website fails.
Fail(i) ==
  /\ mishaps < MaxMishaps /\ mishaps' = mishaps + 1
  /\ Reply(i, "error", None)
  /\ UNCHANGED <<temp, final, kept>>

Serve(i) ==
  /\ ui.out[i].answer = "none"
  /\ \/ LoadEntity(i) \/ GetCopy(i) \/ InitCopy(i) \/ ServeForm(i)
     \/ Reject(i) \/ StoreCopy(i) \/ ServeSubmit(i)
     \/ GetToSave(i) \/ SaveEntity(i) \/ ServeCommit(i)
     \/ Fail(i)
  /\ UNCHANGED <<edits, racing, lost, untimely, late, bypassed, discarded>>

-----------------------------------------------------------------------------
Init ==
  /\ final = [f \in Fields |-> 0]
  /\ ui = Fresh(final)
  /\ temp = [e \in Entities |-> None]
  /\ edits = 0 /\ mishaps = 0
  /\ kept = [f \in Fields |-> None]
  /\ racing = {} /\ lost = {} /\ untimely = {} /\ late = {} /\ bypassed = {}
  /\ discarded = {}

User == \/ \E e \in Entities : ClickQuickEdit(e) \/ ClickSave(e) \/ ClickClose(e)
        \/ \E f \in Fields : MouseEnter(f) \/ MouseLeave(f) \/ Click(f) \/ Edit(f)
        \/ Confirm
        \/ Discard

Next == \/ User
        \/ RunTask
        \/ \E i \in DOMAIN ui.out : Answer(i)
        \/ \E i \in DOMAIN ui.out : Serve(i)
        \/ Reload

Spec == Init /\ [][Next]_vars

-----------------------------------------------------------------------------
(* Properties.                                                               *)

\* The types, and the mutex: an entity whose commit is under way stays in the
\* state "committing" until the answer comes, whatever the fields and the user
\* do (EntityModel.validate() refuses every other change).
TypeOK ==
  /\ ui.ent \in [Entities -> Entity] /\ ui.fld \in [Fields -> Field]
  /\ ui.own \in [Entities -> {None} \cup SUBSET Fields] /\ ui.shared \subseteq Fields
  /\ ui.activeField \in Fields \cup {None} /\ ui.activeModal \in Entities \cup {None}
  /\ ui.reload \in BOOLEAN /\ ui.loading \in BOOLEAN
  /\ \A i \in DOMAIN ui.out :
       /\ ui.out[i].kind \in {"edit", "load", "submit", "commit"} /\ ui.out[i].at \in Stages
       /\ ui.out[i].copy \in [FieldsOf(ui.out[i].e) -> Texts] \cup {None}
  /\ \A e \in Entities : temp[e] \in [FieldsOf(e) -> Texts] \cup {None}
  /\ final \in [Fields -> Texts] /\ edits \in Texts /\ mishaps \in 0 .. MaxMishaps
  /\ kept \in [Fields -> Texts \cup {None}]
  /\ {racing, lost, untimely, late, bypassed} \subseteq SUBSET Fields
  /\ discarded \subseteq Texts
  /\ \A e \in Entities : ui.ent[e].isCommitting => ui.ent[e].state = "committing"

\* At most one field is taken up or active, of whatever entity: whoever
\* activates another one makes the first yield (acceptEditorStateChange()).
\* But a field that is inactive asks nobody: one of an entity that is still
\* "closing" because another of its fields was rendered again, or one whose form
\* arrives when its entity was left.
OneEditor ==
  Cardinality({f \in Fields \ bypassed : ui.fld[f].state \in Active}) <= 1

\* What the page was told is stored is in the temp store until a commit has saved
\* it: no later form, no submit of another field and no commit throws it away.
\* Excepted are the fields for which, when the answer came, something was still
\* to overwrite the text: a form that resets the copy, an older submit of the
\* field, a request that had read the copy before (fieldForm() locks nothing), a
\* commit of before the page was reloaded; and those whose answer came when the
\* entity was being committed or left.
KeptIsStored ==
  \A f \in Fields \ (racing \cup late) :
    kept[f] # None => StoredIn(EntityOf[f], f, kept[f])

\* No step throws away a text that was typed and is not stored, unless the user
\* asked for it (Discard, and the reload of the page that follows). Excepted are
\* texts typed when the entity was not open, or the field was still to be
\* rendered with what was sent before (untimely); texts that were answered, but
\* overwritten on the site (racing) or answered when the entity was left (late);
\* the active field, when a form does not load; and a rejected text whose field
\* is taken up again (Reverted).
NoSilentLoss == lost = {}

\* The fields of a closed entity are inactive, except where the answer to a
\* form or a submit came after the entity was left.
ClosedIsInactive ==
  \A f \in Fields \ late :
    ui.ent[EntityOf[f]].state = "closed" => ui.fld[f].state = "inactive"

\* "Editing has been canceled and the changes will not be saved", says the
\* dialog's code: a text the user discarded never becomes the stored one. It
\* does: nothing tells the site to drop its copy. In the next session the list of
\* fields in the temp store, an array that entities share, has Close ask again
\* for an entity of which nothing was changed; Save then commits the old copy.
DiscardedNotSaved == \A f \in Fields : final[f] \notin discarded
=============================================================================
