--------------------------- MODULE QuickEditProofs ---------------------------
(* Proofs about QuickEdit: the types and the commit mutex of the page, that    *)
(* one field at most is edited, that what was stored stays stored, and that    *)
(* the fields of a closed entity are inactive. Each operator on a page is      *)
(* shown to map the pages of a set of good pages into that set.                *)
EXTENDS QuickEdit, FiniteSetTheorems, WellFoundedInduction, TLAPS

OnFields == {"activate", "render", "candidate", "inactive"}
OnEntities == {"opening", "opened", "invalid", "closing", "closed", "confirm"}
Task == {k \in [do : OnFields \cup OnEntities, e : Entities,
                f : Fields \cup {None}, text : Texts] :
           k.do \in OnFields => k.f \in Fields}

\* What a request has read of its entity.
Copies == {None} \cup UNION {[FieldsOf(e) -> Texts] : e \in Entities}
CopyFits(r) ==
  /\ r.copy # None => r.copy \in [FieldsOf(r.e) -> Texts]
  /\ r.answer = "none" /\ r.at \in {"loaded", "missing", "got"} => r.copy # None
  /\ r.answer = "ok" /\ r.kind = "submit" => r.copy # None
  /\ r.at \in {"loaded", "missing", "stored"} => r.kind # "commit"
  /\ r.at = "saved" => r.kind = "commit"

Request == {r \in [kind : {"edit", "load", "submit", "commit"}, e : Entities,
                   f : Fields \cup {None}, reset : BOOLEAN, text : Texts,
                   at : Stages, copy : Copies,
                   answer : {"none", "ok", "invalid", "error"}, stale : BOOLEAN] :
              /\ r.kind # "commit" => r.f \in Fields /\ r.e = EntityOf[r.f]
              /\ r.kind = "commit" => r.f = None
              /\ r.answer = "invalid" => r.kind = "submit"
              /\ CopyFits(r)}

Page == [ent : [Entities -> Entity], fld : [Fields -> Field],
         own : [Entities -> {None} \cup SUBSET Fields], shared : SUBSET Fields,
         activeField : Fields \cup {None}, activeModal : Entities \cup {None},
         reload : BOOLEAN, loading : BOOLEAN, tasks : Seq(Task), out : Seq(Request)]

\* The fields that are taken up or active.
Acting(s) == {f \in Fields : s.fld[f].state \in Active}

\* An entity whose commit is under way is in the state "committing".
Held(s) == \A e \in Entities : s.ent[e].isCommitting => s.ent[e].state = "committing"

\* Pages on which only fields of A are active, and activeField is a.
Good(A, a) == {s \in Page : Held(s) /\ Acting(s) \subseteq A /\ s.activeField = a}

\* Pages on which the active fields are activeField and some of B.
Yielding(B) == {s \in Page : Held(s) /\ Acting(s) \subseteq B \cup {s.activeField}}

-----------------------------------------------------------------------------
(* Single updates of a page.                                                 *)

LEMMA StatesAre ==
  /\ Elements(FieldStates) = {"inactive", "candidate", "highlighted", "activating",
                              "active", "changed", "saving", "saved", "invalid"}
  /\ Elements(EntityStates) = {"closed", "launching", "opening", "opened",
                               "committing", "deactivating", "closing"}
BY DEF Elements, FieldStates, EntityStates

LEMMA TextsAre == 0 \in Texts /\ \A x \in Texts : x \in Nat
BY Bounds DEF Texts

LEMMA TasksGood ==
  ASSUME NEW A, NEW a, NEW s \in Good(A, a), NEW q \in Seq(Task)
  PROVE  [s EXCEPT !.tasks = q] \in Good(A, a)
BY DEF Good, Page, Held, Acting

LEMMA OutGood ==
  ASSUME NEW A, NEW a, NEW s \in Good(A, a), NEW q \in Seq(Request)
  PROVE  [s EXCEPT !.out = q] \in Good(A, a)
BY DEF Good, Page, Held, Acting

LEMMA Appended ==
  ASSUME NEW S, NEW q \in Seq(S), NEW x \in S
  PROVE  Append(q, x) \in Seq(S)
OBVIOUS

LEMMA DeferGood ==
  ASSUME NEW A, NEW a, NEW s \in Good(A, a), NEW k \in Task
  PROVE  Defer(s, k) \in Good(A, a)
<1>1. s.tasks \in Seq(Task)  BY DEF Good, Page
<1>2. Append(s.tasks, k) \in Seq(Task)  BY <1>1, Appended
<1> QED  BY <1>2, TasksGood DEF Defer

LEMMA DeferEntityGood ==
  ASSUME NEW A, NEW a, NEW s \in Good(A, a), NEW e \in Entities, NEW what \in OnEntities
  PROVE  DeferEntity(s, what, e) \in Good(A, a)
<1> DEFINE k == [do |-> what, e |-> e, f |-> None, text |-> 0]
<1>1. k \in Task  BY TextsAre DEF Task, OnEntities, OnFields
<1> QED  BY <1>1, DeferGood DEF DeferEntity

LEMMA SendGood ==
  ASSUME NEW A, NEW a, NEW s \in Good(A, a), NEW e \in Entities,
         NEW kind \in {"edit", "load", "submit", "commit"},
         NEW f \in Fields \cup {None}, kind # "commit" => f \in Fields /\ e = EntityOf[f],
         kind = "commit" => f = None, NEW reset \in BOOLEAN, NEW text \in Texts
  PROVE  Send(s, kind, e, f, reset, text) \in Good(A, a)
<1> DEFINE r == [kind |-> kind, e |-> e, f |-> f, reset |-> reset, text |-> text,
                 at |-> "sent", copy |-> None, answer |-> "none", stale |-> FALSE]
<1>1. r \in Request  BY DEF Request, CopyFits, Stages, Copies
<1> HIDE DEF r
<1>2. s.out \in Seq(Request)  BY DEF Good, Page
<1>3. Append(s.out, r) \in Seq(Request)  BY <1>1, <1>2, Appended
<1>4. [s EXCEPT !.out = Append(s.out, r)] \in Good(A, a)  BY <1>3, OutGood
<1> QED  BY <1>4 DEF Send, r

LEMMA EntityOfType == \A f \in Fields : EntityOf[f] \in Entities
BY EveryFieldOwned

\* An update of one field; and of one entity.
LEMMA FieldGood ==
  ASSUME NEW A, NEW a, NEW s \in Good(A, a), NEW f \in Fields, NEW x \in Field,
         NEW B, A \subseteq B \cup {f}, x.state \in Active => f \in B
  PROVE  [s EXCEPT !.fld[f] = x] \in Good(B, a)
BY DEF Good, Page, Held, Acting

LEMMA EntityGood ==
  ASSUME NEW A, NEW a, NEW s \in Good(A, a), NEW e \in Entities, NEW x \in Entity,
         x.isCommitting => x.state = "committing"
  PROVE  [s EXCEPT !.ent[e] = x] \in Good(A, a)
BY DEF Good, Page, Held, Acting

LEMMA FieldOf ==
  ASSUME NEW A, NEW a, NEW s \in Good(A, a), NEW f \in Fields
  PROVE  s.fld[f] \in Field /\ (s.fld[f].state \in Active => f \in A)
BY DEF Good, Page, Acting

LEMMA EntityRecord ==
  ASSUME NEW A, NEW a, NEW s \in Good(A, a), NEW e \in Entities
  PROVE  /\ s.ent[e] \in Entity
         /\ s.ent[e].isCommitting => s.ent[e].state = "committing"
BY DEF Good, Page, Held

\* The form and the text of a field.
LEMMA FormGood ==
  ASSUME NEW A, NEW a, NEW s \in Good(A, a), NEW f \in Fields, NEW b \in BOOLEAN
  PROVE  [s EXCEPT !.fld[f].form = b] \in Good(A, a)
<1> DEFINE x == [s.fld[f] EXCEPT !.form = b]
<1>1. x \in Field /\ (x.state \in Active => f \in A)  BY FieldOf DEF Field
<1> HIDE DEF x
<1>2. [s EXCEPT !.fld[f] = x] \in Good(A, a)  BY <1>1, FieldGood
<1> QED  BY <1>2 DEF x, Good, Page

LEMMA TextGood ==
  ASSUME NEW A, NEW a, NEW s \in Good(A, a), NEW f \in Fields, NEW text \in Texts
  PROVE  [s EXCEPT !.fld[f].text = text] \in Good(A, a)
<1> DEFINE x == [s.fld[f] EXCEPT !.text = text]
<1>1. x \in Field /\ (x.state \in Active => f \in A)  BY FieldOf DEF Field
<1> HIDE DEF x
<1>2. [s EXCEPT !.fld[f] = x] \in Good(A, a)  BY <1>1, FieldGood
<1> QED  BY <1>2 DEF x, Good, Page

LEMMA LoadHiddenFormGood ==
  ASSUME NEW A, NEW a, NEW s \in Good(A, a), NEW f \in Fields
  PROVE  LoadHiddenForm(s, f) \in Good(A, a)
<1>1. EntityOf[f] \in Entities /\ 0 \in Texts  BY EntityOfType, TextsAre
<1>2. (~s.ent[EntityOf[f]].inTempStore) \in BOOLEAN  OBVIOUS
<1> QED  BY <1>1, <1>2, SendGood DEF LoadHiddenForm

LEMMA EditorChangeGood ==
  ASSUME NEW A, NEW a, NEW s \in Good(A, a), NEW f \in Fields, NEW from, NEW to
  PROVE  EditorChange(s, f, from, to) \in Good(A, a)
<1> DEFINE e == EntityOf[f]
           k == [do |-> "activate", e |-> e, f |-> f, text |-> 0]
           u == [s EXCEPT !.fld[f].form = FALSE]
           v == [u EXCEPT !.fld[f].text = s.fld[f].orig]
<1>1. e \in Entities /\ e = EntityOf[f] /\ 0 \in Texts  BY EntityOfType, TextsAre
<1>2. s.fld[f].orig \in Texts /\ s.fld[f].text \in Texts  BY FieldOf DEF Field
<1>3. u \in Good(A, a)  BY FormGood
<1>4. v \in Good(A, a)  BY <1>2, <1>3, TextGood
<1>5. v = [s EXCEPT !.fld[f].form = FALSE, !.fld[f].text = s.fld[f].orig]
  BY DEF Good, Page
<1>6. k \in Task  BY <1>1 DEF Task, OnFields
<1> HIDE DEF k, v, u
<1>7. Defer(s, k) \in Good(A, a)  BY <1>6, DeferGood
<1>8. Send(s, "edit", e, f, ~s.ent[e].inTempStore, 0) \in Good(A, a)
  <2>1. (~s.ent[e].inTempStore) \in BOOLEAN  OBVIOUS
  <2> HIDE DEF e
  <2> QED  BY <1>1, <2>1, SendGood
<1>9. Send(s, "submit", e, f, FALSE, s.fld[f].text) \in Good(A, a)
  <2> HIDE DEF e
  <2> QED  BY <1>1, <1>2, SendGood
<1> QED
  BY <1>4, <1>5, <1>7, <1>8, <1>9, LoadHiddenFormGood DEF EditorChange, k

LEMMA UpdateTempStoreGood ==
  ASSUME NEW A, NEW a, NEW s \in Good(A, a), NEW f \in Fields, NEW e \in Entities
  PROVE  UpdateTempStore(s, e, f) \in Good(A, a)
<1> DEFINE mutex == s.ent[e].isCommitting
           x == [s.ent[e] EXCEPT !.inTempStore = IF mutex THEN @ ELSE TRUE]
           shared == IF s.own[e] = None THEN s.shared \cup {f} ELSE s.shared
           own == IF mutex /\ s.own[e] = None THEN None
                  ELSE InTempStore(s, e) \cup {f}
           t == [s EXCEPT !.ent[e] = x]
<1>1. x \in Entity /\ (x.isCommitting => x.state = "committing")
  <2>1. s.ent[e] \in Entity /\ (s.ent[e].isCommitting => s.ent[e].state = "committing")
    BY EntityRecord
  <2> QED  BY <2>1 DEF Entity
<1>2. t \in Good(A, a)
  <2> HIDE DEF x
  <2> QED  BY <1>1, EntityGood
<1>3. shared \in SUBSET Fields /\ own \in {None} \cup SUBSET Fields
  BY DEF InTempStore, Good, Page
<1>4. /\ t.shared = s.shared /\ t.own = s.own
  OBVIOUS
<1>5. UpdateTempStore(s, e, f) = [t EXCEPT !.shared = shared, !.own[e] = own]
  BY DEF UpdateTempStore, Good, Page
<1> HIDE DEF x, t, shared, own
<1>6. [t EXCEPT !.shared = shared, !.own[e] = own] \in Good(A, a)
  BY <1>2, <1>3 DEF Good, Page, Held, Acting
<1> QED  BY <1>5, <1>6

LEMMA TryCommitGood ==
  ASSUME NEW A, NEW a, NEW s \in Good(A, a), NEW e \in Entities,
         s.ent[e].state = "committing"
  PROVE  TryCommit(s, e) \in Good(A, a)
<1> DEFINE x == [s.ent[e] EXCEPT !.isCommitting = TRUE]
           t == [s EXCEPT !.ent[e].isCommitting = TRUE]
<1>1. x \in Entity /\ x.state = "committing"
  <2>1. s.ent[e] \in Entity  BY EntityRecord
  <2> QED  BY <2>1 DEF Entity
<1>2. t = [s EXCEPT !.ent[e] = x]  BY DEF Good, Page
<1> HIDE DEF x, t
<1>3. t \in Good(A, a)  BY <1>1, <1>2, EntityGood
<1>4. Send(t, "commit", e, None, FALSE, 0) \in Good(A, a)
  BY <1>3, TextsAre, SendGood
<1> QED  BY <1>4 DEF TryCommit, t

LEMMA DirtyGood ==
  ASSUME NEW A, NEW a, NEW s \in Good(A, a), NEW e \in Entities
  PROVE  [s EXCEPT !.ent[e].isDirty = TRUE] \in Good(A, a)
<1> DEFINE x == [s.ent[e] EXCEPT !.isDirty = TRUE]
<1>1. s.ent[e] \in Entity /\ (s.ent[e].isCommitting => s.ent[e].state = "committing")
  BY EntityRecord
<1>2. x \in Entity /\ (x.isCommitting => x.state = "committing")
  BY <1>1 DEF Entity
<1> HIDE DEF x
<1>3. [s EXCEPT !.ent[e] = x] \in Good(A, a)  BY <1>2, EntityGood
<1> QED  BY <1>3 DEF x, Good, Page

LEMMA FieldStateChangeGood ==
  ASSUME NEW A, NEW a, NEW s \in Good(A, a), NEW f \in Fields, NEW to
  PROVE  FieldStateChange(s, f, to) \in Good(A, a)
<1> DEFINE e == EntityOf[f]
           state == s.ent[e].state
           t == CASE to = "invalid" -> DeferEntity(s, "invalid", e)
                  [] to = "saved" -> UpdateTempStore(s, e, f)
                  [] OTHER -> s
<1>1. e \in Entities  BY EntityOfType
<1> HIDE DEF e
<1>2. t \in Good(A, a)
  BY <1>1, DeferEntityGood, UpdateTempStoreGood DEF OnEntities
<1>3. t.ent[e].state = s.ent[e].state
  BY <1>1 DEF DeferEntity, Defer, UpdateTempStore, Good, Page
<1> HIDE DEF t
<1>4. ASSUME state = "committing"  PROVE TryCommit(t, e) \in Good(A, a)
  BY <1>1, <1>2, <1>3, <1>4, TryCommitGood
<1>5. /\ DeferEntity(s, "opened", e) \in Good(A, a)
      /\ DeferEntity(s, "closing", e) \in Good(A, a)
      /\ DeferEntity(s, "closed", e) \in Good(A, a)
  BY <1>1, DeferEntityGood DEF OnEntities
<1>6. UpdateTempStore(s, e, f) \in Good(A, a)  BY <1>1, UpdateTempStoreGood
<1>7. [s EXCEPT !.ent[e].isDirty = TRUE] \in Good(A, a)  BY <1>1, DirtyGood
<1> QED  BY <1>4, <1>5, <1>6, <1>7 DEF FieldStateChange, e, t

\* What the app does with a state that is not an active one.
LEMMA EditorStateChangeGood ==
  ASSUME NEW A, NEW a, NEW s \in Good(A, a), NEW f \in Fields, NEW from,
         NEW to, to \notin Active
  PROVE  LET t == EditorStateChange(s, f, from, to) IN
         /\ t \in Good(A, t.activeField)
         /\ t.activeField # a => a = f /\ t.activeField = None
<1> DEFINE text == IF from \in {"changed", "invalid"} THEN s.fld[f].orig
                   ELSE s.fld[f].text
           u == [s EXCEPT !.fld[f].text = text]
           v == [u EXCEPT !.activeField = None]
           t == EditorStateChange(s, f, from, to)
<1>1. text \in Texts  BY FieldOf DEF Field
<1>2. s.activeField = a  BY DEF Good
<1> HIDE DEF text
<1>3. u \in Good(A, a)  BY <1>1, TextGood
<1> HIDE DEF u
<1>4. v \in Good(A, None)  BY <1>3 DEF Good, Page, Held, Acting
<1>5. t = IF to = "candidate" /\ s.activeField = f THEN v ELSE s
  BY DEF EditorStateChange, text, u, v, Good, Page
<1>6. v.activeField = None  BY <1>4 DEF Good
<1> HIDE DEF t, v
<1> QED  BY <1>2, <1>4, <1>5, <1>6 DEF t

LEMMA HeardGood ==
  ASSUME NEW A, NEW a, NEW s \in Good(A, a), NEW f \in Fields, NEW from,
         NEW to, to \notin Active
  PROVE  LET t == Heard(s, f, from, to) IN
         /\ t \in Good(A, t.activeField)
         /\ t.activeField # a => a = f /\ t.activeField = None
<1> DEFINE u == EditorChange(s, f, from, to)
           v == FieldStateChange(u, f, to)
<1>1. u \in Good(A, a)  BY EditorChangeGood
<1> HIDE DEF u
<1>2. v \in Good(A, a)  BY <1>1, FieldStateChangeGood
<1> HIDE DEF v
<1>3. LET t == EditorStateChange(v, f, from, to) IN
         /\ t \in Good(A, t.activeField)
         /\ t.activeField # a => a = f /\ t.activeField = None
  BY <1>2, EditorStateChangeGood
<1> QED  BY <1>3 DEF Heard, u, v

\* A field that gets a state that is not an active one.
LEMMA ChangedGood ==
  ASSUME NEW A, NEW a, NEW s \in Good(A, a), NEW f \in Fields,
         NEW to \in Elements(FieldStates), to \notin Active
  PROVE  LET t == Changed(s, f, to) IN
         /\ t \in Good(A \ {f}, t.activeField)
         /\ t.activeField # a => a = f /\ t.activeField = None
<1> DEFINE x == [s.fld[f] EXCEPT !.state = to]
           u == [s EXCEPT !.fld[f].state = to]
           from == s.fld[f].state
<1>1. s.fld[f] \in Field  BY FieldOf
<1>2. x \in Field /\ x.state = to  BY <1>1 DEF Field
<1>3. u = [s EXCEPT !.fld[f] = x]  BY DEF Good, Page
<1>4. A \subseteq (A \ {f}) \cup {f}  OBVIOUS
<1> HIDE DEF x, u
<1>5. u \in Good(A \ {f}, a)  BY <1>2, <1>3, <1>4, FieldGood
<1> HIDE DEF from
<1>6. LET t == Heard(u, f, from, to) IN
         /\ t \in Good(A \ {f}, t.activeField)
         /\ t.activeField # a => a = f /\ t.activeField = None
  BY <1>5, HeardGood
<1> QED  BY <1>6 DEF Changed, u, from

LEMMA YieldingIsGood ==
  ASSUME NEW B, NEW s
  PROVE  s \in Yielding(B) <=> s \in Good(B \cup {s.activeField}, s.activeField)
BY DEF Yielding, Good

LEMMA SetFieldYielding ==
  ASSUME NEW B, NEW s \in Yielding(B), NEW f \in Fields,
         NEW to \in Elements(FieldStates), to \notin Active, NEW reason
  PROVE  SetField(s, f, to, reason) \in Yielding(B)
<1> DEFINE t == Changed(s, f, to)
           a == s.activeField
<1>1. s \in Good(B \cup {a}, a)  BY YieldingIsGood
<1> HIDE DEF a
<1>2. t \in Good((B \cup {a}) \ {f}, t.activeField) /\ (t.activeField # a => a = f)
  BY <1>1, ChangedGood
<1> HIDE DEF t
<1>3. t \in Yielding(B)  BY <1>2 DEF Good, Yielding
<1> QED  BY <1>3 DEF SetField, t

\* The active field yields: after that it is not active any more.
LEMMA YieldYielding ==
  ASSUME NEW B, NEW s \in Yielding(B), s.activeField \in Fields
  PROVE  LET t == Yield(s, s.activeField) IN t \in Yielding(B) /\ Acting(t) \subseteq B
<1> DEFINE g == s.activeField
           from == s.fld[g].state
           to == IF from \in Active THEN "candidate" ELSE "saving"
           t == Changed(s, g, to)
<1>1. s \in Good(B \cup {g}, g)  BY YieldingIsGood
<1>2. to \in Elements(FieldStates) /\ to \notin Active  BY StatesAre DEF Active
<1> HIDE DEF g, to
<1>3. t \in Good((B \cup {g}) \ {g}, t.activeField)  BY <1>1, <1>2, ChangedGood DEF g
<1> HIDE DEF t
<1>4. t \in Yielding(B) /\ Acting(t) \subseteq B  BY <1>3 DEF Good, Yielding
<1>5. CASE from \in Active
  <2>1. Yield(s, g) = SetField(s, g, "candidate", "")
    <3>1. from \notin {"changed", "invalid"}  BY <1>5 DEF Active
    <3> QED  BY <3>1, <1>5 DEF Yield
  <2>2. Transition(from, "candidate") /\ from # "candidate"
    BY <1>5 DEF Transition, Active
  <2>3. SetField(s, g, "candidate", "") = Changed(s, g, "candidate")
    BY <2>2 DEF SetField
  <2> QED  BY <2>1, <2>3, <1>4, <1>5 DEF t, to, g
<1>6. CASE from \in {"changed", "invalid"}
  <2>1. Yield(s, g) = SetField(s, g, "saving", "")
    <3>1. from \notin Active  BY <1>6 DEF Active
    <3> QED  BY <3>1, <1>6 DEF Yield
  <2>2. Transition(from, "saving")
    <3>1. Follows(FieldStates, "changed", "saving")  BY DEF Follows, FieldStates
    <3> QED  BY <3>1, <1>6 DEF Transition
  <2>3. SetField(s, g, "saving", "") = Changed(s, g, "saving")
    BY <2>2, <1>6 DEF SetField
  <2> QED  BY <2>1, <2>3, <1>4, <1>6 DEF t, to, g, Active
<1>7. CASE from \notin Active \cup {"changed", "invalid"}
  <2>1. Yield(s, g) = s  BY <1>7 DEF Yield
  <2>2. g \notin Acting(s)  BY <1>7 DEF Acting
  <2> QED  BY <2>1, <2>2, <1>1 DEF Good, Yielding, g
<1> QED  BY <1>5, <1>6, <1>7

\* A field that gets an active state: it is the active field then.
LEMMA ActivatedGood ==
  ASSUME NEW A, NEW a, NEW s \in Good(A, a), NEW f \in Fields, NEW to \in Active
  PROVE  Changed(s, f, to) \in Good(A \cup {f}, f)
<1> DEFINE from == s.fld[f].state
           x == [s.fld[f] EXCEPT !.state = to]
           u == [s EXCEPT !.fld[f].state = to]
           v == EditorChange(u, f, from, to)
           w == FieldStateChange(v, f, to)
<1>1. s.fld[f] \in Field  BY FieldOf
<1>2. x \in Field  BY <1>1, StatesAre DEF Field, Active
<1>3. u = [s EXCEPT !.fld[f] = x]  BY DEF Good, Page
<1> HIDE DEF x, u
<1>4. u \in Good(A \cup {f}, a)  BY <1>2, <1>3, FieldGood
<1>5. v \in Good(A \cup {f}, a)  BY <1>4, EditorChangeGood
<1> HIDE DEF v
<1>6. w \in Good(A \cup {f}, a)  BY <1>5, FieldStateChangeGood
<1> HIDE DEF w
<1>7. [w EXCEPT !.activeField = f] \in Good(A \cup {f}, f)
  BY <1>6 DEF Good, Page, Held, Acting
<1>8. EditorStateChange(w, f, from, to) = [w EXCEPT !.activeField = f]
  BY DEF EditorStateChange, Active
<1> QED  BY <1>7, <1>8 DEF Changed, Heard, u, v, w

\* What is left active, besides the new field, after it was activated: fields
\* that were bypassed before, and the one that it did not ask to yield.
LEMMA ActivateYielding ==
  ASSUME NEW B, NEW s \in Yielding(B), NEW f \in Fields, NEW to \in Active
  PROVE  LET t == Activate(s, f, to) IN
         /\ t \in Page /\ Held(t)
         /\ \A g \in Acting(t) : 
              \/ g \in B \cup {t.activeField}
              \/ /\ g = s.activeField /\ t.activeField = f /\ f # g
                 /\ s.fld[f].state \notin Ready \cup {"invalid"}
<1> DEFINE from == s.fld[f].state
           other == s.activeField
           takes == from \in Ready \cup {"invalid"} /\ other \notin {None, f}
           y == IF takes THEN Yield(s, other) ELSE s
           t == Activate(s, f, to)
<1>1. s \in Good(B \cup {other}, other) /\ other \in Fields \cup {None}
  BY YieldingIsGood DEF Yielding, Page
<1>2. CASE from = to \/ ~Transition(from, to)
  <2>1. t = s  BY <1>2 DEF Activate
  <2> QED  BY <2>1 DEF Yielding
<1>3. CASE takes /\ ~(from = to \/ ~Transition(from, to))
  <2>1. y \in Yielding(B) /\ Acting(y) \subseteq B  BY <1>1, <1>3, YieldYielding
  <2>2. y \in Good(B, y.activeField)  BY <2>1 DEF Good, Yielding
  <2>3. t = IF from = "invalid" THEN [y EXCEPT !.activeField = f]
            ELSE Changed(y, f, to)
    BY <1>3 DEF Activate
  <2> HIDE DEF y
  <2>4. [y EXCEPT !.activeField = f] \in Good(B \cup {f}, f)
    BY <2>2 DEF Good, Page, Held, Acting
  <2>5. Changed(y, f, to) \in Good(B \cup {f}, f)  BY <2>2, ActivatedGood
  <2>6. t \in Good(B \cup {f}, f)  BY <2>3, <2>4, <2>5
  <2> QED  BY <2>6 DEF Good
<1>4. CASE ~takes /\ ~(from = to \/ ~Transition(from, to))
  <2>1. t = Changed(s, f, to)  BY <1>4 DEF Activate
  <2>2. Changed(s, f, to) \in Good(B \cup {other} \cup {f}, f)  BY <1>1, ActivatedGood
  <2> HIDE DEF t
  <2>3. t \in Page /\ Held(t) /\ t.activeField = f
        /\ Acting(t) \subseteq B \cup {other} \cup {f}
    BY <2>1, <2>2 DEF Good
  <2>4. Acting(t) \subseteq Fields  BY DEF Acting
  <2>5. None \notin Fields  BY NoneIsNothing
  <2> QED  BY <1>4, <2>3, <2>4, <2>5 DEF t
<1> QED  BY <1>2, <1>3, <1>4

-----------------------------------------------------------------------------
(* Folds over a finite set: what every step keeps, the fold keeps. The proofs  *)
(* take the least number of elements for which something could be wrong.       *)

LEMMA LeastNat ==
  ASSUME NEW S \in SUBSET Nat, S # {}
  PROVE  \E n \in S : \A m \in S : n <= m
<1>1. PICK n \in S : \A m \in S : <<m, n>> \notin OpToRel(<, Nat)
  BY NatLessThanWellFounded, WFMin
<1>2. ASSUME NEW m \in S  PROVE n <= m
  <2>1. ~ (m < n)  BY <1>1 DEF OpToRel
  <2>2. m \in Nat /\ n \in Nat  OBVIOUS
  <2> QED  BY <2>1, <2>2
<1> QED  BY <1>2

Pick(s) == CHOOSE x \in s : TRUE
Small(T, n) == {s \in SUBSET T : Cardinality(s) <= n}

LEMMA PickedLess ==
  ASSUME NEW T, IsFiniteSet(T), NEW s \in SUBSET T, s # {}
  PROVE  /\ Pick(s) \in T /\ s \ {Pick(s)} \in SUBSET T
         /\ Cardinality(s) \in Nat /\ Cardinality(s \ {Pick(s)}) \in Nat
         /\ Cardinality(s \ {Pick(s)}) = Cardinality(s) - 1
<1>1. IsFiniteSet(s)  BY FS_Subset
<1>2. Pick(s) \in s  BY DEF Pick
<1>3. IsFiniteSet(s \ {Pick(s)}) /\ Cardinality(s \ {Pick(s)}) = Cardinality(s) - 1
  BY <1>1, <1>2, FS_RemoveElement
<1> QED  BY <1>1, <1>2, <1>3, FS_CardinalityType

\* The folds of base by h over the sets of D.
FoldsOver(D, h, base, g) ==
  g = [s \in D |-> IF s = {} THEN base ELSE h[Pick(s)][g[s \ {Pick(s)}]]]

LEMMA FoldExists ==
  ASSUME NEW T, IsFiniteSet(T), NEW G, NEW base \in G, NEW h \in [T -> [G -> G]]
  PROVE  \E g \in [SUBSET T -> G] : FoldsOver(SUBSET T, h, base, g)
<1> DEFINE Partial(n) == \E g \in [Small(T, n) -> G] : FoldsOver(Small(T, n), h, base, g)
           Bad == {n \in Nat : ~Partial(n)}
<1>1. Bad = {}
  <2> SUFFICES ASSUME Bad # {}  PROVE FALSE  OBVIOUS
  <2>1. PICK n \in Bad : \A m \in Bad : n <= m  BY LeastNat
  <2>2. n # 0
    <3> SUFFICES ASSUME n = 0  PROVE Partial(0)  BY <2>1
    <3>1. Small(T, 0) = {{}}
      <4>1. ASSUME NEW s \in SUBSET T, Cardinality(s) <= 0  PROVE s = {}
        <5>1. IsFiniteSet(s) /\ Cardinality(s) \in Nat
          BY FS_Subset, FS_CardinalityType
        <5>2. Cardinality(s) = 0  BY <4>1, <5>1
        <5> QED  BY <5>1, <5>2, FS_EmptySet
      <4>2. {} \in Small(T, 0)
        <5>1. Cardinality({}) = 0  BY FS_EmptySet
        <5> QED  BY <5>1 DEF Small
      <4>3. ASSUME NEW s \in Small(T, 0)  PROVE s = {}  BY <4>1 DEF Small
      <4> QED  BY <4>2, <4>3
    <3> DEFINE g == [s \in {{}} |-> base]
    <3>2. g = [s \in {{}} |-> IF s = {} THEN base ELSE h[Pick(s)][g[s \ {Pick(s)}]]]
      OBVIOUS
    <3>3. g \in [{{}} -> G]  OBVIOUS
    <3> HIDE DEF g
    <3> QED  BY <3>1, <3>2, <3>3 DEF FoldsOver
  <2>3. n - 1 \in Nat /\ n - 1 \notin Bad  BY <2>1, <2>2
  <2>4. PICK g \in [Small(T, n - 1) -> G] : FoldsOver(Small(T, n - 1), h, base, g)
    BY <2>3
  <2> DEFINE k == [s \in Small(T, n) |->
                     IF s = {} THEN base ELSE h[Pick(s)][g[s \ {Pick(s)}]]]
  <2>5. ASSUME NEW s \in Small(T, n), s # {}
        PROVE  s \ {Pick(s)} \in Small(T, n - 1) /\ Pick(s) \in T
    BY <2>5, <2>3, PickedLess DEF Small
  <2>6. ASSUME NEW s \in Small(T, n - 1)  PROVE s \in Small(T, n) /\ k[s] = g[s]
    <3>1. s \in Small(T, n)  BY <2>3, FS_Subset, FS_CardinalityType DEF Small
    <3> QED  BY <3>1, <2>4 DEF FoldsOver
  <2>7. k \in [Small(T, n) -> G]  BY <2>5
  <2>8. FoldsOver(Small(T, n), h, base, k)
    <3>1. ASSUME NEW s \in Small(T, n), s # {}
          PROVE  k[s] = h[Pick(s)][k[s \ {Pick(s)}]]
      BY <3>1, <2>5, <2>6
    <3> QED  BY <3>1 DEF FoldsOver
  <2> HIDE DEF k
  <2> QED  BY <2>1, <2>7, <2>8
<1>2. Cardinality(T) \in Nat  BY FS_CardinalityType
<1>3. Partial(Cardinality(T))  BY <1>1, <1>2
<1>4. Small(T, Cardinality(T)) = SUBSET T  BY FS_Subset DEF Small
<1> QED  BY <1>3, <1>4

LEMMA FoldStays ==
  ASSUME NEW T, IsFiniteSet(T), NEW G, NEW g, g[{}] \in G,
         \A s \in SUBSET T : s # {} /\ g[s \ {Pick(s)}] \in G => g[s] \in G
  PROVE  g[T] \in G
<1> DEFINE Bad == {n \in Nat : \E s \in SUBSET T : Cardinality(s) = n /\ g[s] \notin G}
<1>1. Bad = {}
  <2> SUFFICES ASSUME Bad # {}  PROVE FALSE  OBVIOUS
  <2>1. PICK n \in Bad : \A m \in Bad : n <= m  BY LeastNat
  <2>2. PICK s \in SUBSET T : Cardinality(s) = n /\ g[s] \notin G  BY <2>1
  <2>3. s # {}  BY <2>2
  <2>4. /\ s \ {Pick(s)} \in SUBSET T /\ Cardinality(s \ {Pick(s)}) \in Nat
        /\ Cardinality(s \ {Pick(s)}) = n - 1
    BY <2>2, <2>3, PickedLess
  <2>5. n \in Nat /\ n - 1 \notin Bad  BY <2>1
  <2>6. g[s \ {Pick(s)}] \in G  BY <2>4, <2>5
  <2> QED  BY <2>2, <2>3, <2>6
<1>2. Cardinality(T) \in Nat  BY FS_CardinalityType
<1> QED  BY <1>1, <1>2

\* The recursive function that TellAll() is.
Tells(g, s, T, what, why) ==
  g = [S \in SUBSET T |->
         IF S = {} THEN s ELSE Told(g[S \ {Pick(S)}], Pick(S), what, why)]

LEMMA TellAllIsFold ==
  ASSUME NEW s, NEW e, NEW what, NEW why
  PROVE  TellAll(s, e, what, why) =
           (CHOOSE g : Tells(g, s, FieldsOf(e), what, why))[FieldsOf(e)]
BY DEF TellAll, FoldSet, MapThenFoldSet, Tells, Pick

\* What every field keeps, all of them keep.
LEMMA TellAllKeeps ==
  ASSUME NEW G, NEW s \in G, NEW e, NEW what, NEW why,
         \A f \in FieldsOf(e) : \A t \in G : Told(t, f, what, why) \in G
  PROVE  TellAll(s, e, what, why) \in G
<1> DEFINE T == FieldsOf(e)
           h == [f \in T |-> [t \in G |-> Told(t, f, what, why)]]
           g == CHOOSE g : Tells(g, s, T, what, why)
<1>1. IsFiniteSet(T)  BY EveryFieldOwned, FS_Subset DEF FieldsOf
<1>2. h \in [T -> [G -> G]]  OBVIOUS
<1>3. \E k : Tells(k, s, T, what, why)
  <2> HIDE DEF h
  <2>1. PICK k \in [SUBSET T -> G] : FoldsOver(SUBSET T, h, s, k)
    BY <1>1, <1>2, FoldExists
  <2>2. ASSUME NEW S \in SUBSET T, S # {}
        PROVE  h[Pick(S)][k[S \ {Pick(S)}]] = Told(k[S \ {Pick(S)}], Pick(S), what, why)
    <3>1. Pick(S) \in T /\ S \ {Pick(S)} \in SUBSET T  BY <1>1, <2>2, PickedLess
    <3>2. k[S \ {Pick(S)}] \in G  BY <3>1
    <3> HIDE DEF T
    <3> QED  BY <3>1, <3>2 DEF h
  <2>3. k = [S \in SUBSET T |-> IF S = {} THEN s
                                ELSE Told(k[S \ {Pick(S)}], Pick(S), what, why)]
    BY <2>1, <2>2 DEF FoldsOver
  <2> QED  BY <2>3 DEF Tells
<1>4. Tells(g, s, T, what, why)  BY <1>3
<1> HIDE DEF g, T
<1>5. g[{}] = s  BY <1>4 DEF Tells
<1>6. ASSUME NEW S \in SUBSET T, S # {}, g[S \ {Pick(S)}] \in G  PROVE g[S] \in G
  <2>1. g[S] = Told(g[S \ {Pick(S)}], Pick(S), what, why)  BY <1>4, <1>6 DEF Tells
  <2>2. Pick(S) \in T  BY <1>1, <1>6, PickedLess
  <2> QED  BY <2>1, <2>2, <1>6 DEF T
<1>7. g[T] \in G  BY <1>1, <1>5, <1>6, FoldStays
<1> QED  BY <1>7, TellAllIsFold DEF g, T

\* The recursive function that DeactivateOthers() is.
Asked(s, o) == IF s.ent[o].isActive THEN Deactivate(s, o, "") ELSE s
Asks(g, s, T) ==
  g = [S \in SUBSET T |-> IF S = {} THEN s ELSE Asked(g[S \ {Pick(S)}], Pick(S))]

LEMMA DeactivateOthersIsFold ==
  ASSUME NEW s, NEW e
  PROVE  DeactivateOthers(s, e) =
           (CHOOSE g : Asks(g, s, Entities \ {e}))[Entities \ {e}]
BY DEF DeactivateOthers, FoldSet, MapThenFoldSet, Asks, Asked, Pick

LEMMA DeactivateOthersKeeps ==
  ASSUME NEW G, NEW s \in G, NEW e,
         \A o \in Entities : \A t \in G : Deactivate(t, o, "") \in G
  PROVE  DeactivateOthers(s, e) \in G
<1> DEFINE T == Entities \ {e}
           h == [o \in T |-> [t \in G |-> Asked(t, o)]]
           g == CHOOSE g : Asks(g, s, T)
<1>0. \A o \in T : \A t \in G : Asked(t, o) \in G  BY DEF Asked
<1>1. IsFiniteSet(T)  BY EntitiesNumbered, FS_Difference
<1>2. h \in [T -> [G -> G]]  BY <1>0
<1>3. \E k : Asks(k, s, T)
  <2> HIDE DEF h
  <2>1. PICK k \in [SUBSET T -> G] : FoldsOver(SUBSET T, h, s, k)
    BY <1>1, <1>2, FoldExists
  <2>2. ASSUME NEW S \in SUBSET T, S # {}
        PROVE  h[Pick(S)][k[S \ {Pick(S)}]] = Asked(k[S \ {Pick(S)}], Pick(S))
    <3>1. Pick(S) \in T /\ S \ {Pick(S)} \in SUBSET T  BY <1>1, <2>2, PickedLess
    <3>2. k[S \ {Pick(S)}] \in G  BY <3>1
    <3> HIDE DEF T
    <3> QED  BY <3>1, <3>2 DEF h
  <2>3. k = [S \in SUBSET T |-> IF S = {} THEN s
                                ELSE Asked(k[S \ {Pick(S)}], Pick(S))]
    BY <2>1, <2>2 DEF FoldsOver
  <2> QED  BY <2>3 DEF Asks
<1>4. Asks(g, s, T)  BY <1>3
<1> HIDE DEF g, T
<1>5. g[{}] = s  BY <1>4 DEF Asks
<1>6. ASSUME NEW S \in SUBSET T, S # {}, g[S \ {Pick(S)}] \in G  PROVE g[S] \in G
  <2>1. g[S] = Asked(g[S \ {Pick(S)}], Pick(S))  BY <1>4, <1>6 DEF Asks
  <2>2. Pick(S) \in T  BY <1>1, <1>6, PickedLess
  <2> QED  BY <2>1, <2>2, <1>0, <1>6
<1>7. g[T] \in G  BY <1>1, <1>5, <1>6, FoldStays
<1> QED  BY <1>7, DeactivateOthersIsFold DEF g, T

-----------------------------------------------------------------------------
(* Entities.                                                                 *)

LEMMA EntityYielding ==
  ASSUME NEW B, NEW s \in Yielding(B), NEW e \in Entities, NEW x \in Entity,
         x.isCommitting => x.state = "committing"
  PROVE  [s EXCEPT !.ent[e] = x] \in Yielding(B)
BY DEF Yielding, Page, Held, Acting

LEMMA EntityRecordYielding ==
  ASSUME NEW B, NEW s \in Yielding(B), NEW e \in Entities
  PROVE  /\ s.ent[e] \in Entity
         /\ s.ent[e].isCommitting => s.ent[e].state = "committing"
BY DEF Yielding, Page, Held

LEMMA DeferEntityYielding ==
  ASSUME NEW B, NEW s \in Yielding(B), NEW e \in Entities, NEW what \in OnEntities
  PROVE  DeferEntity(s, what, e) \in Yielding(B)
<1> DEFINE t == DeferEntity(s, what, e)
           a == s.activeField
<1>1. s \in Good(B \cup {a}, a)  BY YieldingIsGood
<1> HIDE DEF a
<1>2. t \in Good(B \cup {a}, a)  BY <1>1, DeferEntityGood
<1> HIDE DEF t
<1>3. t \in Yielding(B)  BY <1>2 DEF Good, Yielding
<1> QED  BY <1>3 DEF t

\* A state for an entity that is not being committed.
LEMMA PutYielding ==
  ASSUME NEW B, NEW s \in Yielding(B), NEW e \in Entities,
         NEW state \in Elements(EntityStates), ~s.ent[e].isCommitting
  PROVE  Put(s, e, state) \in Yielding(B) /\ ~Put(s, e, state).ent[e].isCommitting
<1> DEFINE x == [s.ent[e] EXCEPT !.state = state]
<1>1. s.ent[e] \in Entity  BY EntityRecordYielding
<1>2. x \in Entity /\ ~x.isCommitting  BY <1>1 DEF Entity
<1>3. Put(s, e, state) = [s EXCEPT !.ent[e] = x]  BY DEF Put, Yielding, Page
<1> HIDE DEF x
<1>4. [s EXCEPT !.ent[e] = x] \in Yielding(B)  BY <1>2, EntityYielding
<1>5. [s EXCEPT !.ent[e] = x].ent[e] = x  BY DEF Yielding, Page
<1> QED  BY <1>2, <1>3, <1>4, <1>5

LEMMA ReleasedYielding ==
  ASSUME NEW B, NEW s \in Yielding(B), NEW f \in Fields, NEW why
  PROVE  Released(s, f, why) \in Yielding(B)
<1> DEFINE from == s.fld[f].state
           a == s.activeField
           A == (B \cup {a}) \ {f}
           t == Heard(s, f, from, from)
<1>1. CASE from \in Ready
  <2>1. from \notin Active  BY <1>1 DEF Ready, Active
  <2>2. s \in Good(A, a)  BY <2>1 DEF Yielding, Good, Acting
  <2>3. Released(s, f, why) = t  BY <1>1 DEF Released
  <2> HIDE DEF a, A, from
  <2>4. t \in Good(A, t.activeField) /\ (t.activeField # a => a = f)
    BY <2>1, <2>2, HeardGood
  <2> HIDE DEF t
  <2> QED  BY <2>3, <2>4 DEF Good, Yielding, A
<1>2. CASE from \notin Ready
  <2>1. SetField(s, f, "candidate", why) \in Yielding(B)
    BY SetFieldYielding, StatesAre DEF Active
  <2> QED  BY <1>2, <2>1 DEF Released
<1> QED  BY <1>1, <1>2

Orders == {"offer", "leave", "save", "release", "stop"}

LEMMA ToldYielding ==
  ASSUME NEW B, NEW s \in Yielding(B), NEW f \in Fields, NEW what \in Orders, NEW why
  PROVE  Told(s, f, what, why) \in Yielding(B)
<1>1. /\ SetField(s, f, "candidate", "") \in Yielding(B)
      /\ SetField(s, f, "saving", "") \in Yielding(B)
      /\ SetField(s, f, "inactive", "stop") \in Yielding(B)
  BY SetFieldYielding, StatesAre DEF Active
<1>2. Released(s, f, why) \in Yielding(B)  BY ReleasedYielding
<1> QED  BY <1>1, <1>2 DEF Told, Orders

LEMMA TellAllYielding ==
  ASSUME NEW B, NEW s \in Yielding(B), NEW e, NEW what \in Orders, NEW why
  PROVE  TellAll(s, e, what, why) \in Yielding(B)
<1>1. \A f \in FieldsOf(e) : \A t \in Yielding(B) : Told(t, f, what, why) \in Yielding(B)
  BY ToldYielding DEF FieldsOf
<1> QED  BY <1>1, TellAllKeeps

LEMMA DeactivatedYielding ==
  ASSUME NEW B, NEW s \in Yielding(B), NEW e \in Entities, NEW why,
         ~s.ent[e].isCommitting
  PROVE  Deactivated(s, e, why) \in Yielding(B)
<1> DEFINE t == Put(s, e, "deactivating")
           In(states) == {f \in FieldsOf(e) : t.fld[f].state \in states}
           needed == InTempStore(t, e) # {} \/ In({"invalid"}) # {}
           asks == /\ In({"changed", "invalid"}) # {} \/ InTempStore(t, e) # {}
                   /\ why \notin {"saved", "confirmed"}
           u == [t EXCEPT !.ent[e].reload = needed]
           x == [t.ent[e] EXCEPT !.reload = needed]
           back == Put(t, e, "opened")
<1>1. t \in Yielding(B) /\ ~t.ent[e].isCommitting  BY PutYielding, StatesAre
<1>2. needed \in BOOLEAN  OBVIOUS
<1> HIDE DEF t, needed, asks
<1>3. back \in Yielding(B)  BY <1>1, PutYielding, StatesAre
<1> HIDE DEF back
<1>4. DeferEntity(back, "confirm", e) \in Yielding(B)
  BY <1>3, DeferEntityYielding DEF OnEntities
<1>5. t.ent[e] \in Entity  BY <1>1, EntityRecordYielding
<1>6. x \in Entity /\ ~x.isCommitting  BY <1>1, <1>2, <1>5 DEF Entity
<1>7. u = [t EXCEPT !.ent[e] = x]  BY <1>1 DEF Yielding, Page
<1> HIDE DEF x, u
<1>8. u \in Yielding(B)  BY <1>1, <1>6, <1>7, EntityYielding
<1>9. TellAll(u, e, "release", why) \in Yielding(B)
  BY <1>8, TellAllYielding DEF Orders
<1>10. Deactivated(s, e, why) = IF asks THEN DeferEntity(back, "confirm", e)
                                ELSE TellAll(u, e, "release", why)
  BY DEF Deactivated, asks, back, u, t, needed
<1> QED  BY <1>4, <1>9, <1>10

LEMMA DeactivateYielding ==
  ASSUME NEW B, NEW s \in Yielding(B), NEW e \in Entities, NEW why
  PROVE  Deactivate(s, e, why) \in Yielding(B)
BY DeactivatedYielding DEF Deactivate, Accepts

LEMMA DeactivateOthersYielding ==
  ASSUME NEW B, NEW s \in Yielding(B), NEW e
  PROVE  DeactivateOthers(s, e) \in Yielding(B)
<1>1. \A o \in Entities : \A t \in Yielding(B) : Deactivate(t, o, "") \in Yielding(B)
  BY DeactivateYielding
<1> QED  BY <1>1, DeactivateOthersKeeps

LEMMA OpenYielding ==
  ASSUME NEW B, NEW s \in Yielding(B), NEW e \in Entities, NEW why, NEW accepted
  PROVE  Open(s, e, why, accepted) \in Yielding(B)
<1> DEFINE t == Put(s, e, "opened")
           x == [t.ent[e] EXCEPT !.isActive = TRUE]
           u == [t EXCEPT !.ent[e].isActive = TRUE]
<1>1. CASE ~Accepts(s, e, "opened", why, accepted)
  BY <1>1 DEF Open
<1>2. CASE Accepts(s, e, "opened", why, accepted)
  <2>1. t \in Yielding(B) /\ ~t.ent[e].isCommitting
    BY <1>2, PutYielding, StatesAre DEF Accepts
  <2> HIDE DEF t
  <2>2. t.ent[e] \in Entity  BY <2>1, EntityRecordYielding
  <2>3. x \in Entity /\ ~x.isCommitting  BY <2>1, <2>2 DEF Entity
  <2>4. u = [t EXCEPT !.ent[e] = x]  BY <2>1 DEF Yielding, Page
  <2> HIDE DEF x, u
  <2>5. u \in Yielding(B)  BY <2>1, <2>3, <2>4, EntityYielding
  <2>6. DeactivateOthers(u, e) \in Yielding(B)  BY <2>5, DeactivateOthersYielding
  <2>7. Open(s, e, why, accepted) = IF s.ent[e].isActive THEN t
                                    ELSE DeactivateOthers(u, e)
    BY <1>2 DEF Open, t, u
  <2> QED  BY <2>1, <2>6, <2>7
<1> QED  BY <1>1, <1>2

LEMMA CommitYielding ==
  ASSUME NEW B, NEW s \in Yielding(B), NEW e \in Entities
  PROVE  Commit(s, e) \in Yielding(B)
<1> DEFINE t == Put(s, e, "committing")
           u == TellAll(t, e, "leave", "")
<1>1. CASE ~Accepts(s, e, "committing", "", {})  BY <1>1 DEF Commit
<1>2. CASE Accepts(s, e, "committing", "", {})
  <2>1. t \in Yielding(B)  BY <1>2, PutYielding, StatesAre DEF Accepts
  <2> HIDE DEF t
  <2>2. u \in Yielding(B)  BY <2>1, TellAllYielding DEF Orders
  <2> HIDE DEF u
  <2>3. TellAll(u, e, "save", "") \in Yielding(B)  BY <2>2, TellAllYielding DEF Orders
  <2> QED  BY <1>2, <2>3 DEF Commit, t, u
<1> QED  BY <1>1, <1>2

LEMMA OpeningYielding ==
  ASSUME NEW B, NEW s \in Yielding(B), NEW e \in Entities
  PROVE  Opening(s, e) \in Yielding(B)
<1> DEFINE t == Put(s, e, "opening")
<1>1. CASE ~Accepts(s, e, "opening", "", {})  BY <1>1 DEF Opening
<1>2. CASE Accepts(s, e, "opening", "", {})
  <2>1. t \in Yielding(B)  BY <1>2, PutYielding, StatesAre DEF Accepts
  <2> HIDE DEF t
  <2>2. TellAll(t, e, "offer", "") \in Yielding(B)  BY <2>1, TellAllYielding DEF Orders
  <2> QED  BY <1>2, <2>2 DEF Opening, t
<1> QED  BY <1>1, <1>2

LEMMA ClosingYielding ==
  ASSUME NEW B, NEW s \in Yielding(B), NEW e \in Entities
  PROVE  Closing(s, e) \in Yielding(B)
<1> DEFINE t == Put(s, e, "closing")
<1>1. CASE ~Accepts(s, e, "closing", "", Ready)  BY <1>1 DEF Closing
<1>2. CASE Accepts(s, e, "closing", "", Ready)
  <2>1. t \in Yielding(B)  BY <1>2, PutYielding, StatesAre DEF Accepts
  <2> HIDE DEF t
  <2>2. TellAll(t, e, "stop", "") \in Yielding(B)  BY <2>1, TellAllYielding DEF Orders
  <2> QED  BY <1>2, <2>2 DEF Closing, t
<1> QED  BY <1>1, <1>2

LEMMA SetViewsYielding ==
  ASSUME NEW B, NEW s \in Yielding(B), NEW S, NEW on \in BOOLEAN
  PROVE  SetViews(s, S, on) \in Yielding(B)
<1> DEFINE fld == [f \in Fields |-> IF f \in S THEN [s.fld[f] EXCEPT !.views = on, !.form = FALSE]
                                    ELSE s.fld[f]]
<1>1. s \in Page /\ s.fld \in [Fields -> Field]  BY DEF Yielding, Page
<1>2. fld \in [Fields -> Field]
  <2>1. ASSUME NEW f \in Fields  PROVE fld[f] \in Field
    <3>1. s.fld[f] \in Field  BY <1>1
    <3> QED  BY <3>1 DEF Field
  <2> QED  BY <2>1
<1>3. \A f \in Fields : fld[f].state = s.fld[f].state  BY <1>1 DEF Field
<1>4. SetViews(s, S, on) = [s EXCEPT !.fld = fld]  BY DEF SetViews
<1> HIDE DEF fld
<1>5. [s EXCEPT !.fld = fld] \in Yielding(B)
  BY <1>2, <1>3 DEF Yielding, Page, Held, Acting
<1> QED  BY <1>4, <1>5

LEMMA ClosedYielding ==
  ASSUME NEW B, NEW s \in Yielding(B), NEW e \in Entities
  PROVE  Closed(s, e) \in Yielding(B)
<1> DEFINE t == Put(s, e, "closed")
           x == [t.ent[e] EXCEPT !.isActive = FALSE, !.inTempStore = FALSE,
                                 !.isDirty = FALSE]
           u == [t EXCEPT !.ent[e] = x]
           v == [u EXCEPT !.loading = s.reload]
<1>1. CASE ~Accepts(s, e, "closed", "", {"inactive"})  BY <1>1 DEF Closed
<1>2. CASE Accepts(s, e, "closed", "", {"inactive"})
  <2>1. t \in Yielding(B) /\ ~t.ent[e].isCommitting
    BY <1>2, PutYielding, StatesAre DEF Accepts
  <2> HIDE DEF t
  <2>2. t.ent[e] \in Entity  BY <2>1, EntityRecordYielding
  <2>3. x \in Entity /\ ~x.isCommitting  BY <2>1, <2>2 DEF Entity
  <2>4. v = [t EXCEPT !.ent[e].isActive = FALSE, !.ent[e].inTempStore = FALSE,
                      !.ent[e].isDirty = FALSE, !.loading = s.reload]
    BY <2>1 DEF Yielding, Page
  <2> HIDE DEF x
  <2>5. u \in Yielding(B)  BY <2>1, <2>3, EntityYielding
  <2> HIDE DEF u
  <2>6. s.reload \in BOOLEAN  BY DEF Yielding, Page
  <2>7. v \in Yielding(B)  BY <2>5, <2>6 DEF Yielding, Page, Held, Acting
  <2> HIDE DEF v
  <2>8. SetViews(v, FieldsOf(e), FALSE) \in Yielding(B)  BY <2>7, SetViewsYielding
  <2> QED  BY <1>2, <2>4, <2>8 DEF Closed, t
<1> QED  BY <1>1, <1>2

LEMMA LaunchYielding ==
  ASSUME NEW B, NEW s \in Yielding(B), NEW e \in Entities, s.ent[e].state = "closed"
  PROVE  Launch(s, e) \in Yielding(B)
<1> DEFINE t == Put(s, e, "launching")
           u == [t EXCEPT !.reload = FALSE]
           v == SetViews(u, FieldsOf(e), TRUE)
<1>1. ~s.ent[e].isCommitting  BY EntityRecordYielding
<1>2. t \in Yielding(B)  BY <1>1, PutYielding, StatesAre
<1> HIDE DEF t
<1>3. u \in Yielding(B)  BY <1>2 DEF Yielding, Page, Held, Acting
<1> HIDE DEF u
<1>4. v \in Yielding(B)  BY <1>3, SetViewsYielding
<1> HIDE DEF v
<1>5. DeferEntity(v, "opening", e) \in Yielding(B)
  BY <1>4, DeferEntityYielding DEF OnEntities
<1> QED  BY <1>5 DEF Launch, t, u, v

-----------------------------------------------------------------------------
(* A chosen part of a sequence.                                              *)

Chooses(U, q, places, n) ==
  U = [m \in 0 .. n |-> IF m = 0 THEN <<>>
                        ELSE IF m \in places THEN Append(U[m - 1], q[m]) ELSE U[m - 1]]

LEMMA ChosenIsLast ==
  ASSUME NEW q, NEW places
  PROVE  Chosen(q, places) = (CHOOSE U : Chooses(U, q, places, Len(q)))[Len(q)]
BY DEF Chosen, Chooses

LEMMA ChoosesExists ==
  ASSUME NEW q, NEW places, NEW l \in Nat
  PROVE  \E U : Chooses(U, q, places, l)
<1> DEFINE Bad == {n \in Nat : ~\E U : Chooses(U, q, places, n)}
<1>1. Bad = {}
  <2> SUFFICES ASSUME Bad # {}  PROVE FALSE  OBVIOUS
  <2>1. PICK n \in Bad : \A m \in Bad : n <= m  BY LeastNat
  <2>2. n # 0
    <3> DEFINE U == [m \in 0 .. 0 |-> <<>>]
    <3>1. Chooses(U, q, places, 0)  BY DEF Chooses
    <3> QED  BY <3>1, <2>1
  <2>3. n \in Nat /\ n - 1 \in Nat /\ n - 1 \notin Bad  BY <2>1, <2>2
  <2>4. PICK U : Chooses(U, q, places, n - 1)  BY <2>3
  <2> DEFINE V == [m \in 0 .. n |->
                     IF m = 0 THEN <<>>
                     ELSE IF m \in places THEN Append(U[m - 1], q[m]) ELSE U[m - 1]]
  <2>5. ASSUME NEW m \in 0 .. n, m # 0  PROVE V[m - 1] = U[m - 1]
    <3>1. m - 1 \in 0 .. n /\ m - 1 \in 0 .. n - 1  BY <2>3, <2>5
    <3> QED  BY <3>1, <2>4 DEF Chooses
  <2>6. V = [m \in 0 .. n |->
               IF m = 0 THEN <<>>
               ELSE IF m \in places THEN Append(V[m - 1], q[m]) ELSE V[m - 1]]
    BY <2>5
  <2> HIDE DEF V
  <2>7. Chooses(V, q, places, n)  BY <2>6 DEF Chooses
  <2> QED  BY <2>1, <2>7
<1> QED  BY <1>1

LEMMA ChosenType ==
  ASSUME NEW S, NEW q \in Seq(S), NEW places
  PROVE  Chosen(q, places) \in Seq(S)
<1> DEFINE l == Len(q)
           U == CHOOSE U : Chooses(U, q, places, l)
           Bad == {n \in Nat : n <= l /\ U[n] \notin Seq(S)}
<1>1. l \in Nat  OBVIOUS
<1>2. Chooses(U, q, places, l)  BY <1>1, ChoosesExists
<1> HIDE DEF U
<1>3. Bad = {}
  <2> SUFFICES ASSUME Bad # {}  PROVE FALSE  OBVIOUS
  <2>1. PICK n \in Bad : \A m \in Bad : n <= m  BY LeastNat
  <2>2. n \in 0 .. l /\ U[n] \notin Seq(S)  BY <1>1, <2>1
  <2>3. n # 0
    <3>1. 0 \in 0 .. l  BY <1>1
    <3>2. U[0] = <<>>  BY <1>2, <3>1 DEF Chooses
    <3>3. <<>> \in Seq(S)  OBVIOUS
    <3> HIDE DEF Bad
    <3> QED  BY <2>2, <3>2, <3>3
  <2>4. n - 1 \in 0 .. l /\ n - 1 \notin Bad  BY <1>1, <2>1, <2>2, <2>3
  <2>5. U[n - 1] \in Seq(S) /\ q[n] \in S  BY <1>1, <2>2, <2>3, <2>4
  <2>6. U[n] = IF n \in places THEN Append(U[n - 1], q[n]) ELSE U[n - 1]
    BY <1>2, <2>2, <2>3 DEF Chooses
  <2> HIDE DEF Bad
  <2> QED  BY <2>2, <2>5, <2>6, Appended
<1>4. U[l] \in Seq(S)  BY <1>1, <1>3
<1> QED  BY <1>4, ChosenIsLast DEF U

-----------------------------------------------------------------------------
(* Tasks and answers.                                                        *)

LEMMA TasksYielding ==
  ASSUME NEW B, NEW s \in Yielding(B), NEW q \in Seq(Task)
  PROVE  [s EXCEPT !.tasks = q] \in Yielding(B)
BY DEF Yielding, Page, Held, Acting

LEMMA OutYielding ==
  ASSUME NEW B, NEW s \in Yielding(B), NEW q \in Seq(Request)
  PROVE  [s EXCEPT !.out = q] \in Yielding(B)
BY DEF Yielding, Page, Held, Acting

LEMMA StaleRequests ==
  ASSUME NEW q \in Seq(Request), NEW f
  PROVE  /\ [i \in DOMAIN q |-> IF q[i].f = f THEN [q[i] EXCEPT !.stale = TRUE] ELSE q[i]]
              \in Seq(Request)
         /\ [i \in DOMAIN q |-> [q[i] EXCEPT !.stale = TRUE]] \in Seq(Request)
<1>1. ASSUME NEW r \in Request  PROVE [r EXCEPT !.stale = TRUE] \in Request
  BY DEF Request, CopyFits
<1>2. \A i \in DOMAIN q : q[i] \in Request  OBVIOUS
<1>3. DOMAIN q = 1 .. Len(q) /\ Len(q) \in Nat  OBVIOUS
<1> QED  BY <1>1, <1>2, <1>3

\* The page on which a new model stands for field f.
Replaced(s, f, text) ==
  [s EXCEPT !.fld[f] = [state |-> "inactive", views |-> FALSE, form |-> FALSE,
                        text |-> text, orig |-> text],
            !.activeField = IF @ = f THEN None ELSE @,
            !.tasks = Chosen(@, {i \in DOMAIN s.tasks : s.tasks[i].f # f}),
            !.out = [i \in DOMAIN @ |->
                       IF @[i].f = f THEN [@[i] EXCEPT !.stale = TRUE] ELSE @[i]]]

LEMMA RerenderedIs ==
  ASSUME NEW s, NEW f, NEW text
  PROVE  LET t == Replaced(s, f, text) IN
         \/ Rerendered(s, f, text) = t
         \/ Rerendered(s, f, text) = SetField(SetViews(t, {f}, TRUE), f, "candidate", "")
BY DEF Rerendered, Replaced

LEMMA ReplacedYielding ==
  ASSUME NEW B, NEW s \in Yielding(B), NEW f \in Fields, NEW text \in Texts
  PROVE  Replaced(s, f, text) \in Yielding(B)
<1> DEFINE x == [state |-> "inactive", views |-> FALSE, form |-> FALSE,
                 text |-> text, orig |-> text]
           a == IF s.activeField = f THEN None ELSE s.activeField
           q == Chosen(s.tasks, {i \in DOMAIN s.tasks : s.tasks[i].f # f})
           o == [i \in DOMAIN s.out |-> IF s.out[i].f = f
                                        THEN [s.out[i] EXCEPT !.stale = TRUE]
                                        ELSE s.out[i]]
           u == [s EXCEPT !.fld[f] = x, !.activeField = a]
           t == [s EXCEPT !.fld[f] = x, !.activeField = a, !.tasks = q, !.out = o]
<1>1. s.tasks \in Seq(Task) /\ s.out \in Seq(Request)  BY DEF Yielding, Page
<1>2. q \in Seq(Task)  BY <1>1, ChosenType
<1>3. o \in Seq(Request)  BY <1>1, StaleRequests
<1>4. x \in Field /\ x.state \notin Active  BY StatesAre DEF Field, Active
<1>5. Replaced(s, f, text) = t  BY DEF Replaced
<1> HIDE DEF x, q, o
<1>6. u \in Yielding(B)  BY <1>4 DEF Yielding, Page, Held, Acting
<1>7. t = [[u EXCEPT !.tasks = q] EXCEPT !.out = o]  OBVIOUS
<1> HIDE DEF u, t
<1>8. [u EXCEPT !.tasks = q] \in Yielding(B)  BY <1>2, <1>6, TasksYielding
<1> DEFINE v == [u EXCEPT !.tasks = q]
<1> HIDE DEF v
<1>9. [v EXCEPT !.out = o] \in Yielding(B)  BY <1>3, <1>8, OutYielding DEF v
<1> QED  BY <1>5, <1>7, <1>9 DEF v

LEMMA RerenderedYielding ==
  ASSUME NEW B, NEW s \in Yielding(B), NEW f \in Fields, NEW text \in Texts
  PROVE  Rerendered(s, f, text) \in Yielding(B)
<1> DEFINE t == Replaced(s, f, text)
           v == SetViews(t, {f}, TRUE)
<1>1. t \in Yielding(B)  BY ReplacedYielding
<1>2. Rerendered(s, f, text) = t \/ Rerendered(s, f, text) = SetField(v, f, "candidate", "")
  BY RerenderedIs
<1> HIDE DEF t
<1>3. v \in Yielding(B)  BY <1>1, SetViewsYielding
<1> HIDE DEF v
<1>4. "candidate" \in Elements(FieldStates) /\ "candidate" \notin Active
  BY StatesAre DEF Active
<1>5. SetField(v, f, "candidate", "") \in Yielding(B)  BY <1>3, <1>4, SetFieldYielding
<1> QED  BY <1>1, <1>2, <1>5

LEMMA MarkReloadYielding ==
  ASSUME NEW B, NEW s \in Yielding(B), NEW e \in Entities
  PROVE  MarkReload(s, e) \in Yielding(B)
<1> DEFINE x == [s.ent[e] EXCEPT !.reload = FALSE]
           t == [s EXCEPT !.ent[e] = x]
<1>1. s.ent[e] \in Entity /\ (s.ent[e].isCommitting => s.ent[e].state = "committing")
  BY EntityRecordYielding
<1>2. x \in Entity /\ (x.isCommitting => x.state = "committing")  BY <1>1 DEF Entity
<1>3. [t EXCEPT !.reload = TRUE] = [s EXCEPT !.reload = TRUE, !.ent[e].reload = FALSE]
  BY DEF Yielding, Page
<1> HIDE DEF x
<1>4. t \in Yielding(B)  BY <1>2, EntityYielding
<1> HIDE DEF t
<1>5. [t EXCEPT !.reload = TRUE] \in Yielding(B)
  BY <1>4 DEF Yielding, Page, Held, Acting
<1> QED  BY <1>3, <1>5 DEF MarkReload

\* A commit that was answered.
LEMMA AnsweredYielding ==
  ASSUME NEW B, NEW s \in Yielding(B), NEW e \in Entities
  PROVE  LET t == [s EXCEPT !.ent[e].isCommitting = FALSE] IN
         t \in Yielding(B) /\ ~t.ent[e].isCommitting
<1> DEFINE x == [s.ent[e] EXCEPT !.isCommitting = FALSE]
           t == [s EXCEPT !.ent[e].isCommitting = FALSE]
<1>1. s.ent[e] \in Entity  BY EntityRecordYielding
<1>2. x \in Entity /\ ~x.isCommitting  BY <1>1 DEF Entity
<1>3. t = [s EXCEPT !.ent[e] = x]  BY DEF Yielding, Page
<1>4. ~t.ent[e].isCommitting  BY <1>1 DEF Yielding, Page
<1> HIDE DEF x, t
<1>5. t \in Yielding(B)  BY <1>2, <1>3, EntityYielding
<1> QED  BY <1>4, <1>5 DEF t

LEMMA FieldRecordYielding ==
  ASSUME NEW B, NEW s \in Yielding(B), NEW f \in Fields
  PROVE  s.fld[f] \in Field
BY DEF Yielding, Page

LEMMA TextYielding ==
  ASSUME NEW B, NEW s \in Yielding(B), NEW f \in Fields, NEW text \in Texts
  PROVE  [s EXCEPT !.fld[f].text = text] \in Yielding(B)
<1> DEFINE a == s.activeField
           t == [s EXCEPT !.fld[f].text = text]
<1>1. s \in Good(B \cup {a}, a)  BY YieldingIsGood
<1> HIDE DEF a
<1>2. t \in Good(B \cup {a}, a)  BY <1>1, TextGood
<1> HIDE DEF t
<1>3. t \in Yielding(B)  BY <1>2 DEF Good, Yielding
<1> QED  BY <1>3 DEF t

LEMMA FormYielding ==
  ASSUME NEW B, NEW s \in Yielding(B), NEW f \in Fields, NEW b \in BOOLEAN
  PROVE  [s EXCEPT !.fld[f].form = b] \in Yielding(B)
<1> DEFINE a == s.activeField
           t == [s EXCEPT !.fld[f].form = b]
<1>1. s \in Good(B \cup {a}, a)  BY YieldingIsGood
<1> HIDE DEF a
<1>2. t \in Good(B \cup {a}, a)  BY <1>1, FormGood
<1> HIDE DEF t
<1>3. t \in Yielding(B)  BY <1>2 DEF Good, Yielding
<1> QED  BY <1>3 DEF t

LEMMA DeferYielding ==
  ASSUME NEW B, NEW s \in Yielding(B), NEW k \in Task
  PROVE  Defer(s, k) \in Yielding(B)
<1>1. s.tasks \in Seq(Task)  BY DEF Yielding, Page
<1>2. Append(s.tasks, k) \in Seq(Task)  BY <1>1, Appended
<1> QED  BY <1>2, TasksYielding DEF Defer

LEMMA SendYielding ==
  ASSUME NEW B, NEW s \in Yielding(B), NEW e \in Entities,
         NEW kind \in {"edit", "load", "submit"}, NEW f \in Fields, e = EntityOf[f],
         NEW reset \in BOOLEAN, NEW text \in Texts
  PROVE  Send(s, kind, e, f, reset, text) \in Yielding(B)
<1> DEFINE t == Send(s, kind, e, f, reset, text)
           a == s.activeField
<1>1. s \in Good(B \cup {a}, a)  BY YieldingIsGood
<1> HIDE DEF a
<1>2. t \in Good(B \cup {a}, a)  BY <1>1, SendGood
<1> HIDE DEF t
<1>3. t \in Yielding(B)  BY <1>2 DEF Good, Yielding
<1> QED  BY <1>3 DEF t

\* A handler that activates no field; and what a handler that activates one
\* leaves active.
LEMMA Widened ==
  ASSUME NEW t \in Yielding(bypassed)
  PROVE  t \in Yielding(Bypassed(ui, t))
BY DEF Yielding, Acting, Bypassed

LEMMA ActivateBypasses ==
  ASSUME NEW s \in Yielding(bypassed), NEW f \in Fields, NEW to \in Active,
         s.activeField = ui.activeField, s.fld[f].state = ui.fld[f].state
  PROVE  Activate(s, f, to) \in Yielding(Bypassed(ui, Activate(s, f, to)))
<1> DEFINE t == Activate(s, f, to)
<1>1. /\ t \in Page /\ Held(t)
      /\ \A g \in Acting(t) : 
           \/ g \in bypassed \cup {t.activeField}
           \/ /\ g = s.activeField /\ t.activeField = f /\ f # g
              /\ s.fld[f].state \notin Ready \cup {"invalid"}
  BY ActivateYielding
<1> HIDE DEF t
<1>2. ASSUME NEW g \in Acting(t)  PROVE g \in Bypassed(ui, t) \cup {t.activeField}
  <2>1. g \in Fields /\ t.fld[g].state \in Active /\ f # None
    BY NoneIsNothing DEF Acting
  <2> QED  BY <1>1, <2>1 DEF Bypassed
<1> QED  BY <1>1, <1>2 DEF Yielding, t

LEMMA TypedBypasses ==
  ASSUME ui \in Yielding(bypassed), NEW f \in Fields, NEW text \in Texts
  PROVE  Typed(ui, f, text) \in Yielding(Bypassed(ui, Typed(ui, f, text)))
<1> DEFINE t == [ui EXCEPT !.fld[f].text = text]
           u == SetField(t, f, "changed", "")
           v == Activate(t, f, "activating")
<1>1. t.activeField = ui.activeField /\ t.fld[f].state = ui.fld[f].state
  BY DEF Yielding, Page, Field
<1>2. t \in Yielding(bypassed)  BY TextYielding
<1> HIDE DEF t
<1>3. "changed" \in Elements(FieldStates) /\ "changed" \notin Active
      /\ "activating" \in Active
  BY StatesAre DEF Active
<1>4. u \in Yielding(bypassed)  BY <1>2, <1>3, SetFieldYielding
<1>5. v \in Yielding(Bypassed(ui, v))  BY <1>1, <1>2, <1>3, ActivateBypasses
<1> HIDE DEF u, v
<1>6. u \in Yielding(Bypassed(ui, u))  BY <1>4, Widened
<1> QED  BY <1>5, <1>6 DEF Typed, t, u, v

LEMMA RunBypasses ==
  ASSUME NEW s \in Yielding(bypassed), NEW k \in Task,
         s.activeField = ui.activeField, s.fld = ui.fld
  PROVE  Run(s, k) \in Yielding(Bypassed(ui, Run(s, k)))
<1> DEFINE t == Run(s, k)
           later == [k EXCEPT !.do = "candidate"]
           last == [k EXCEPT !.do = "inactive"]
           u == SetField(s, k.f, "candidate", "")
           v == SetField(s, k.f, "inactive", "rerender")
<1>1. /\ k.do \in OnFields \cup OnEntities /\ k.e \in Entities /\ k.text \in Texts
      /\ k.do \in OnFields => k.f \in Fields
  BY DEF Task
<1>2. ASSUME k.do \in OnFields  PROVE later \in Task /\ last \in Task
  BY <1>2 DEF Task, OnFields
<1>3. CASE k.do = "activate"
  <2>1. k.f \in Fields /\ "active" \in Active  BY <1>1, <1>3 DEF OnFields, Active
  <2> DEFINE w == Activate(s, k.f, "active")
  <2>2. w \in Yielding(Bypassed(ui, w))
    BY <2>1, ActivateBypasses
  <2>3. t = w  BY <1>3 DEF Run
  <2> QED  BY <2>2, <2>3
<1>4. CASE k.do # "activate"
  <2>1. /\ k.do = "opening" => t = Opening(s, k.e)
        /\ k.do = "opened" => t = Open(s, k.e, "", Ready)
        /\ k.do = "invalid" => t = Open(s, k.e, "invalid", {})
        /\ k.do = "closing" => t = Closing(s, k.e)
        /\ k.do = "closed" => t = Closed(s, k.e)
        /\ k.do = "confirm" => t = IF s.activeModal = None
                                   THEN [s EXCEPT !.activeModal = k.e] ELSE s
        /\ k.do = "render" => t = Defer(s, later)
        /\ k.do = "candidate" => t = Defer(u, last)
        /\ k.do = "inactive" => t = Rerendered(v, k.f, k.text)
    BY DEF Run
  <2>2. CASE k.do \in OnFields
    <3>1. k.f \in Fields  BY <1>1, <2>2
    <3>2. u \in Yielding(bypassed) /\ v \in Yielding(bypassed)
      BY <3>1, SetFieldYielding, StatesAre DEF Active
    <3> HIDE DEF t, u, v
    <3>3. Defer(s, later) \in Yielding(bypassed)  BY <1>2, <2>2, DeferYielding
    <3>4. Defer(u, last) \in Yielding(bypassed)  BY <1>2, <2>2, <3>2, DeferYielding
    <3>5. Rerendered(v, k.f, k.text) \in Yielding(bypassed)
      BY <1>1, <3>1, <3>2, RerenderedYielding
    <3>6. t \in Yielding(bypassed)
      BY <1>4, <2>1, <2>2, <3>3, <3>4, <3>5 DEF OnFields
    <3> QED  BY <3>6, Widened DEF t
  <2>3. CASE k.do \in OnEntities
    <3>1. [s EXCEPT !.activeModal = k.e] \in Yielding(bypassed)
      BY <1>1 DEF Yielding, Page, Held, Acting
    <3>2. /\ Opening(s, k.e) \in Yielding(bypassed)
          /\ Open(s, k.e, "", Ready) \in Yielding(bypassed)
          /\ Open(s, k.e, "invalid", {}) \in Yielding(bypassed)
          /\ Closing(s, k.e) \in Yielding(bypassed)
          /\ Closed(s, k.e) \in Yielding(bypassed)
      BY <1>1, OpeningYielding, OpenYielding, ClosingYielding, ClosedYielding
    <3> HIDE DEF t
    <3>3. t \in Yielding(bypassed)  BY <2>1, <2>3, <3>1, <3>2 DEF OnEntities
    <3> QED  BY <3>3, Widened DEF t
  <2> QED  BY <1>1, <2>2, <2>3
<1> QED  BY <1>3, <1>4

\* The text that a stored submit is answered with.
LEMMA CopiedText ==
  ASSUME NEW r \in Request, r.kind = "submit", r.answer = "ok"
  PROVE  r.copy[r.f] \in Texts
<1>1. r.copy \in [FieldsOf(r.e) -> Texts] /\ r.f \in Fields /\ r.e = EntityOf[r.f]
  BY DEF Request, CopyFits
<1>2. r.f \in FieldsOf(r.e)  BY <1>1 DEF FieldsOf
<1> QED  BY <1>1, <1>2

LEMMA ReceiveBypasses ==
  ASSUME NEW s \in Yielding(bypassed), NEW r \in Request, r.answer # "none",
         s.activeField = ui.activeField, s.fld = ui.fld
  PROVE  Receive(s, r) \in Yielding(Bypassed(ui, Receive(s, r)))
<1> DEFINE t == Receive(s, r)
           lost1 == r.kind \in {"edit", "load"} /\ r.answer = "error"
<1>1. /\ r.kind \in {"edit", "load", "submit", "commit"} /\ r.e \in Entities
      /\ r.answer \in {"ok", "invalid", "error"} /\ r.text \in Texts
      /\ r.kind # "commit" => r.f \in Fields /\ r.e = EntityOf[r.f]
      /\ r.answer = "invalid" => r.kind = "submit"
  BY DEF Request
<1> HIDE DEF t
<1>0. r.kind = "submit" /\ r.answer = "ok" => r.copy[r.f] \in Texts
  BY CopiedText
<1> USE DEF t
<1>2. CASE lost1
  <2>1. s.activeField \in Fields \cup {None}  BY DEF Yielding, Page
  <2>2. s.activeField \in Fields =>
          SetField(s, s.activeField, "candidate", "") \in Yielding(bypassed)
    BY SetFieldYielding, StatesAre DEF Active
  <2>3. t \in Yielding(bypassed)  BY <1>2, <2>1, <2>2 DEF Receive
  <2> HIDE DEF t
  <2> QED  BY <2>3, Widened DEF t
<1>3. CASE ~lost1 /\ r.stale
  <2>1. t = s  BY <1>3 DEF Receive
  <2> QED  BY <2>1, Widened
<1>4. CASE ~lost1 /\ ~r.stale /\ r.kind = "edit"
  <2> DEFINE b == s.fld[r.f].state \in Active
             u == [s EXCEPT !.fld[r.f].form = b]
             w == Activate(u, r.f, "active")
  <2>1. r.answer = "ok" /\ r.f \in Fields  BY <1>1, <1>4
  <2>2. t = w  BY <1>4, <2>1 DEF Receive
  <2>3. u.activeField = s.activeField /\ u.fld[r.f].state = s.fld[r.f].state
    BY <2>1 DEF Yielding, Page, Field
  <2>4. b \in BOOLEAN  OBVIOUS
  <2> HIDE DEF b
  <2>5. u \in Yielding(bypassed)  BY <2>1, <2>4, FormYielding
  <2> HIDE DEF u, t
  <2>6. w \in Yielding(Bypassed(ui, w))
    BY <2>1, <2>3, <2>5, ActivateBypasses DEF Active
  <2> QED  BY <2>2, <2>6 DEF t
<1>5. CASE ~lost1 /\ ~r.stale /\ r.kind = "load"
  <2>1. r.answer = "ok" /\ r.f \in Fields  BY <1>1, <1>5
  <2>2. s.fld[r.f].text \in Texts  BY <2>1, FieldRecordYielding DEF Field
  <2>3. t = Send(s, "submit", r.e, r.f, FALSE, s.fld[r.f].text)
    BY <1>5, <2>1 DEF Receive
  <2> HIDE DEF t
  <2>4. r.e = EntityOf[r.f] /\ r.e \in Entities  BY <1>1, <1>5
  <2>5. Send(s, "submit", r.e, r.f, FALSE, s.fld[r.f].text) \in Yielding(bypassed)
    BY <2>1, <2>2, <2>4, SendYielding
  <2>6. t \in Yielding(bypassed)  BY <2>3, <2>5
  <2> QED  BY <2>6, Widened DEF t
<1>6. CASE ~lost1 /\ ~r.stale /\ r.kind = "submit"
  <2> DEFINE k == [do |-> IF r.f \in FormFields THEN "render" ELSE "candidate",
                   e |-> r.e, f |-> r.f, text |-> r.copy[r.f]]
             u == SetField(s, r.f, "saved", "")
  <2>1. r.f \in Fields  BY <1>1, <1>6
  <2>2. r.answer = "ok" => k \in Task  BY <1>0, <1>1, <1>6, <2>1 DEF Task, OnFields
  <2>3. u \in Yielding(bypassed) /\ SetField(s, r.f, "invalid", "") \in Yielding(bypassed)
    BY <2>1, SetFieldYielding, StatesAre DEF Active
  <2>4. t = IF r.answer = "ok" THEN Defer(u, k)
            ELSE IF r.answer = "invalid" THEN SetField(s, r.f, "invalid", "") ELSE s
    BY <1>1, <1>6 DEF Receive
  <2> HIDE DEF t, u, k
  <2>5. r.answer = "ok" => Defer(u, k) \in Yielding(bypassed)
    BY <2>2, <2>3, DeferYielding
  <2>6. t \in Yielding(bypassed)  BY <2>3, <2>4, <2>5
  <2> QED  BY <2>6, Widened DEF t
<1>7. CASE ~lost1 /\ ~r.stale /\ r.kind = "commit"
  <2> DEFINE u == [s EXCEPT !.ent[r.e].isCommitting = FALSE]
  <2>1. u \in Yielding(bypassed) /\ ~u.ent[r.e].isCommitting
    BY <1>1, AnsweredYielding
  <2>2. t = IF r.answer = "ok" THEN Deactivated(u, r.e, "saved")
            ELSE Open(u, r.e, "networkerror", {})
    BY <1>1, <1>7 DEF Receive
  <2> HIDE DEF t, u
  <2>3. /\ Deactivated(u, r.e, "saved") \in Yielding(bypassed)
        /\ Open(u, r.e, "networkerror", {}) \in Yielding(bypassed)
    BY <1>1, <2>1, DeactivatedYielding, OpenYielding
  <2>4. t \in Yielding(bypassed)  BY <2>2, <2>3
  <2> QED  BY <2>4, Widened DEF t
<1> QED  BY <1>1, <1>2, <1>3, <1>4, <1>5, <1>6, <1>7

LEMMA FreshYielding ==
  ASSUME NEW stored \in [Fields -> Texts], NEW B
  PROVE  Fresh(stored) \in Yielding(B)
<1> DEFINE t == Fresh(stored)
<1>1. t.ent \in [Entities -> Entity] /\ Held(t)
  BY StatesAre DEF Fresh, Entity, Held
<1>2. t.fld \in [Fields -> Field] /\ Acting(t) = {}
  BY StatesAre DEF Fresh, Field, Acting, Active
<1>3. t \in Page
  <2>1. <<>> \in Seq(Task) /\ <<>> \in Seq(Request)  OBVIOUS
  <2>2. t.own \in [Entities -> {None} \cup SUBSET Fields]  BY DEF Fresh
  <2> QED  BY <1>1, <1>2, <2>1, <2>2 DEF Fresh, Page
<1> HIDE DEF t
<1> QED  BY <1>1, <1>2, <1>3 DEF Yielding, t

-----------------------------------------------------------------------------
(* The invariant: the page is one on which every active field is activeField  *)
(* or was bypassed; with the types of the other variables.                    *)

SiteInv ==
  /\ temp = [e \in Entities |-> temp[e]]
  /\ \A e \in Entities : temp[e] \in [FieldsOf(e) -> Texts] \cup {None}
  /\ final \in [Fields -> Texts] /\ mishaps \in 0 .. MaxMishaps

RecordInv ==
  /\ edits \in Texts /\ kept \in [Fields -> Texts \cup {None}]
  /\ racing \subseteq Fields /\ lost \subseteq Fields /\ late \subseteq Fields
  /\ bypassed \subseteq Fields /\ untimely \subseteq Fields /\ discarded \subseteq Texts

PageInv == ui \in Yielding(bypassed)

Inv == PageInv /\ SiteInv /\ RecordInv

LEMMA InitInv == Init => Inv
<1> SUFFICES ASSUME Init  PROVE Inv  OBVIOUS
<1>1. 0 \in Texts /\ 0 \in 0 .. MaxMishaps  BY TextsAre, Bounds
<1>2. final \in [Fields -> Texts]  BY <1>1 DEF Init
<1>3. Fresh(final) \in Yielding(bypassed)  BY <1>2, FreshYielding
<1>4. PageInv  BY <1>3 DEF Init, PageInv
<1>5. SiteInv  BY <1>1, <1>2 DEF Init, SiteInv
<1>6. RecordInv  BY <1>1 DEF Init, RecordInv
<1> QED  BY <1>4, <1>5, <1>6 DEF Inv

\* A step of the page that shows page t.
LEMMA ShowInv ==
  ASSUME Inv, NEW t, t \in Yielding(Bypassed(ui, t)), Show(t), ServerSame,
         edits' \in Texts, mishaps' \in 0 .. MaxMishaps
  PROVE  Inv'
<1>1. PageInv'  BY DEF Show, PageInv
<1>2. SiteInv'  BY DEF Inv, SiteInv, ServerSame
<1>3. RecordInv'
  <2>1. Bypassed(ui, t) \subseteq Fields /\ Reverted(ui, t) \subseteq Fields
    BY DEF Bypassed, Reverted
  <2> QED  BY <2>1 DEF Inv, RecordInv, ServerSame, Show
<1> QED  BY <1>1, <1>2, <1>3 DEF Inv

LEMMA EditsKept == ASSUME Inv, UNCHANGED edits  PROVE edits' \in Texts
BY DEF Inv, RecordInv

LEMMA MishapsType ==
  ASSUME Inv, Idle \/ UNCHANGED mishaps \/ (mishaps < MaxMishaps /\ mishaps' = mishaps + 1)
  PROVE  mishaps' \in 0 .. MaxMishaps
BY Bounds DEF Idle, Inv, SiteInv

LEMMA UserInv == ASSUME Inv, User  PROVE Inv'
<1>1. ui \in Yielding(bypassed)  BY DEF Inv, PageInv
<1>2. ASSUME NEW e \in Entities, ClickQuickEdit(e)  PROVE Inv'
  <2> DEFINE t == Launch(ui, e)
  <2>1. t \in Yielding(bypassed)  BY <1>1, <1>2, LaunchYielding DEF ClickQuickEdit
  <2> HIDE DEF t
  <2>2. t \in Yielding(Bypassed(ui, t))  BY <2>1, Widened
  <2>3. Show(t) /\ ServerSame /\ edits' \in Texts /\ mishaps' \in 0 .. MaxMishaps
    BY <1>2, EditsKept, MishapsType DEF ClickQuickEdit, t
  <2> QED  BY <2>2, <2>3, ShowInv
<1>3. ASSUME NEW f \in Fields, MouseEnter(f)  PROVE Inv'
  <2> DEFINE t == SetField(ui, f, "highlighted", "")
  <2>1. t \in Yielding(bypassed)  BY <1>1, SetFieldYielding, StatesAre DEF Active
  <2> HIDE DEF t
  <2>2. t \in Yielding(Bypassed(ui, t))  BY <2>1, Widened
  <2>3. Show(t) /\ ServerSame /\ edits' \in Texts /\ mishaps' \in 0 .. MaxMishaps
    BY <1>3, EditsKept, MishapsType DEF MouseEnter, t
  <2> QED  BY <2>2, <2>3, ShowInv
<1>4. ASSUME NEW f \in Fields, MouseLeave(f)  PROVE Inv'
  <2> DEFINE t == SetField(ui, f, "candidate", "mouseleave")
  <2>1. t \in Yielding(bypassed)  BY <1>1, SetFieldYielding, StatesAre DEF Active
  <2> HIDE DEF t
  <2>2. t \in Yielding(Bypassed(ui, t))  BY <2>1, Widened
  <2>3. Show(t) /\ ServerSame /\ edits' \in Texts /\ mishaps' \in 0 .. MaxMishaps
    BY <1>4, EditsKept, MishapsType DEF MouseLeave, t
  <2> QED  BY <2>2, <2>3, ShowInv
<1>5. ASSUME NEW f \in Fields, Click(f)  PROVE Inv'
  <2> DEFINE t == Activate(ui, f, "activating")
  <2>1. t \in Yielding(Bypassed(ui, t))  BY <1>1, ActivateBypasses DEF Active
  <2> HIDE DEF t
  <2>2. Show(t) /\ ServerSame /\ edits' \in Texts /\ mishaps' \in 0 .. MaxMishaps
    BY <1>5, EditsKept, MishapsType DEF Click, t
  <2> QED  BY <2>1, <2>2, ShowInv
<1>6. ASSUME NEW f \in Fields, Edit(f)  PROVE Inv'
  <2> DEFINE text == edits + 1
             t == Typed(ui, f, text)
  <2>1. text \in Texts  BY <1>6, Bounds DEF Edit, Inv, RecordInv, Texts
  <2>2. /\ ui' = t /\ bypassed' = Bypassed(ui, t) /\ edits' = text
        /\ lost' = lost \cup (Reverted(ui, t) \ (untimely \cup racing \cup late \cup {f}))
        /\ untimely' \subseteq untimely \cup {f} /\ ServerSame
    BY <1>6 DEF Edit
  <2>3. mishaps' \in 0 .. MaxMishaps  BY <1>6, MishapsType DEF Edit
  <2> HIDE DEF text
  <2>4. t \in Yielding(Bypassed(ui, t))  BY <1>1, <2>1, TypedBypasses
  <2> HIDE DEF t
  <2>5. PageInv'  BY <2>2, <2>4 DEF PageInv
  <2>6. SiteInv'  BY <2>2, <2>3 DEF Inv, SiteInv, ServerSame
  <2>7. Bypassed(ui, t) \subseteq Fields /\ Reverted(ui, t) \subseteq Fields
    BY DEF Bypassed, Reverted
  <2>8. RecordInv'  BY <2>1, <2>2, <2>7 DEF Inv, RecordInv, ServerSame
  <2> QED  BY <2>5, <2>6, <2>8 DEF Inv
<1>7. ASSUME NEW e \in Entities, ClickSave(e)  PROVE Inv'
  <2> DEFINE t == Commit(ui, e)
  <2>1. t \in Yielding(bypassed)  BY <1>1, CommitYielding
  <2> HIDE DEF t
  <2>2. t \in Yielding(Bypassed(ui, t))  BY <2>1, Widened
  <2>3. Show(t) /\ ServerSame /\ edits' \in Texts /\ mishaps' \in 0 .. MaxMishaps
    BY <1>7, EditsKept, MishapsType DEF ClickSave, t
  <2> QED  BY <2>2, <2>3, ShowInv
<1>8. ASSUME NEW e \in Entities, ClickClose(e)  PROVE Inv'
  <2> DEFINE t == Deactivate(ui, e, "")
  <2>1. t \in Yielding(bypassed)  BY <1>1, DeactivateYielding
  <2> HIDE DEF t
  <2>2. t \in Yielding(Bypassed(ui, t))  BY <2>1, Widened
  <2>3. Show(t) /\ ServerSame /\ edits' \in Texts /\ mishaps' \in 0 .. MaxMishaps
    BY <1>8, EditsKept, MishapsType DEF ClickClose, t
  <2> QED  BY <2>2, <2>3, ShowInv
<1> DEFINE e == ui.activeModal
           u == [ui EXCEPT !.activeModal = None]
<1>9. ui.activeModal \in Entities \cup {None}  BY <1>1 DEF Yielding, Page
<1>10. u \in Yielding(bypassed)  BY <1>1 DEF Yielding, Page, Held, Acting
<1>11. CASE Confirm
  <2> DEFINE t == Commit(u, e)
  <2>1. e \in Entities  BY <1>9, <1>11 DEF Confirm
  <2> HIDE DEF u, e
  <2>2. t \in Yielding(bypassed)  BY <1>10, <2>1, CommitYielding
  <2> HIDE DEF t
  <2>3. t \in Yielding(Bypassed(ui, t))  BY <2>2, Widened
  <2>4. Show(t) /\ ServerSame /\ edits' \in Texts /\ mishaps' \in 0 .. MaxMishaps
    BY <1>11, EditsKept, MishapsType DEF Confirm, t, u, e
  <2> QED  BY <2>3, <2>4, ShowInv
<1>12. CASE Discard
  <2> DEFINE v == Deactivate(u, e, "confirmed")
             t == MarkReload(v, e)
             texts == {ui.fld[f].text : f \in {g \in FieldsOf(e) : ui.fld[g].text # final[g]}}
  <2>1. e \in Entities  BY <1>9, <1>12 DEF Discard
  <2>2. \A f \in Fields : ui.fld[f].text \in Texts
    BY <1>1, FieldRecordYielding DEF Field
  <2>3. texts \subseteq Texts  BY <2>2 DEF FieldsOf
  <2>4. /\ ui' = t /\ bypassed' = Bypassed(ui, ui')
        /\ kept' = [f \in Fields |-> IF EntityOf[f] = e THEN None ELSE kept[f]]
        /\ discarded' = discarded \cup texts
        /\ UNCHANGED <<temp, final, edits, mishaps, racing, lost, late, untimely>>
    BY <1>12 DEF Discard
  <2> HIDE DEF u, e, texts
  <2>5. v \in Yielding(bypassed)  BY <1>10, <2>1, DeactivateYielding
  <2> HIDE DEF v
  <2>6. t \in Yielding(bypassed)  BY <2>1, <2>5, MarkReloadYielding
  <2> HIDE DEF t
  <2>7. t \in Yielding(Bypassed(ui, t))  BY <2>6, Widened
  <2>8. PageInv'  BY <2>4, <2>7 DEF PageInv
  <2>9. SiteInv'  BY <2>4 DEF Inv, SiteInv
  <2>10. RecordInv'
    <3>1. Bypassed(ui, t) \subseteq Fields  BY DEF Bypassed
    <3> QED  BY <2>3, <2>4, <3>1 DEF Inv, RecordInv
  <2> QED  BY <2>8, <2>9, <2>10 DEF Inv
<1> QED
  BY <1>2, <1>3, <1>4, <1>5, <1>6, <1>7, <1>8, <1>11, <1>12 DEF User

LEMMA RunTaskInv == ASSUME Inv, RunTask  PROVE Inv'
<1> DEFINE q == Tail(ui.tasks)
           k == Head(ui.tasks)
           s == [ui EXCEPT !.tasks = q]
           t == Run(s, k)
<1>1. ui \in Yielding(bypassed)  BY DEF Inv, PageInv
<1>2. ui.tasks \in Seq(Task) /\ ui.tasks # <<>>  BY <1>1 DEF RunTask, Yielding, Page
<1>3. q \in Seq(Task) /\ k \in Task  BY <1>2
<1>4. s.activeField = ui.activeField /\ s.fld = ui.fld  BY <1>1 DEF Yielding, Page
<1>5. Show(t) /\ ServerSame /\ edits' \in Texts /\ mishaps' \in 0 .. MaxMishaps
  BY EditsKept, MishapsType DEF RunTask
<1> HIDE DEF q, k
<1>6. s \in Yielding(bypassed)  BY <1>1, <1>3, TasksYielding
<1> HIDE DEF s
<1>7. t \in Yielding(Bypassed(ui, t))  BY <1>3, <1>4, <1>6, RunBypasses
<1> HIDE DEF t
<1> QED  BY <1>5, <1>7, ShowInv

LEMMA RequestOut ==
  ASSUME Inv, NEW i \in DOMAIN ui.out
  PROVE  ui.out[i] \in Request /\ ui.out \in Seq(Request)
<1>1. ui.out \in Seq(Request)  BY DEF Inv, PageInv, Yielding, Page
<1> QED  BY <1>1

LEMMA BelatedType ==
  ASSUME NEW r \in Request
  PROVE  Belated(r) \subseteq Fields
BY DEF Belated, Request, FieldsOf

LEMMA AnswerInv == ASSUME Inv, NEW i \in DOMAIN ui.out, Answer(i)  PROVE Inv'
<1> DEFINE r == ui.out[i]
           q == RemoveAt(ui.out, i)
           s == [ui EXCEPT !.out = q]
           t == Receive(s, r)
           stored == /\ r.kind = "submit" /\ r.answer = "ok" /\ ~r.stale
                     /\ ui.ent[r.e].state \in {"opened", "committing"}
<1>1. ui \in Yielding(bypassed)  BY DEF Inv, PageInv
<1>2. r \in Request /\ ui.out \in Seq(Request)  BY RequestOut
<1>3. r.answer # "none"  BY DEF Answer
<1>4. q \in Seq(Request)  BY <1>2 DEF RemoveAt
<1>5. s.activeField = ui.activeField /\ s.fld = ui.fld  BY <1>1 DEF Yielding, Page
<1>6. /\ ui' = t /\ bypassed' = Bypassed(ui, t) /\ late' = late \cup Belated(r)
      /\ lost' \subseteq lost \cup Reverted(ui, t)
      /\ UNCHANGED <<temp, final, edits, mishaps, untimely, discarded>>
  BY DEF Answer
<1>7. /\ kept' = IF stored THEN [kept EXCEPT ![r.f] = r.text] ELSE kept
      /\ racing' = racing \/ (stored /\ racing' \subseteq racing \cup {r.f})
  BY DEF Answer
<1>8. r.text \in Texts /\ (stored => r.f \in Fields)
  BY <1>2 DEF Request
<1>9. Belated(r) \subseteq Fields  BY <1>2, BelatedType
<1> HIDE DEF q, r, stored
<1>10. s \in Yielding(bypassed)  BY <1>1, <1>4, OutYielding
<1> HIDE DEF s
<1>11. t \in Yielding(Bypassed(ui, t))  BY <1>2, <1>3, <1>5, <1>10, ReceiveBypasses
<1> HIDE DEF t
<1>12. PageInv'  BY <1>6, <1>11 DEF PageInv
<1>13. SiteInv'  BY <1>6 DEF Inv, SiteInv
<1>14. kept' \in [Fields -> Texts \cup {None}]
  <2>1. kept \in [Fields -> Texts \cup {None}]  BY DEF Inv, RecordInv
  <2> QED  BY <1>7, <1>8, <2>1
<1>15. Bypassed(ui, t) \subseteq Fields /\ Reverted(ui, t) \subseteq Fields
  BY DEF Bypassed, Reverted
<1>16. racing' \subseteq Fields  BY <1>7, <1>8 DEF Inv, RecordInv
<1>17. RecordInv'  BY <1>6, <1>9, <1>14, <1>15, <1>16 DEF Inv, RecordInv
<1> QED  BY <1>12, <1>13, <1>17 DEF Inv

\* The site takes request i one step on.
LEMMA ServedYielding ==
  ASSUME Inv, NEW i \in DOMAIN ui.out, NEW o \in Request
  PROVE  [ui EXCEPT !.out[i] = o] \in Yielding(bypassed)
<1> DEFINE q == [ui.out EXCEPT ![i] = o]
<1>1. ui \in Yielding(bypassed)  BY DEF Inv, PageInv
<1>2. ui.out \in Seq(Request)  BY RequestOut
<1>3. [ui EXCEPT !.out[i] = o] = [ui EXCEPT !.out = q]
  BY <1>1 DEF Yielding, Page
<1>4. q \in Seq(Request)  BY <1>2
<1> HIDE DEF q
<1> QED  BY <1>1, <1>3, <1>4, OutYielding

\* It notes what it has read, or answers.
LEMMA AtInv ==
  ASSUME Inv, NEW i \in DOMAIN ui.out, UNCHANGED bypassed, ui.out[i].answer = "none",
         NEW at \in Stages, NEW copy \in Copies, At(i, at, copy),
         copy # None => copy \in [FieldsOf(ui.out[i].e) -> Texts],
         at \in {"loaded", "missing", "got"} => copy # None,
         at \in {"loaded", "missing", "stored"} => ui.out[i].kind # "commit",
         at = "saved" => ui.out[i].kind = "commit"
  PROVE  PageInv'
<1> DEFINE r == ui.out[i]
           o == [r EXCEPT !.at = at, !.copy = copy]
<1>1. r \in Request  BY RequestOut
<1>2. o \in Request  BY <1>1 DEF Request, CopyFits
<1>3. ui' = [ui EXCEPT !.out[i] = o]  BY DEF At
<1> HIDE DEF o, r
<1>4. ui' \in Yielding(bypassed)  BY <1>2, <1>3, ServedYielding
<1> QED  BY <1>4 DEF PageInv

LEMMA ReplyInv ==
  ASSUME Inv, NEW i \in DOMAIN ui.out, UNCHANGED bypassed,
         NEW answer \in {"ok", "invalid", "error"}, NEW copy \in Copies,
         Reply(i, answer, copy),
         copy # None => copy \in [FieldsOf(ui.out[i].e) -> Texts],
         answer = "ok" /\ ui.out[i].kind = "submit" => copy # None,
         answer = "invalid" => ui.out[i].kind = "submit"
  PROVE  PageInv'
<1> DEFINE r == ui.out[i]
           o == [r EXCEPT !.at = "done", !.copy = copy, !.answer = answer]
<1>1. r \in Request  BY RequestOut
<1>2. o \in Request  BY <1>1 DEF Request, CopyFits, Stages
<1>3. ui' = [ui EXCEPT !.out[i] = o]  BY DEF Reply
<1> HIDE DEF o, r
<1>4. ui' \in Yielding(bypassed)  BY <1>2, <1>3, ServedYielding
<1> QED  BY <1>4 DEF PageInv

\* What a request that is under way has read.
LEMMA CopyRead ==
  ASSUME Inv, NEW i \in DOMAIN ui.out, ui.out[i].answer = "none",
         ui.out[i].at \in {"loaded", "missing", "got"}
  PROVE  /\ ui.out[i].copy \in [FieldsOf(ui.out[i].e) -> Texts]
         /\ ui.out[i].copy \in Copies /\ ui.out[i].copy # None
         /\ ui.out[i].at # "got" => ui.out[i].kind # "commit"
<1>1. ui.out[i] \in Request  BY RequestOut
<1> QED  BY <1>1 DEF Request, CopyFits

LEMMA CopyType ==
  ASSUME NEW e \in Entities, NEW copy \in [FieldsOf(e) -> Texts]
  PROVE  copy \in Copies /\ copy # None
BY NoneIsNothing DEF Copies

LEMMA ServeInv == ASSUME Inv, NEW i \in DOMAIN ui.out, Serve(i)  PROVE Inv'
<1> DEFINE r == ui.out[i]
           e == r.e
<1>1. r \in Request  BY RequestOut
<1>2. /\ e \in Entities /\ r.text \in Texts /\ r.kind \in {"edit", "load", "submit", "commit"}
      /\ r.kind # "commit" => r.f \in FieldsOf(e)
  BY <1>1 DEF Request, FieldsOf
<1>3. SiteInv  BY DEF Inv
<1>4. /\ UNCHANGED <<edits, racing, lost, late, bypassed, untimely, discarded>>
      /\ r.answer = "none"
  BY DEF Serve
<1>5. ASSUME kept' \in [Fields -> Texts \cup {None}]  PROVE RecordInv'
  BY <1>4, <1>5 DEF Inv, RecordInv
<1>6. kept \in [Fields -> Texts \cup {None}] /\ (UNCHANGED kept => RecordInv')
  BY <1>5 DEF Inv, RecordInv
<1>7. ASSUME NEW x \in [FieldsOf(e) -> Texts] \cup {None},
             temp' = [temp EXCEPT ![e] = x], final' \in [Fields -> Texts],
             mishaps' \in 0 .. MaxMishaps
      PROVE  SiteInv'
  BY <1>2, <1>3, <1>7 DEF SiteInv
<1>8. final \in [Fields -> Texts] /\ mishaps \in 0 .. MaxMishaps  BY <1>3 DEF SiteInv
<1>9. ASSUME UNCHANGED <<temp, final>>, mishaps' \in 0 .. MaxMishaps  PROVE SiteInv'
  BY <1>3, <1>9 DEF SiteInv
<1>10. mishaps < MaxMishaps /\ mishaps' = mishaps + 1 => mishaps' \in 0 .. MaxMishaps
  BY MishapsType
<1>11. None \in Copies /\ {"sent", "loaded", "missing", "got", "stored", "saved"} \subseteq Stages
  BY DEF Copies, Stages
<1>12. temp[e] # None => temp[e] \in [FieldsOf(e) -> Texts]  BY <1>2, <1>3 DEF SiteInv
<1>13. r.at \in {"loaded", "missing", "got"} =>
         /\ r.copy \in [FieldsOf(e) -> Texts] /\ r.copy \in Copies /\ r.copy # None
         /\ r.at # "got" => r.kind # "commit"
  BY <1>4, CopyRead
<1>14. CASE LoadEntity(i)
  <2> DEFINE x == [f \in FieldsOf(e) |-> final[f]]
  <2>1. x \in [FieldsOf(e) -> Texts]  BY <1>8 DEF FieldsOf
  <2>2. At(i, "loaded", x) /\ r.kind # "commit" /\ UNCHANGED <<temp, final, mishaps, kept>>
    BY <1>14 DEF LoadEntity
  <2> HIDE DEF x
  <2>3. x \in Copies /\ x # None  BY <1>2, <2>1, CopyType
  <2>4. PageInv'  BY <1>4, <1>11, <2>1, <2>2, <2>3, AtInv
  <2> QED  BY <1>6, <1>8, <1>9, <2>2, <2>4 DEF Inv
<1>15. CASE GetCopy(i)
  <2>1. /\ r.at = "loaded" /\ UNCHANGED <<temp, final, mishaps, kept>>
        /\ \/ At(i, "missing", r.copy)
           \/ temp[e] # None /\ At(i, "got", temp[e])
    BY <1>15 DEF GetCopy
  <2>2. temp[e] # None => temp[e] \in Copies  BY <1>2, <1>12, CopyType
  <2>3. CASE At(i, "missing", r.copy)
    <3>1. PageInv'  BY <1>4, <1>11, <1>13, <2>1, <2>3, AtInv
    <3> QED  BY <1>6, <1>8, <1>9, <2>1, <3>1 DEF Inv
  <2>4. CASE temp[e] # None /\ At(i, "got", temp[e])
    <3>1. PageInv'  BY <1>4, <1>11, <1>12, <2>2, <2>4, AtInv
    <3> QED  BY <1>6, <1>8, <1>9, <2>1, <3>1 DEF Inv
  <2> QED  BY <2>1, <2>3, <2>4
<1>16. CASE InitCopy(i)
  <2>1. /\ r.at = "missing" /\ UNCHANGED <<final, mishaps, kept>>
        /\ temp' = [temp EXCEPT ![e] = r.copy] /\ At(i, "got", r.copy)
    BY <1>16 DEF InitCopy
  <2>2. PageInv'  BY <1>4, <1>11, <1>13, <2>1, AtInv
  <2>3. SiteInv'  BY <1>7, <1>8, <1>13, <2>1
  <2> QED  BY <1>6, <2>1, <2>2, <2>3 DEF Inv
<1>17. CASE ServeForm(i)
  <2>1. /\ r.kind # "submit" /\ Reply(i, "ok", None)
        /\ UNCHANGED <<temp, final, mishaps, kept>>
    BY <1>17 DEF ServeForm
  <2>2. PageInv'  BY <1>4, <1>11, <2>1, ReplyInv
  <2> QED  BY <1>6, <1>8, <1>9, <2>1, <2>2 DEF Inv
<1>18. CASE Reject(i)
  <2>1. /\ r.kind = "submit" /\ mishaps < MaxMishaps /\ mishaps' = mishaps + 1
        /\ Reply(i, "invalid", None) /\ UNCHANGED <<temp, final, kept>>
    BY <1>18 DEF Reject
  <2>2. PageInv'  BY <1>4, <1>11, <2>1, ReplyInv
  <2> QED  BY <1>6, <1>9, <1>10, <2>1, <2>2 DEF Inv
<1>19. CASE StoreCopy(i)
  <2> DEFINE x == [r.copy EXCEPT ![r.f] = r.text]
  <2>1. /\ r.at = "got" /\ r.kind = "submit" /\ At(i, "stored", None)
        /\ temp' = [temp EXCEPT ![e] = x] /\ UNCHANGED <<final, mishaps, kept>>
    BY <1>19 DEF StoreCopy
  <2>2. x \in [FieldsOf(e) -> Texts]  BY <1>2, <1>13, <2>1
  <2> HIDE DEF x
  <2>3. PageInv'  BY <1>4, <1>11, <2>1, AtInv
  <2>4. SiteInv'  BY <1>7, <1>8, <2>1, <2>2
  <2> QED  BY <1>6, <2>1, <2>3, <2>4 DEF Inv
<1>20. CASE ServeSubmit(i)
  <2>1. /\ UNCHANGED <<temp, final, mishaps, kept>>
        /\ \/ Reply(i, "error", None)
           \/ temp[e] # None /\ Reply(i, "ok", temp[e])
    BY <1>20 DEF ServeSubmit
  <2>2. temp[e] # None => temp[e] \in Copies  BY <1>2, <1>12, CopyType
  <2>3. PageInv'  BY <1>4, <1>11, <1>12, <2>1, <2>2, ReplyInv
  <2> QED  BY <1>6, <1>8, <1>9, <2>1, <2>3 DEF Inv
<1>21. CASE GetToSave(i)
  <2>1. /\ UNCHANGED <<temp, final, mishaps, kept>>
        /\ \/ Reply(i, "error", None)
           \/ temp[e] # None /\ At(i, "got", temp[e])
    BY <1>21 DEF GetToSave
  <2>2. temp[e] # None => temp[e] \in Copies  BY <1>2, <1>12, CopyType
  <2>3. CASE Reply(i, "error", None)
    <3>1. PageInv'  BY <1>4, <1>11, <2>3, ReplyInv
    <3> QED  BY <1>6, <1>8, <1>9, <2>1, <3>1 DEF Inv
  <2>4. CASE temp[e] # None /\ At(i, "got", temp[e])
    <3>1. PageInv'  BY <1>4, <1>11, <1>12, <2>2, <2>4, AtInv
    <3> QED  BY <1>6, <1>8, <1>9, <2>1, <3>1 DEF Inv
  <2> QED  BY <2>1, <2>3, <2>4
<1>22. CASE SaveEntity(i)
  <2>1. /\ r.at = "got" /\ r.kind = "commit" /\ At(i, "saved", None)
        /\ UNCHANGED <<temp, mishaps>>
        /\ final' = [f \in Fields |-> IF EntityOf[f] = e THEN r.copy[f] ELSE final[f]]
        /\ kept' = [f \in Fields |->
                      IF EntityOf[f] = e /\ kept[f] # None /\ r.copy[f] >= kept[f]
                      THEN None ELSE kept[f]]
    BY <1>22 DEF SaveEntity
  <2>2. final' \in [Fields -> Texts]  BY <1>8, <1>13, <2>1 DEF FieldsOf
  <2>3. kept' \in [Fields -> Texts \cup {None}]  BY <1>6, <2>1
  <2>4. PageInv'  BY <1>4, <1>11, <2>1, AtInv
  <2>5. SiteInv'  BY <1>3, <1>8, <2>1, <2>2 DEF SiteInv
  <2> QED  BY <1>5, <2>3, <2>4, <2>5 DEF Inv
<1>23. CASE ServeCommit(i)
  <2>1. /\ r.at = "saved" /\ temp' = [temp EXCEPT ![e] = None]
        /\ \/ Reply(i, "ok", None) /\ UNCHANGED mishaps
           \/ Reply(i, "error", None) /\ mishaps < MaxMishaps /\ mishaps' = mishaps + 1
        /\ UNCHANGED <<final, kept>>
    BY <1>23 DEF ServeCommit
  <2>2. SiteInv'  BY <1>7, <1>8, <1>10, <2>1
  <2>3. r.kind = "commit"  BY <1>1, <2>1, <1>4 DEF Request, CopyFits
  <2>4. PageInv'  BY <1>4, <1>11, <2>1, <2>3, ReplyInv
  <2> QED  BY <1>6, <2>1, <2>2, <2>4 DEF Inv
<1>24. CASE Fail(i)
  <2>1. /\ mishaps < MaxMishaps /\ mishaps' = mishaps + 1
        /\ Reply(i, "error", None) /\ UNCHANGED <<temp, final, kept>>
    BY <1>24 DEF Fail
  <2>2. PageInv'  BY <1>4, <1>11, <2>1, ReplyInv
  <2> QED  BY <1>6, <1>9, <1>10, <2>1, <2>2 DEF Inv
<1> QED
  BY <1>14, <1>15, <1>16, <1>17, <1>18, <1>19, <1>20, <1>21, <1>22, <1>23, <1>24 DEF Serve

LEMMA ReloadInv == ASSUME Inv, Reload  PROVE Inv'
<1> DEFINE out == Chosen(ui.out, {i \in DOMAIN ui.out : ui.out[i].answer = "none"})
           q == [i \in DOMAIN out |-> [out[i] EXCEPT !.stale = TRUE]]
           t == Fresh(final)
<1>1. ui.out \in Seq(Request)  BY DEF Inv, PageInv, Yielding, Page
<1>2. out \in Seq(Request)  BY <1>1, ChosenType
<1>3. /\ ui' = [t EXCEPT !.out = q] /\ kept' = [f \in Fields |-> None]
      /\ late' = {} /\ bypassed' = {} /\ untimely' = {} /\ racing' = {}
      /\ UNCHANGED <<temp, final, edits, mishaps, lost, discarded>>
  BY DEF Reload
<1> HIDE DEF out
<1>4. q \in Seq(Request)  BY <1>2, StaleRequests
<1> HIDE DEF q
<1>5. t \in Yielding({})  BY FreshYielding DEF Inv, SiteInv
<1> HIDE DEF t
<1>6. PageInv'  BY <1>3, <1>4, <1>5, OutYielding DEF PageInv
<1>7. SiteInv'  BY <1>3 DEF Inv, SiteInv
<1>8. RecordInv'  BY <1>3 DEF Inv, RecordInv
<1> QED  BY <1>6, <1>7, <1>8 DEF Inv

LEMMA Invariance == Spec => []Inv
<1>1. Inv /\ [Next]_vars => Inv'
  <2> SUFFICES ASSUME Inv, [Next]_vars  PROVE Inv'  OBVIOUS
  <2>1. CASE UNCHANGED vars
    <3>1. UNCHANGED <<ui, bypassed>>  BY <2>1 DEF vars
    <3>2. PageInv'  BY <3>1 DEF Inv, PageInv
    <3>3. SiteInv'  BY <2>1 DEF Inv, SiteInv, vars
    <3>4. RecordInv'  BY <2>1 DEF Inv, RecordInv, vars
    <3> QED  BY <3>2, <3>3, <3>4 DEF Inv
  <2>2. CASE Next
    BY <2>2, UserInv, RunTaskInv, AnswerInv, ServeInv, ReloadInv DEF Next
  <2> QED  BY <2>1, <2>2
<1> QED  BY InitInv, <1>1, PTL DEF Spec

\* Every variable has its type, and the mutex: an entity whose commit is under
\* way stays in the state "committing" until the answer comes
\* (EntityModel.validate() and the isCommitting attribute).
THEOREM TypesHold == Spec => []TypeOK
<1>1. Inv => TypeOK
  <2> SUFFICES ASSUME Inv  PROVE TypeOK  OBVIOUS
  <2>1. ui \in Page /\ Held(ui)  BY DEF Inv, PageInv, Yielding
  <2>2. \A i \in DOMAIN ui.out :
          /\ ui.out[i].kind \in {"edit", "load", "submit", "commit"} /\ ui.out[i].at \in Stages
          /\ ui.out[i].copy \in [FieldsOf(ui.out[i].e) -> Texts] \cup {None}
    BY RequestOut DEF Request, CopyFits
  <2>3. /\ ui.ent \in [Entities -> Entity] /\ ui.fld \in [Fields -> Field]
        /\ ui.own \in [Entities -> {None} \cup SUBSET Fields] /\ ui.shared \subseteq Fields
        /\ ui.activeField \in Fields \cup {None}
        /\ ui.activeModal \in Entities \cup {None}
        /\ ui.reload \in BOOLEAN /\ ui.loading \in BOOLEAN
    BY <2>1 DEF Page
  <2> QED
    BY <2>1, <2>2, <2>3 DEF Inv, SiteInv, RecordInv, TypeOK, Entity, Field, Held
<1> QED  BY <1>1, Invariance, PTL

\* At most one field of the page is taken up or active, besides fields that were
\* bypassed: whoever takes up a field that is ready, or invalid, has the active
\* one yield first (AppView.acceptEditorStateChange()).
THEOREM OneIsEdited == Spec => []OneEditor
<1>1. Inv => OneEditor
  <2> SUFFICES ASSUME Inv  PROVE OneEditor  OBVIOUS
  <2> DEFINE S == {f \in Fields \ bypassed : ui.fld[f].state \in Active}
             T == {ui.activeField}
  <2>1. Acting(ui) \subseteq bypassed \cup {ui.activeField}
    BY DEF Inv, PageInv, Yielding
  <2>2. S \in SUBSET T  BY <2>1 DEF Acting
  <2> HIDE DEF S
  <2>3. IsFiniteSet(T) /\ Cardinality(T) = 1  BY FS_Singleton
  <2> HIDE DEF T
  <2>4. Cardinality(S) <= Cardinality(T)  BY <2>2, <2>3, FS_Subset
  <2>5. Cardinality(S) <= 1  BY <2>3, <2>4
  <2> QED  BY <2>5 DEF OneEditor, S
<1> QED  BY <1>1, Invariance, PTL
-----------------------------------------------------------------------------
(* What the rest needs of a page. The context c tells what the page relies on *)
(* and the page does not change: kept and edits, the fields of racing and     *)
(* late, the fields with a text that the temp store has to keep (unsafe); and *)
(* the fields that a handler is about to set right (loose, stray).            *)

\* A request that stores a field, and one that commits an entity.
Storing(r) == r.kind \in {"load", "submit"} /\ ~r.stale
Committing(r) == r.kind = "commit" /\ ~r.stale

\* A form that will start the copy of e over; a commit that is to delete it, or
\* that has and the page does not know.
Resets(r, e) == /\ r.e = e /\ r.reset
                /\ r.answer = "none" /\ r.at \in {"sent", "loaded"}
Committed(r, e) == /\ r.e = e /\ r.kind = "commit"
                   /\ \/ ~r.stale /\ r.answer = "ok"
                      \/ r.answer = "none" /\ (r.stale \/ r.at = "saved")

\* A request that is to write a copy without the text that is kept of field f;
\* and all that takes such a text from the temp store.
Overwrites(c, r, f) == /\ r.e = EntityOf[f] /\ r.answer = "none" /\ ToWrite(r)
                       /\ c.kept[f] # None /\ ~(r.copy[f] >= c.kept[f])
Spoils(c, r, f) ==
  Resets(r, EntityOf[f]) \/ Committed(r, EntityOf[f]) \/ Overwrites(c, r, f)

\* A field with an edit that was not stored, and one that is not taken up.
Unsent == {"changed", "saving", "invalid"}
Resting == {"inactive"} \cup Ready

\* One request at most stores a field, and the field waits for it.
OneStore(c, s) ==
  \A i \in DOMAIN s.out : Storing(s.out[i]) /\ s.out[i].f \notin c.stray =>
    /\ s.fld[s.out[i].f].state = "saving"
    /\ \A j \in DOMAIN s.out : Storing(s.out[j]) /\ s.out[j].f = s.out[i].f => j = i

OneCommit(s) ==
  \A i \in DOMAIN s.out : Committing(s.out[i]) =>
    /\ s.ent[s.out[i].e].isCommitting
    /\ \A j \in DOMAIN s.out : Committing(s.out[j]) /\ s.out[j].e = s.out[i].e => j = i

\* Text x of f is not older than the text that was stored for it.
NotOlder(c, f, x) == x <= c.edits /\ (c.kept[f] # None => c.kept[f] <= x)

UnsentFits(c, s) ==
  \A f \in Fields : s.fld[f].state \in Unsent => NotOlder(c, f, s.fld[f].text)
SubmitFits(c, r) ==
  r.kind = "submit" => /\ r.text <= c.edits
                       /\ r.answer = "none" /\ r.f \notin c.racing => NotOlder(c, r.f, r.text)
SubmitsFit(c, s) == \A i \in DOMAIN s.out : SubmitFits(c, s.out[i])

\* The entity of an unsafe field knows of the temp store, is not left, and no
\* request that is out takes the text away.
Guarded(c, s) ==
  \A f \in c.unsafe :
    /\ s.ent[EntityOf[f]].state \in {"opened", "committing"}
    /\ s.ent[EntityOf[f]].inTempStore /\ f \in InTempStore(s, EntityOf[f])
    /\ \A i \in DOMAIN s.out : ~Spoils(c, s.out[i], f)

Is(k, what, e) == k.do = what /\ k.e = e

\* Tasks that close an entity come in order.
Ordered(s) ==
  \A e \in Entities : \A i \in DOMAIN s.tasks :
    /\ Is(s.tasks[i], "closing", e) => s.ent[e].state \in {"deactivating", "closing"}
    /\ \A j \in DOMAIN s.tasks : i < j =>
         /\ s.ent[e].state = "deactivating" =>
              ~(Is(s.tasks[i], "closing", e) /\ Is(s.tasks[j], "closed", e))
         /\ s.ent[e].state = "closing" =>
              ~(Is(s.tasks[i], "closed", e) /\ Is(s.tasks[j], "closing", e))

\* The active field was taken up; a closed entity has no views.
TakenUp(c, s) ==
  \A f \in Fields \ c.loose : s.activeField = f => s.fld[f].state \notin Resting
Viewless(s) ==
  \A e \in Entities : s.ent[e].state = "closed" => ~s.ent[e].isActive
ViewlessFields(s) ==
  \A f \in Fields : s.ent[EntityOf[f]].state = "closed" => ~s.fld[f].views

\* A task after which field f may be inactive no more.
Risky(k, f) == k.do \in {"activate", "render", "candidate"} /\ k.f = f
Renders(k, f) == k.do = "render" /\ k.f = f

\* No field of a closed entity is taken up any more: what is due for the fields
\* of an entity that is left comes before the tasks that close it.
ShutField(s, f) ==
  LET e == EntityOf[f] IN
  /\ s.ent[e].state = "closed" =>
       s.fld[f].state = "inactive" /\ \A i \in DOMAIN s.tasks : ~Risky(s.tasks[i], f)
  /\ s.ent[e].state = "closing" =>
       \A i \in DOMAIN s.tasks :
         /\ ~Renders(s.tasks[i], f)
         /\ Risky(s.tasks[i], f) /\ s.fld[f].state = "inactive" =>
              \A j \in DOMAIN s.tasks : j < i => ~Is(s.tasks[j], "closed", e)
  /\ s.ent[e].state = "deactivating" =>
       \A i, j \in DOMAIN s.tasks :
         i < j => ~(Is(s.tasks[i], "closing", e) /\ Renders(s.tasks[j], f))
Shut(c, s) == \A f \in Fields \ c.late : ShutField(s, f)

Sound(c) == {s \in Page :
  /\ Held(s) /\ OneStore(c, s) /\ OneCommit(s) /\ UnsentFits(c, s) /\ SubmitsFit(c, s)
  /\ Guarded(c, s) /\ Ordered(s) /\ TakenUp(c, s) /\ Viewless(s) /\ ViewlessFields(s)
  /\ Shut(c, s)}

-----------------------------------------------------------------------------
(* Single updates of a sound page.                                           *)

LEMMA SoundPage ==
  ASSUME NEW c, NEW s \in Sound(c)
  PROVE  /\ s \in Page /\ Held(s) /\ s.tasks \in Seq(Task) /\ s.out \in Seq(Request)
         /\ \A e \in Entities : s.ent[e] \in Entity
         /\ \A f \in Fields : s.fld[f] \in Field
BY DEF Sound, Page

\* What is left of the tasks; and of the requests.
LEMMA FewerTasksSound ==
  ASSUME NEW c, NEW s \in Sound(c), NEW q \in Seq(Task),
         \A i \in DOMAIN q : \E p \in DOMAIN s.tasks : q[i] = s.tasks[p],
         \A i, j \in DOMAIN q : i < j =>
           \E p, o \in DOMAIN s.tasks : p < o /\ q[i] = s.tasks[p] /\ q[j] = s.tasks[o]
  PROVE  [s EXCEPT !.tasks = q] \in Sound(c)
<1> DEFINE t == [s EXCEPT !.tasks = q]
<1>1. s \in Page  BY SoundPage
<1>2. t \in Page  BY <1>1 DEF Page
<1>3. /\ t.tasks = q /\ t.ent = s.ent /\ t.fld = s.fld /\ t.out = s.out /\ t.own = s.own
      /\ t.shared = s.shared /\ t.activeField = s.activeField
  BY <1>1 DEF Page
<1> HIDE DEF t
<1>4. Ordered(t)
  <2>1. Ordered(s)  BY DEF Sound
  <2>2. ASSUME NEW e \in Entities, NEW i \in DOMAIN q, Is(q[i], "closing", e)
        PROVE  s.ent[e].state \in {"deactivating", "closing"}
    BY <2>1, <2>2 DEF Ordered
  <2>3. ASSUME NEW e \in Entities, NEW i \in DOMAIN q, NEW j \in DOMAIN q, i < j
        PROVE  /\ s.ent[e].state = "deactivating" =>
                    ~(Is(q[i], "closing", e) /\ Is(q[j], "closed", e))
               /\ s.ent[e].state = "closing" =>
                    ~(Is(q[i], "closed", e) /\ Is(q[j], "closing", e))
    <3>1. PICK p, o \in DOMAIN s.tasks : p < o /\ q[i] = s.tasks[p] /\ q[j] = s.tasks[o]
      BY <2>3
    <3> QED  BY <2>1, <3>1 DEF Ordered
  <2> QED  BY <1>3, <2>2, <2>3 DEF Ordered
<1>5. Shut(c, t)
  <2> SUFFICES ASSUME NEW f \in Fields \ c.late  PROVE ShutField(t, f)  BY DEF Shut
  <2> DEFINE e == EntityOf[f]
  <2>1. ShutField(s, f)  BY DEF Sound, Shut
  <2>2. s.ent[e].state = "closed" =>
         s.fld[f].state = "inactive" /\ \A i \in DOMAIN q : ~Risky(q[i], f)
    BY <2>1 DEF ShutField
  <2>3. ASSUME s.ent[e].state = "closing", NEW i \in DOMAIN q
        PROVE  /\ ~Renders(q[i], f)
               /\ Risky(q[i], f) /\ s.fld[f].state = "inactive" =>
                    \A j \in DOMAIN q : j < i => ~Is(q[j], "closed", e)
    <3>1. ~Renders(q[i], f)  BY <2>1, <2>3 DEF ShutField
    <3>2. ASSUME Risky(q[i], f), s.fld[f].state = "inactive", NEW j \in DOMAIN q, j < i
          PROVE  ~Is(q[j], "closed", e)
      <4>1. PICK p, o \in DOMAIN s.tasks : p < o /\ q[j] = s.tasks[p] /\ q[i] = s.tasks[o]
        BY <3>2
      <4> QED  BY <2>1, <2>3, <3>2, <4>1 DEF ShutField
    <3> QED  BY <3>1, <3>2
  <2>4. ASSUME s.ent[e].state = "deactivating", NEW i \in DOMAIN q, NEW j \in DOMAIN q, i < j
        PROVE  ~(Is(q[i], "closing", e) /\ Renders(q[j], f))
    <3>1. PICK p, o \in DOMAIN s.tasks : p < o /\ q[i] = s.tasks[p] /\ q[j] = s.tasks[o]
      BY <2>4
    <3> QED  BY <2>1, <2>4, <3>1 DEF ShutField
  <2> QED  BY <1>3, <2>2, <2>3, <2>4 DEF ShutField
<1>6. /\ Held(t) /\ OneStore(c, t) /\ OneCommit(t) /\ UnsentFits(c, t) /\ SubmitsFit(c, t)
      /\ Guarded(c, t) /\ TakenUp(c, t) /\ Viewless(t) /\ ViewlessFields(t)
  <2>1. Held(t) /\ OneStore(c, t) /\ OneCommit(t)
    BY <1>3 DEF Sound, Held, OneStore, OneCommit
  <2>2. UnsentFits(c, t) /\ SubmitsFit(c, t) /\ TakenUp(c, t)
    BY <1>3 DEF Sound, UnsentFits, SubmitsFit, TakenUp
  <2>3. Guarded(c, t) /\ Viewless(t) /\ ViewlessFields(t)
    BY <1>3 DEF Sound, Guarded, InTempStore, Viewless, ViewlessFields
  <2> QED  BY <2>1, <2>2, <2>3
<1> QED  BY <1>2, <1>4, <1>5, <1>6 DEF Sound, t

\* Request r is the request o, or o of a field that is rendered again.
SameOrStale(r, o) ==
  /\ r.kind = o.kind /\ r.e = o.e /\ r.f = o.f /\ r.reset = o.reset
  /\ r.text = o.text /\ r.at = o.at /\ r.copy = o.copy /\ r.answer = o.answer
  /\ (o.stale => r.stale) /\ (r.stale => o.stale \/ o.kind # "commit")

LEMMA FewerRequestsSound ==
  ASSUME NEW c, NEW s \in Sound(c), NEW q \in Seq(Request),
         \A i \in DOMAIN q : \E p \in DOMAIN s.out : SameOrStale(q[i], s.out[p]),
         \A i, j \in DOMAIN q : i # j =>
           \E p, o \in DOMAIN s.out : /\ p # o /\ SameOrStale(q[i], s.out[p])
                                      /\ SameOrStale(q[j], s.out[o])
  PROVE  [s EXCEPT !.out = q] \in Sound(c)
<1> DEFINE t == [s EXCEPT !.out = q]
<1>1. s \in Page  BY SoundPage
<1>2. t \in Page  BY <1>1 DEF Page
<1>3. /\ t.out = q /\ t.ent = s.ent /\ t.fld = s.fld /\ t.tasks = s.tasks /\ t.own = s.own
      /\ t.shared = s.shared /\ t.activeField = s.activeField
  BY <1>1 DEF Page
<1> HIDE DEF t
<1>4. OneStore(c, t)
  <2>1. OneStore(c, s)  BY DEF Sound
  <2> SUFFICES ASSUME NEW i \in DOMAIN q, Storing(q[i]), q[i].f \notin c.stray
               PROVE  /\ s.fld[q[i].f].state = "saving"
                      /\ \A j \in DOMAIN q : Storing(q[j]) /\ q[j].f = q[i].f => j = i
    BY <1>3 DEF OneStore
  <2>2. s.fld[q[i].f].state = "saving"
    BY <2>1 DEF OneStore, SameOrStale, Storing
  <2>3. ASSUME NEW j \in DOMAIN q, Storing(q[j]), q[j].f = q[i].f, j # i  PROVE FALSE
    <3>1. PICK p, o \in DOMAIN s.out : /\ p # o /\ SameOrStale(q[i], s.out[p])
                                       /\ SameOrStale(q[j], s.out[o])
      BY <2>3
    <3>2. Storing(s.out[p]) /\ Storing(s.out[o]) /\ s.out[p].f = q[i].f /\ s.out[o].f = q[i].f
      BY <2>3, <3>1 DEF SameOrStale, Storing
    <3> QED  BY <2>1, <3>1, <3>2 DEF OneStore
  <2> QED  BY <2>2, <2>3
<1>5. OneCommit(t)
  <2>1. OneCommit(s)  BY DEF Sound
  <2> SUFFICES ASSUME NEW i \in DOMAIN q, Committing(q[i])
               PROVE  /\ s.ent[q[i].e].isCommitting
                      /\ \A j \in DOMAIN q : Committing(q[j]) /\ q[j].e = q[i].e => j = i
    BY <1>3 DEF OneCommit
  <2>2. s.ent[q[i].e].isCommitting
    BY <2>1 DEF OneCommit, SameOrStale, Committing
  <2>3. ASSUME NEW j \in DOMAIN q, Committing(q[j]), q[j].e = q[i].e, j # i  PROVE FALSE
    <3>1. PICK p, o \in DOMAIN s.out : /\ p # o /\ SameOrStale(q[i], s.out[p])
                                       /\ SameOrStale(q[j], s.out[o])
      BY <2>3
    <3>2. /\ Committing(s.out[p]) /\ Committing(s.out[o])
          /\ s.out[p].e = q[i].e /\ s.out[o].e = q[i].e
      BY <2>3, <3>1 DEF SameOrStale, Committing
    <3> QED  BY <2>1, <3>1, <3>2 DEF OneCommit
  <2> QED  BY <2>2, <2>3
<1>6. SubmitsFit(c, t)
  <2>1. \A i \in DOMAIN s.out : SubmitFits(c, s.out[i])  BY DEF Sound, SubmitsFit
  <2>2. ASSUME NEW i \in DOMAIN q  PROVE SubmitFits(c, q[i])
    <3>1. PICK p \in DOMAIN s.out : SameOrStale(q[i], s.out[p])  OBVIOUS
    <3>2. SubmitFits(c, s.out[p])  BY <2>1
    <3> QED  BY <3>1, <3>2 DEF SubmitFits, SameOrStale
  <2> QED  BY <1>3, <2>2 DEF SubmitsFit
<1>7. Guarded(c, t)
  <2>1. Guarded(c, s)  BY DEF Sound
  <2>2. ASSUME NEW f \in c.unsafe, NEW i \in DOMAIN q
        PROVE  ~Spoils(c, q[i], f)
    <3>1. PICK p \in DOMAIN s.out : SameOrStale(q[i], s.out[p])  OBVIOUS
    <3>2. ~Spoils(c, s.out[p], f)
      BY <2>1 DEF Guarded
    <3> QED
      BY <3>1, <3>2 DEF Spoils, Resets, Committed, Overwrites, ToWrite, SameOrStale
  <2> QED  BY <1>3, <2>1, <2>2 DEF Guarded, InTempStore
<1>8. /\ Held(t) /\ UnsentFits(c, t) /\ Ordered(t) /\ TakenUp(c, t) /\ Viewless(t)
      /\ ViewlessFields(t) /\ Shut(c, t)
  <2>1. Held(t) /\ UnsentFits(c, t) /\ TakenUp(c, t)
    BY <1>3 DEF Sound, Held, UnsentFits, TakenUp
  <2>2. Ordered(t) /\ Viewless(t) /\ ViewlessFields(t)
    BY <1>3 DEF Sound, Ordered, Viewless, ViewlessFields
  <2>3. Shut(c, t)  BY <1>3 DEF Sound, Shut, ShutField
  <2> QED  BY <2>1, <2>2, <2>3
<1> QED  BY <1>2, <1>4, <1>5, <1>6, <1>7, <1>8 DEF Sound, t

\* A task at the end of the tasks.
Fitting(c, s, k) ==
  /\ k.do = "closing" => s.ent[k.e].state = "deactivating"
  /\ k.do = "closed" => s.ent[k.e].state = "closing"
  /\ \A f \in Fields \ c.late : Risky(k, f) =>
       LET state == s.ent[EntityOf[f]].state IN
       /\ state # "closed"
       /\ state = "closing" => k.do # "render" /\ s.fld[f].state # "inactive"
       /\ k.do = "render" => state # "deactivating"

LEMMA DeferSound ==
  ASSUME NEW c, NEW s \in Sound(c), NEW k \in Task, Fitting(c, s, k)
  PROVE  Defer(s, k) \in Sound(c)
<1> DEFINE q == Append(s.tasks, k)
           t == [s EXCEPT !.tasks = q]
           l == Len(s.tasks)
<1>1. s \in Page /\ s.tasks \in Seq(Task)  BY SoundPage
<1>2. q \in Seq(Task)  BY <1>1, Appended
<1>3. /\ DOMAIN q = 1 .. l + 1 /\ l \in Nat /\ DOMAIN s.tasks = 1 .. l
      /\ q[l + 1] = k /\ \A i \in 1 .. l : q[i] = s.tasks[i]
  BY <1>1
<1> HIDE DEF q, l
<1>4. t \in Page  BY <1>1, <1>2 DEF Page
<1>5. /\ t.tasks = q /\ t.ent = s.ent /\ t.fld = s.fld /\ t.out = s.out /\ t.own = s.own
      /\ t.shared = s.shared /\ t.activeField = s.activeField
  BY <1>1 DEF Page
<1> HIDE DEF t
<1>6. Ordered(t)
  <2>1. Ordered(s)  BY DEF Sound
  <2>2. ASSUME NEW e \in Entities, NEW i \in 1 .. l + 1, Is(q[i], "closing", e)
        PROVE  s.ent[e].state \in {"deactivating", "closing"}
    BY <1>3, <2>1, <2>2 DEF Ordered, Fitting, Is
  <2>3. ASSUME NEW e \in Entities, NEW i \in 1 .. l + 1, NEW j \in 1 .. l + 1, i < j
        PROVE  /\ s.ent[e].state = "deactivating" =>
                    ~(Is(q[i], "closing", e) /\ Is(q[j], "closed", e))
               /\ s.ent[e].state = "closing" =>
                    ~(Is(q[i], "closed", e) /\ Is(q[j], "closing", e))
    <3>1. i \in 1 .. l  BY <1>3, <2>3
    <3>2. CASE j \in 1 .. l  BY <1>3, <2>1, <2>3, <3>1, <3>2 DEF Ordered
    <3>3. CASE j = l + 1  BY <1>3, <3>3 DEF Fitting, Is
    <3> QED  BY <1>3, <3>2, <3>3
  <2> QED  BY <1>3, <1>5, <2>2, <2>3 DEF Ordered
<1>7. Shut(c, t)
  <2> SUFFICES ASSUME NEW f \in Fields \ c.late  PROVE ShutField(t, f)  BY DEF Shut
  <2> DEFINE e == EntityOf[f]
  <2>1. ShutField(s, f)  BY DEF Sound, Shut
  <2>2. s.ent[e].state = "closed" =>
         s.fld[f].state = "inactive" /\ \A i \in 1 .. l + 1 : ~Risky(q[i], f)
    BY <1>3, <2>1 DEF ShutField, Fitting
  <2>3. ASSUME s.ent[e].state = "closing", NEW i \in 1 .. l + 1
        PROVE  /\ ~Renders(q[i], f)
               /\ Risky(q[i], f) /\ s.fld[f].state = "inactive" =>
                    \A j \in 1 .. l + 1 : j < i => ~Is(q[j], "closed", e)
    <3>1. CASE i \in 1 .. l
      <4>1. ~Renders(q[i], f)  BY <1>3, <2>1, <2>3, <3>1 DEF ShutField
      <4>2. ASSUME Risky(q[i], f), s.fld[f].state = "inactive", NEW j \in 1 .. l + 1, j < i
            PROVE  ~Is(q[j], "closed", e)
        <5>1. j \in 1 .. l  BY <1>3, <3>1, <4>2
        <5> QED  BY <1>3, <2>1, <2>3, <3>1, <4>2, <5>1 DEF ShutField
      <4> QED  BY <4>1, <4>2
    <3>2. CASE i = l + 1
      <4>1. Renders(k, f) => Risky(k, f)  BY DEF Renders, Risky
      <4> QED  BY <1>3, <2>3, <3>2, <4>1 DEF Fitting, Renders
    <3> QED  BY <1>3, <3>1, <3>2
  <2>4. ASSUME s.ent[e].state = "deactivating", NEW i \in 1 .. l + 1, NEW j \in 1 .. l + 1, i < j
        PROVE  ~(Is(q[i], "closing", e) /\ Renders(q[j], f))
    <3>1. i \in 1 .. l  BY <1>3, <2>4
    <3>2. CASE j \in 1 .. l  BY <1>3, <2>1, <2>4, <3>1, <3>2 DEF ShutField
    <3>3. CASE j = l + 1  BY <1>3, <2>4, <3>3 DEF Fitting, Renders, Risky
    <3> QED  BY <1>3, <3>2, <3>3
  <2> QED  BY <1>3, <1>5, <2>2, <2>3, <2>4 DEF ShutField
<1>8. /\ Held(t) /\ OneStore(c, t) /\ OneCommit(t) /\ UnsentFits(c, t) /\ SubmitsFit(c, t)
      /\ Guarded(c, t) /\ TakenUp(c, t) /\ Viewless(t) /\ ViewlessFields(t)
  <2>1. Held(t) /\ OneStore(c, t) /\ OneCommit(t)
    BY <1>5 DEF Sound, Held, OneStore, OneCommit
  <2>2. UnsentFits(c, t) /\ SubmitsFit(c, t) /\ TakenUp(c, t)
    BY <1>5 DEF Sound, UnsentFits, SubmitsFit, TakenUp
  <2>3. Guarded(c, t) /\ Viewless(t) /\ ViewlessFields(t)
    BY <1>5 DEF Sound, Guarded, InTempStore, Viewless, ViewlessFields
  <2> QED  BY <2>1, <2>2, <2>3
<1>9. t \in Sound(c)  BY <1>4, <1>6, <1>7, <1>8 DEF Sound
<1> QED  BY <1>9 DEF Defer, t, q

\* A request that is sent.
Sendable(c, s, r) ==
  /\ Storing(r) /\ r.f \notin c.stray =>
       /\ s.fld[r.f].state = "saving"
       /\ \A i \in DOMAIN s.out : ~(Storing(s.out[i]) /\ s.out[i].f = r.f)
  /\ Committing(r) =>
       /\ s.ent[r.e].isCommitting
       /\ \A i \in DOMAIN s.out : ~(Committing(s.out[i]) /\ s.out[i].e = r.e)
  /\ SubmitFits(c, r)
  /\ \A f \in c.unsafe : ~Spoils(c, r, f)

LEMMA RequestSound ==
  ASSUME NEW c, NEW s \in Sound(c), NEW r \in Request, Sendable(c, s, r)
  PROVE  [s EXCEPT !.out = Append(@, r)] \in Sound(c)
<1> DEFINE q == Append(s.out, r)
           t == [s EXCEPT !.out = q]
           l == Len(s.out)
<1>1. s \in Page /\ s.out \in Seq(Request)  BY SoundPage
<1>2. q \in Seq(Request)  BY <1>1, Appended
<1>3. /\ DOMAIN q = 1 .. l + 1 /\ l \in Nat /\ DOMAIN s.out = 1 .. l
      /\ q[l + 1] = r /\ \A i \in 1 .. l : q[i] = s.out[i]
  BY <1>1
<1> HIDE DEF q, l
<1>4. t \in Page  BY <1>1, <1>2 DEF Page
<1>5. /\ t.out = q /\ t.ent = s.ent /\ t.fld = s.fld /\ t.tasks = s.tasks /\ t.own = s.own
      /\ t.shared = s.shared /\ t.activeField = s.activeField
  BY <1>1 DEF Page
<1> HIDE DEF t
<1>6. OneStore(c, t)
  <2>1. OneStore(c, s)  BY DEF Sound
  <2>2. ASSUME NEW i \in 1 .. l + 1, Storing(q[i]), q[i].f \notin c.stray
        PROVE  s.fld[q[i].f].state = "saving"
    BY <1>3, <2>1, <2>2 DEF OneStore, Sendable
  <2>3. ASSUME NEW i \in 1 .. l + 1, Storing(q[i]), q[i].f \notin c.stray,
               NEW j \in 1 .. l + 1, Storing(q[j]), q[j].f = q[i].f
        PROVE  j = i
    <3>1. CASE i \in 1 .. l /\ j \in 1 .. l  BY <1>3, <2>1, <2>3, <3>1 DEF OneStore
    <3>2. CASE i = l + 1 /\ j \in 1 .. l  BY <1>3, <2>3, <3>2 DEF Sendable
    <3>3. CASE j = l + 1 /\ i \in 1 .. l  BY <1>3, <2>3, <3>3 DEF Sendable
    <3> QED  BY <1>3, <3>1, <3>2, <3>3
  <2> QED  BY <1>3, <1>5, <2>2, <2>3 DEF OneStore
<1>7. OneCommit(t)
  <2>1. OneCommit(s)  BY DEF Sound
  <2>2. ASSUME NEW i \in 1 .. l + 1, Committing(q[i])
        PROVE  s.ent[q[i].e].isCommitting
    BY <1>3, <2>1, <2>2 DEF OneCommit, Sendable
  <2>3. ASSUME NEW i \in 1 .. l + 1, Committing(q[i]),
               NEW j \in 1 .. l + 1, Committing(q[j]), q[j].e = q[i].e
        PROVE  j = i
    <3>1. CASE i \in 1 .. l /\ j \in 1 .. l  BY <1>3, <2>1, <2>3, <3>1 DEF OneCommit
    <3>2. CASE i = l + 1 /\ j \in 1 .. l  BY <1>3, <2>3, <3>2 DEF Sendable
    <3>3. CASE j = l + 1 /\ i \in 1 .. l  BY <1>3, <2>3, <3>3 DEF Sendable
    <3> QED  BY <1>3, <3>1, <3>2, <3>3
  <2> QED  BY <1>3, <1>5, <2>2, <2>3 DEF OneCommit
<1>8. SubmitsFit(c, t)
  BY <1>3, <1>5 DEF Sound, SubmitsFit, Sendable
<1>9. Guarded(c, t)
  BY <1>3, <1>5 DEF Sound, Guarded, InTempStore, Sendable
<1>10. /\ Held(t) /\ UnsentFits(c, t) /\ Ordered(t) /\ TakenUp(c, t) /\ Viewless(t)
      /\ ViewlessFields(t) /\ Shut(c, t)
  <2>1. Held(t) /\ UnsentFits(c, t) /\ TakenUp(c, t)
    BY <1>5 DEF Sound, Held, UnsentFits, TakenUp
  <2>2. Ordered(t) /\ Viewless(t) /\ ViewlessFields(t)
    BY <1>5 DEF Sound, Ordered, Viewless, ViewlessFields
  <2>3. Shut(c, t)  BY <1>5 DEF Sound, Shut, ShutField
  <2> QED  BY <2>1, <2>2, <2>3
<1>11. t \in Sound(c)  BY <1>4, <1>6, <1>7, <1>8, <1>9, <1>10 DEF Sound
<1> QED  BY <1>11 DEF t, q

\* An update of one field.
FieldFits(c, s, f, x) ==
  /\ \/ f \in c.stray \/ x.state = "saving"
     \/ \A i \in DOMAIN s.out : ~(Storing(s.out[i]) /\ s.out[i].f = f)
  /\ x.state \in Unsent => NotOlder(c, f, x.text)
  /\ s.activeField = f /\ f \notin c.loose => x.state \notin Resting
  /\ s.ent[EntityOf[f]].state = "closed" => ~x.views
  /\ f \notin c.late =>
       /\ s.ent[EntityOf[f]].state = "closed" => x.state = "inactive"
       /\ s.ent[EntityOf[f]].state = "closing" /\ x.state = "inactive" =>
            \A i, j \in DOMAIN s.tasks :
              i < j /\ Is(s.tasks[i], "closed", EntityOf[f]) => ~Risky(s.tasks[j], f)

LEMMA FieldSound ==
  ASSUME NEW c, NEW s \in Sound(c), NEW f \in Fields, NEW x \in Field, FieldFits(c, s, f, x)
  PROVE  [s EXCEPT !.fld[f] = x] \in Sound(c)
<1> DEFINE t == [s EXCEPT !.fld[f] = x]
<1>1. s \in Page  BY SoundPage
<1>2. t \in Page  BY <1>1 DEF Page
<1>3. /\ t.out = s.out /\ t.ent = s.ent /\ t.tasks = s.tasks /\ t.own = s.own
      /\ t.shared = s.shared /\ t.activeField = s.activeField
      /\ t.fld[f] = x /\ \A g \in Fields : g # f => t.fld[g] = s.fld[g]
  BY <1>1 DEF Page
<1> HIDE DEF t
<1>4. OneStore(c, t)
  <2>1. OneStore(c, s)  BY DEF Sound
  <2>2. ASSUME NEW i \in DOMAIN s.out, Storing(s.out[i]), s.out[i].f \notin c.stray
        PROVE  t.fld[s.out[i].f].state = "saving"
    <3>1. s.out[i].f \in Fields
      <4>1. s.out[i] \in Request  BY SoundPage
      <4> QED  BY <2>2, <4>1 DEF Request, Storing
    <3> QED  BY <1>3, <2>1, <2>2, <3>1 DEF OneStore, FieldFits
  <2> QED  BY <1>3, <2>1, <2>2 DEF OneStore
<1>5. OneCommit(t) /\ SubmitsFit(c, t) /\ Held(t)
  BY <1>3 DEF Sound, OneCommit, SubmitsFit, Held
<1>6. UnsentFits(c, t)  BY <1>3 DEF Sound, UnsentFits, FieldFits
<1>7. Guarded(c, t) /\ Ordered(t) /\ Viewless(t)
  BY <1>3 DEF Sound, Guarded, InTempStore, Ordered, Viewless
<1>8. TakenUp(c, t)  BY <1>3 DEF Sound, TakenUp, FieldFits
<1>9. ViewlessFields(t)  BY <1>3 DEF Sound, ViewlessFields, FieldFits
<1>10. Shut(c, t)
  <2> SUFFICES ASSUME NEW g \in Fields \ c.late  PROVE ShutField(t, g)  BY DEF Shut
  <2>1. ShutField(s, g)  BY DEF Sound, Shut
  <2>2. CASE g # f  BY <1>3, <2>1, <2>2 DEF ShutField
  <2>3. CASE g = f  BY <1>3, <2>1, <2>3 DEF ShutField, FieldFits
  <2> QED  BY <2>2, <2>3
<1>11. t \in Sound(c)
  BY <1>2, <1>4, <1>5, <1>6, <1>7, <1>8, <1>9, <1>10 DEF Sound
<1> QED  BY <1>11 DEF t

\* An update of one entity, which keeps its state or is not being left.
EntityFits(c, s, e, x) ==
  /\ x.isCommitting => x.state = "committing"
  /\ x.isCommitting \/ \A i \in DOMAIN s.out : ~(Committing(s.out[i]) /\ s.out[i].e = e)
  /\ \/ x.state = s.ent[e].state
     \/ s.ent[e].state \notin {"deactivating", "closing"} /\ x.state \notin {"closing", "closed"}
  /\ \A f \in c.unsafe : EntityOf[f] = e =>
       x.state \in {"opened", "committing"} /\ x.inTempStore
  /\ x.state = "closed" => ~x.isActive

LEMMA EntitySound ==
  ASSUME NEW c, NEW s \in Sound(c), NEW e \in Entities, NEW x \in Entity,
         EntityFits(c, s, e, x)
  PROVE  [s EXCEPT !.ent[e] = x] \in Sound(c)
<1> DEFINE t == [s EXCEPT !.ent[e] = x]
<1>1. s \in Page  BY SoundPage
<1>2. t \in Page  BY <1>1 DEF Page
<1>3. /\ t.out = s.out /\ t.fld = s.fld /\ t.tasks = s.tasks /\ t.own = s.own
      /\ t.shared = s.shared /\ t.activeField = s.activeField
      /\ t.ent[e] = x /\ \A o \in Entities : o # e => t.ent[o] = s.ent[o]
  BY <1>1 DEF Page
<1> HIDE DEF t
<1>4. Held(t)  BY <1>3 DEF Sound, Held, EntityFits
<1>5. OneStore(c, t) /\ SubmitsFit(c, t) /\ UnsentFits(c, t) /\ TakenUp(c, t)
  BY <1>3 DEF Sound, OneStore, SubmitsFit, UnsentFits, TakenUp
<1>6. OneCommit(t)
  <2>1. OneCommit(s)  BY DEF Sound
  <2>2. ASSUME NEW i \in DOMAIN s.out, Committing(s.out[i])
        PROVE  t.ent[s.out[i].e].isCommitting
    <3>1. s.out[i].e \in Entities
      <4>1. s.out[i] \in Request  BY SoundPage
      <4> QED  BY <4>1 DEF Request
    <3> QED  BY <1>3, <2>1, <2>2, <3>1 DEF OneCommit, EntityFits
  <2> QED  BY <1>3, <2>1, <2>2 DEF OneCommit
<1>7. Guarded(c, t)
  <2>1. Guarded(c, s)  BY DEF Sound
  <2>2. ASSUME NEW f \in c.unsafe
        PROVE  /\ t.ent[EntityOf[f]].state \in {"opened", "committing"}
               /\ t.ent[EntityOf[f]].inTempStore
    <3>1. CASE EntityOf[f] = e  BY <1>3, <3>1 DEF EntityFits
    <3>2. CASE EntityOf[f] # e
      <4>1. t.ent[EntityOf[f]] = s.ent[EntityOf[f]]  BY <1>1, <3>2 DEF t, Page
      <4> QED  BY <2>1, <4>1 DEF Guarded
    <3> QED  BY <3>1, <3>2
  <2> QED  BY <1>3, <2>1, <2>2 DEF Guarded, InTempStore
<1>8. CASE x.state = s.ent[e].state
  <2>1. \A o \in Entities : t.ent[o].state = s.ent[o].state  BY <1>3, <1>8
  <2>2. Ordered(t)  BY <1>3, <2>1 DEF Sound, Ordered
  <2>3. Viewless(t)  BY <1>3, <1>8 DEF Sound, Viewless, EntityFits
  <2>4. ViewlessFields(t)
    BY <1>3, <2>1, EntityOfType DEF Sound, ViewlessFields
  <2>5. Shut(c, t)
    BY <1>3, <2>1, EntityOfType DEF Sound, Shut, ShutField
  <2> QED  BY <2>2, <2>3, <2>4, <2>5, <1>2, <1>4, <1>5, <1>6, <1>7 DEF Sound, t
<1>9. CASE /\ s.ent[e].state \notin {"deactivating", "closing"}
           /\ x.state \notin {"closing", "closed"}
  <2>1. \A i \in DOMAIN s.tasks : ~Is(s.tasks[i], "closing", e)
    BY <1>9 DEF Sound, Ordered
  <2>2. Ordered(t)
    <3>1. ASSUME NEW o \in Entities, o # e, NEW i \in DOMAIN s.tasks
          PROVE  /\ Is(s.tasks[i], "closing", o) => t.ent[o].state \in {"deactivating", "closing"}
                 /\ \A j \in DOMAIN s.tasks : i < j =>
                      /\ t.ent[o].state = "deactivating" =>
                           ~(Is(s.tasks[i], "closing", o) /\ Is(s.tasks[j], "closed", o))
                      /\ t.ent[o].state = "closing" =>
                           ~(Is(s.tasks[i], "closed", o) /\ Is(s.tasks[j], "closing", o))
      <4>1. t.ent[o] = s.ent[o]  BY <1>3, <3>1
      <4> QED  BY <4>1 DEF Sound, Ordered
    <3> QED  BY <1>3, <2>1, <3>1 DEF Ordered
  <2>3. Viewless(t)  BY <1>3, <1>9 DEF Sound, Viewless
  <2>4. ViewlessFields(t)
    <3>1. ASSUME NEW f \in Fields, t.ent[EntityOf[f]].state = "closed"
          PROVE  s.ent[EntityOf[f]].state = "closed"
      BY <1>3, <1>9, <3>1, EntityOfType
    <3> QED  BY <1>3, <3>1 DEF Sound, ViewlessFields
  <2>5. Shut(c, t)
    <3> SUFFICES ASSUME NEW f \in Fields \ c.late  PROVE ShutField(t, f)  BY DEF Shut
    <3>1. ShutField(s, f)  BY DEF Sound, Shut
    <3>2. CASE EntityOf[f] = e  BY <1>3, <1>9, <2>1, <3>2 DEF ShutField
    <3>3. CASE EntityOf[f] # e
      <4>1. t.ent[EntityOf[f]] = s.ent[EntityOf[f]]  BY <1>3, <3>3, EntityOfType
      <4> QED  BY <1>3, <3>1, <4>1 DEF ShutField
    <3> QED  BY <3>2, <3>3
  <2> QED  BY <2>2, <2>3, <2>4, <2>5, <1>2, <1>4, <1>5, <1>6, <1>7 DEF Sound, t
<1> QED  BY <1>8, <1>9 DEF EntityFits

\* A page on which all that matters is the same.
Alike(s, t) ==
  /\ t.ent = s.ent /\ t.fld = s.fld /\ t.tasks = s.tasks /\ t.out = s.out
  /\ t.activeField = s.activeField
  /\ \A e \in Entities : InTempStore(s, e) \subseteq InTempStore(t, e)

LEMMA AlikeSound ==
  ASSUME NEW c, NEW s \in Sound(c), NEW t \in Page, Alike(s, t), c.unsafe \subseteq Fields
  PROVE  t \in Sound(c)
<1>1. /\ Held(t) /\ OneStore(c, t) /\ OneCommit(t) /\ UnsentFits(c, t) /\ SubmitsFit(c, t)
  BY DEF Sound, Alike, Held, OneStore, OneCommit, UnsentFits, SubmitsFit
<1>2. Guarded(c, t)
  <2>1. \A f \in c.unsafe : InTempStore(s, EntityOf[f]) \subseteq InTempStore(t, EntityOf[f])
    BY EntityOfType DEF Alike
  <2> QED  BY <2>1 DEF Sound, Alike, Guarded
<1>3. Ordered(t) /\ TakenUp(c, t) /\ Viewless(t) /\ ViewlessFields(t)
  BY DEF Sound, Alike, Ordered, TakenUp, Viewless, ViewlessFields
<1>4. Shut(c, t)  BY DEF Sound, Alike, Shut, ShutField
<1> QED  BY <1>1, <1>2, <1>3, <1>4 DEF Sound

LEMMA ActiveFieldSound ==
  ASSUME NEW c, NEW s \in Sound(c), NEW a \in Fields \cup {None},
         a \in Fields \ c.loose => s.fld[a].state \notin Resting
  PROVE  [s EXCEPT !.activeField = a] \in Sound(c)
<1> DEFINE t == [s EXCEPT !.activeField = a]
<1>1. s \in Page  BY SoundPage
<1>2. t \in Page  BY <1>1 DEF Page
<1>3. /\ t.out = s.out /\ t.fld = s.fld /\ t.tasks = s.tasks /\ t.own = s.own
      /\ t.shared = s.shared /\ t.activeField = a /\ t.ent = s.ent
  BY <1>1 DEF Page
<1> HIDE DEF t
<1>4. /\ Held(t) /\ OneStore(c, t) /\ OneCommit(t) /\ UnsentFits(c, t) /\ SubmitsFit(c, t)
  BY <1>3 DEF Sound, Held, OneStore, OneCommit, UnsentFits, SubmitsFit
<1>5. TakenUp(c, t)  BY <1>3 DEF TakenUp
<1>6. Guarded(c, t) /\ Ordered(t) /\ Viewless(t) /\ ViewlessFields(t)
  BY <1>3 DEF Sound, Guarded, InTempStore, Ordered, Viewless, ViewlessFields
<1>7. Shut(c, t)  BY <1>3 DEF Sound, Shut, ShutField
<1> QED  BY <1>2, <1>4, <1>5, <1>6, <1>7 DEF Sound, t

Context ==
  [kept : [Fields -> Texts \cup {None}], edits : Texts, racing : SUBSET Fields,
   unsafe : SUBSET Fields, late : SUBSET Fields, loose : SUBSET Fields,
   stray : SUBSET Fields]

\* A context that asks for less.
AsksLess(c, d) ==
  /\ \A f \in Fields : d.kept[f] # None => d.kept[f] = c.kept[f]
  /\ c.edits <= d.edits /\ c.racing \subseteq d.racing /\ d.unsafe \subseteq c.unsafe
  /\ c.late \subseteq d.late /\ c.loose \subseteq d.loose /\ c.stray \subseteq d.stray

LEMMA LessSound ==
  ASSUME NEW c \in Context, NEW d \in Context, AsksLess(c, d), NEW s \in Sound(c)
  PROVE  s \in Sound(d)
<1>1. ASSUME NEW f \in Fields, NEW x \in Texts, NotOlder(c, f, x)  PROVE NotOlder(d, f, x)
  <2>1. x \in Nat /\ c.edits \in Nat /\ d.edits \in Nat  BY TextsAre DEF Context
  <2> QED  BY <1>1, <2>1 DEF NotOlder, AsksLess
<1>2. UnsentFits(d, s)
  <2>1. \A f \in Fields : s.fld[f].text \in Texts  BY SoundPage DEF Field
  <2> QED  BY <1>1, <2>1 DEF Sound, UnsentFits
<1>3. SubmitsFit(d, s)
  <2> SUFFICES ASSUME NEW i \in DOMAIN s.out, s.out[i].kind = "submit"
               PROVE  SubmitFits(d, s.out[i])  BY DEF SubmitsFit, SubmitFits
  <2>1. s.out[i].text \in Texts /\ s.out[i].f \in Fields
    <3>1. s.out[i] \in Request  BY SoundPage
    <3> QED  BY <3>1 DEF Request
  <2>2. SubmitFits(c, s.out[i])  BY DEF Sound, SubmitsFit
  <2>3. s.out[i].text \in Nat /\ c.edits \in Nat /\ d.edits \in Nat
    BY <2>1, TextsAre DEF Context
  <2>4. s.out[i].text <= d.edits  BY <2>2, <2>3 DEF SubmitFits, AsksLess
  <2> QED  BY <1>1, <2>1, <2>2, <2>4 DEF SubmitFits, AsksLess
<1>4. OneStore(d, s)  BY DEF Sound, OneStore, AsksLess
<1>5. Guarded(d, s)
  <2> SUFFICES ASSUME NEW f \in d.unsafe, NEW i \in DOMAIN s.out
               PROVE  ~Spoils(d, s.out[i], f)
    BY DEF Sound, Guarded, AsksLess
  <2>1. f \in c.unsafe /\ f \in Fields  BY DEF AsksLess, Context
  <2>2. ~Spoils(c, s.out[i], f)  BY <2>1 DEF Sound, Guarded
  <2>3. d.kept[f] # None => d.kept[f] = c.kept[f]  BY <2>1 DEF AsksLess
  <2> QED  BY <2>2, <2>3 DEF Spoils, Overwrites
<1>6. TakenUp(d, s) /\ Shut(d, s)  BY DEF Sound, TakenUp, Shut, AsksLess
<1> QED  BY <1>2, <1>3, <1>4, <1>5, <1>6 DEF Sound

\* The context in which activeField may be f although f is not taken up.
Loosened(c, f) == [c EXCEPT !.loose = @ \cup {f}]

LEMMA LoosenedSound ==
  ASSUME NEW c \in Context, NEW f \in Fields
  PROVE  /\ Loosened(c, f) \in Context /\ Sound(c) \subseteq Sound(Loosened(c, f))
         /\ \A t \in Sound(Loosened(c, f)) :
              (t.activeField = f => t.fld[f].state \notin Resting) => t \in Sound(c)
<1> DEFINE d == Loosened(c, f)
<1>1. d \in Context /\ d.loose = c.loose \cup {f}  BY DEF Loosened, Context
<1>2. /\ d.kept = c.kept /\ d.edits = c.edits /\ d.racing = c.racing /\ d.late = c.late
      /\ d.unsafe = c.unsafe /\ d.stray = c.stray
  BY DEF Loosened, Context
<1> HIDE DEF d
<1>3. AsksLess(c, d)
  <2>1. c.edits \in Nat  BY TextsAre DEF Context
  <2> QED  BY <1>1, <1>2, <2>1 DEF AsksLess
<1>4. Sound(c) \subseteq Sound(d)  BY <1>1, <1>3, LessSound
<1>5. ASSUME NEW t \in Sound(d), t.activeField = f => t.fld[f].state \notin Resting
      PROVE  t \in Sound(c)
  <2>1. TakenUp(c, t)  BY <1>1, <1>5 DEF Sound, TakenUp
  <2>2. UnsentFits(c, t) /\ SubmitsFit(c, t)
    BY <1>2 DEF Sound, UnsentFits, SubmitsFit, SubmitFits, NotOlder
  <2>3. OneStore(c, t) /\ Guarded(c, t) /\ Shut(c, t)
    BY <1>2 DEF Sound, OneStore, Guarded, Spoils, Overwrites, Shut
  <2> QED  BY <2>1, <2>2, <2>3 DEF Sound
<1> QED  BY <1>1, <1>4, <1>5 DEF d

\* An update of a field that keeps its state.
LEMMA SameStateFits ==
  ASSUME NEW c, NEW s \in Sound(c), NEW f \in Fields, NEW x \in Field,
         x.state = s.fld[f].state, x.views => s.fld[f].views,
         x.state \in Unsent => NotOlder(c, f, x.text)
  PROVE  FieldFits(c, s, f, x)
<1>1. \/ f \in c.stray \/ x.state = "saving"
      \/ \A i \in DOMAIN s.out : ~(Storing(s.out[i]) /\ s.out[i].f = f)
  BY DEF Sound, OneStore
<1>2. s.activeField = f /\ f \notin c.loose => x.state \notin Resting
  BY DEF Sound, TakenUp
<1>3. s.ent[EntityOf[f]].state = "closed" => ~x.views
  BY DEF Sound, ViewlessFields
<1>4. f \notin c.late =>
       /\ s.ent[EntityOf[f]].state = "closed" => x.state = "inactive"
       /\ s.ent[EntityOf[f]].state = "closing" /\ x.state = "inactive" =>
            \A i, j \in DOMAIN s.tasks :
              i < j /\ Is(s.tasks[i], "closed", EntityOf[f]) => ~Risky(s.tasks[j], f)
  BY DEF Sound, Shut, ShutField
<1> QED  BY <1>1, <1>2, <1>3, <1>4 DEF FieldFits

LEMMA NoRiskFits ==
  ASSUME NEW c, NEW s, NEW k, k.do \notin {"activate", "render", "candidate"},
         k.do = "closing" => s.ent[k.e].state = "deactivating",
         k.do = "closed" => s.ent[k.e].state = "closing"
  PROVE  Fitting(c, s, k)
BY DEF Fitting, Risky

-----------------------------------------------------------------------------
(* A field changes its state: what each listener keeps, and what it changes.  *)

\* Pages that differ in field f only, as far as fields and the states of
\* entities go.
OnlyField(s, t, f) ==
  /\ \A e \in Entities : t.ent[e].state = s.ent[e].state
  /\ \A g \in Fields : g # f => t.fld[g] = s.fld[g]
  /\ t.fld[f].views = s.fld[f].views

LEMMA EditorChangeFrame ==
  ASSUME NEW s \in Page, NEW f \in Fields, NEW from, NEW to
  PROVE  LET t == EditorChange(s, f, from, to) IN
         /\ OnlyField(s, t, f) /\ t.fld[f].state = s.fld[f].state
         /\ t.activeField = s.activeField /\ t.ent = s.ent
BY DEF EditorChange, OnlyField, Defer, Send, LoadHiddenForm, Page, Field

LEMMA FieldStateChangeFrame ==
  ASSUME NEW s \in Page, NEW f \in Fields, NEW to
  PROVE  LET t == FieldStateChange(s, f, to) IN
         /\ \A e \in Entities : t.ent[e].state = s.ent[e].state
         /\ t.fld = s.fld /\ t.activeField = s.activeField
<1> DEFINE e == EntityOf[f]
           u == CASE to = "invalid" -> DeferEntity(s, "invalid", e)
                  [] to = "saved" -> UpdateTempStore(s, e, f)
                  [] OTHER -> s
           Same(t) == /\ t = [s EXCEPT !.ent = t.ent, !.tasks = t.tasks, !.out = t.out,
                                      !.own = t.own, !.shared = t.shared]
                      /\ t.ent \in [Entities -> Entity]
                      /\ \A o \in Entities : t.ent[o].state = s.ent[o].state
<1>1. s.ent \in [Entities -> Entity] /\ e \in Entities  BY EntityOfType DEF Page
<1> HIDE DEF e
<1>2. \A what : Same(DeferEntity(s, what, e))  BY <1>1 DEF DeferEntity, Defer, Page
<1>3. Same(UpdateTempStore(s, e, f))
  <2> DEFINE x == [s.ent[e] EXCEPT !.inTempStore = IF s.ent[e].isCommitting THEN @ ELSE TRUE]
             t == UpdateTempStore(s, e, f)
  <2>1. x \in Entity /\ x.state = s.ent[e].state  BY <1>1 DEF Entity
  <2> DEFINE ent == [s.ent EXCEPT ![e] = x]
             shared == IF s.own[e] = None THEN s.shared \cup {f} ELSE s.shared
             own == [s.own EXCEPT ![e] = IF s.ent[e].isCommitting /\ @ = None THEN None
                                         ELSE InTempStore(s, e) \cup {f}]
  <2>5. t = [s EXCEPT !.ent = ent, !.shared = shared, !.own = own]
    BY DEF UpdateTempStore, Page
  <2> HIDE DEF t, own, shared, ent
  <2>2. t.ent = [s.ent EXCEPT ![e] = x]  BY <2>5 DEF Page, ent
  <2>3. t = [s EXCEPT !.ent = t.ent, !.tasks = t.tasks, !.out = t.out,
                      !.own = t.own, !.shared = t.shared]
    BY <2>5 DEF Page
  <2> HIDE DEF x, t
  <2>4. Same(t)  BY <1>1, <2>1, <2>2, <2>3
  <2> QED  BY <2>4 DEF t
<1>4. Same(s)  BY <1>1 DEF Page
<1>5. Same(u)
  <2> HIDE DEF Same
  <2> QED  BY <1>2, <1>3, <1>4
<1> HIDE DEF u
<1>6. Same(TryCommit(u, e))
  <2> DEFINE x == [u.ent[e] EXCEPT !.isCommitting = TRUE]
             v == [u EXCEPT !.ent[e].isCommitting = TRUE]
             t == Send(v, "commit", e, None, FALSE, 0)
  <2>0. u.ent[e] \in Entity /\ u.ent[e].state = s.ent[e].state  BY <1>1, <1>5
  <2>1. x \in Entity /\ x.state = s.ent[e].state  BY <2>0 DEF Entity
  <2>2. v = [s EXCEPT !.ent = [u.ent EXCEPT ![e] = x], !.tasks = u.tasks, !.out = u.out,
                      !.own = u.own, !.shared = u.shared]
    BY <1>5 DEF Page
  <2> HIDE DEF x, v
  <2>3. t.ent = [u.ent EXCEPT ![e] = x]  BY <2>2 DEF Send, Page
  <2>4. t = [s EXCEPT !.ent = t.ent, !.tasks = t.tasks, !.out = t.out,
                      !.own = t.own, !.shared = t.shared]
    BY <2>2 DEF Send, Page
  <2> HIDE DEF t
  <2>5. Same(t)  BY <1>1, <1>5, <2>1, <2>3, <2>4
  <2> QED  BY <1>5, <2>5 DEF TryCommit, t, v
<1>7. Same([s EXCEPT !.ent[e].isDirty = TRUE])
  <2> DEFINE x == [s.ent[e] EXCEPT !.isDirty = TRUE]
             t == [s EXCEPT !.ent[e].isDirty = TRUE]
  <2>1. x \in Entity /\ x.state = s.ent[e].state  BY <1>1 DEF Entity
  <2>2. t.ent = [s.ent EXCEPT ![e] = x]  BY DEF Page
  <2>3. t = [s EXCEPT !.ent = t.ent, !.tasks = t.tasks, !.out = t.out,
                      !.own = t.own, !.shared = t.shared]
    BY DEF Page
  <2> HIDE DEF x, t
  <2>4. Same(t)  BY <1>1, <2>1, <2>2, <2>3
  <2> QED  BY <2>4 DEF t
<1>8. Same(FieldStateChange(s, f, to))
  <2> HIDE DEF Same
  <2> QED
    BY <1>2, <1>3, <1>4, <1>6, <1>7 DEF FieldStateChange, u, e
<1> HIDE DEF Same
<1>9. ASSUME NEW t, Same(t)
      PROVE  /\ \A o \in Entities : t.ent[o].state = s.ent[o].state
             /\ t.fld = s.fld /\ t.activeField = s.activeField
  BY <1>9 DEF Same, Page
<1> QED  BY <1>8, <1>9

LEMMA EditorStateChangeFrame ==
  ASSUME NEW s \in Page, NEW f \in Fields, NEW from, NEW to
  PROVE  LET t == EditorStateChange(s, f, from, to) IN
         OnlyField(s, t, f) /\ t.fld[f].state = s.fld[f].state
BY DEF EditorStateChange, OnlyField, Page, Field

LEMMA EditorChangeSound ==
  ASSUME NEW c \in Context, NEW s \in Sound(c), NEW f \in Fields, NEW from, NEW to,
         s.fld[f].state = to,
         f \in c.stray \/ \A i \in DOMAIN s.out : ~(Storing(s.out[i]) /\ s.out[i].f = f)
  PROVE  EditorChange(s, f, from, to) \in Sound(c)
<1> DEFINE e == EntityOf[f]
           k == [do |-> "activate", e |-> e, f |-> f, text |-> 0]
           x == [s.fld[f] EXCEPT !.form = FALSE, !.text = s.fld[f].orig]
           u == [s EXCEPT !.fld[f] = x]
           reset == ~s.ent[e].inTempStore
           Sent(kind, b, text) == [kind |-> kind, e |-> e, f |-> f, reset |-> b,
                                   text |-> text, at |-> "sent", copy |-> None,
                                   answer |-> "none", stale |-> FALSE]
<1>1. e \in Entities /\ 0 \in Texts /\ s \in Page /\ s.fld[f] \in Field
  BY EntityOfType, TextsAre, SoundPage
<1>2. ASSUME to = "candidate"  PROVE u \in Sound(c)
  <2>1. x \in Field /\ x.state = to /\ x.views = s.fld[f].views  BY <1>1 DEF Field
  <2>2. to \notin Unsent  BY <1>2 DEF Unsent
  <2> HIDE DEF x
  <2>3. FieldFits(c, s, f, x)  BY <2>1, <2>2, SameStateFits
  <2> QED  BY <2>1, <2>3, FieldSound
<1>3. u = [s EXCEPT !.fld[f].form = FALSE, !.fld[f].text = s.fld[f].orig]
  BY <1>1 DEF Page
<1>4. ASSUME to = "activating"  PROVE Defer(s, k) \in Sound(c)
  <2>1. k \in Task  BY <1>1 DEF Task, OnFields
  <2>2. Fitting(c, s, k)
    BY <1>4 DEF Fitting, Risky, Sound, Shut, ShutField
  <2> HIDE DEF k
  <2> QED  BY <2>1, <2>2, DeferSound
<1>5. ASSUME NEW kind \in {"edit", "load"}, to = "saving" \/ kind = "edit"
      PROVE  Send(s, kind, e, f, reset, 0) \in Sound(c)
  <2> DEFINE r == Sent(kind, reset, 0)
  <2>1. r \in Request
    <3>1. reset \in BOOLEAN  OBVIOUS
    <3> HIDE DEF reset
    <3> QED  BY <1>1, <3>1 DEF Request, CopyFits, Stages, Copies
  <2>2. \A g \in c.unsafe : ~Spoils(c, r, g)
    BY DEF Spoils, Resets, Committed, Overwrites, ToWrite, Sound, Guarded
  <2>3. Sendable(c, s, r)
    BY <1>5, <2>2 DEF Sendable, Storing, Committing, SubmitFits
  <2> HIDE DEF r
  <2>4. [s EXCEPT !.out = Append(@, r)] \in Sound(c)  BY <2>1, <2>3, RequestSound
  <2> QED  BY <2>4 DEF Send, r
<1>6. ASSUME to = "saving"  PROVE Send(s, "submit", e, f, FALSE, s.fld[f].text) \in Sound(c)
  <2> DEFINE r == Sent("submit", FALSE, s.fld[f].text)
  <2>1. r \in Request  BY <1>1 DEF Request, Field, CopyFits, Stages, Copies
  <2>2. NotOlder(c, f, s.fld[f].text)  BY <1>6 DEF Sound, UnsentFits, Unsent
  <2>3. \A g \in c.unsafe : ~Spoils(c, r, g)
    BY DEF Spoils, Resets, Committed, Overwrites, ToWrite
  <2>5. Sendable(c, s, r)
    BY <1>6, <2>2, <2>3 DEF Sendable, Storing, Committing, SubmitFits, NotOlder
  <2> HIDE DEF r
  <2>4. [s EXCEPT !.out = Append(@, r)] \in Sound(c)  BY <2>1, <2>5, RequestSound
  <2> QED  BY <2>4 DEF Send, r
<1> HIDE DEF k, u, x, e, Sent
<1>7. /\ to = "saving" => LoadHiddenForm(s, f) \in Sound(c)
      /\ Send(s, "edit", e, f, reset, 0) \in Sound(c)
  <2>1. to = "saving" => Send(s, "load", e, f, reset, 0) \in Sound(c)  BY <1>5
  <2>2. Send(s, "edit", e, f, reset, 0) \in Sound(c)  BY <1>5
  <2> QED  BY <2>1, <2>2 DEF LoadHiddenForm, e
<1> QED
  BY <1>2, <1>3, <1>4, <1>6, <1>7 DEF EditorChange, k, e

LEMMA TaskOf ==
  ASSUME NEW e \in Entities, NEW what \in OnEntities
  PROVE  [do |-> what, e |-> e, f |-> None, text |-> 0] \in Task
BY TextsAre DEF Task, OnEntities, OnFields

LEMMA DeferEntitySound ==
  ASSUME NEW c, NEW s \in Sound(c), NEW e \in Entities, NEW what \in OnEntities,
         what = "closing" => s.ent[e].state = "deactivating",
         what = "closed" => s.ent[e].state = "closing"
  PROVE  DeferEntity(s, what, e) \in Sound(c)
<1> DEFINE k == [do |-> what, e |-> e, f |-> None, text |-> 0]
<1>1. k \in Task  BY TaskOf
<1>2. k.do \notin {"activate", "render", "candidate"}  BY DEF OnEntities
<1>3. /\ k.do = "closing" => s.ent[k.e].state = "deactivating"
      /\ k.do = "closed" => s.ent[k.e].state = "closing"
  OBVIOUS
<1> HIDE DEF k
<1>4. Fitting(c, s, k)  BY <1>2, <1>3, NoRiskFits
<1>5. Defer(s, k) \in Sound(c)  BY <1>1, <1>4, DeferSound
<1> QED  BY <1>5 DEF DeferEntity, k

LEMMA UpdateTempStoreSound ==
  ASSUME NEW c \in Context, NEW s \in Sound(c), NEW f \in Fields, NEW e \in Entities
  PROVE  LET t == UpdateTempStore(s, e, f) IN
         /\ t \in Sound(c) /\ t.ent[e].isCommitting = s.ent[e].isCommitting
         /\ ~s.ent[e].isCommitting => t.ent[e].inTempStore /\ f \in InTempStore(t, e)
<1> DEFINE mutex == s.ent[e].isCommitting
           x == [s.ent[e] EXCEPT !.inTempStore = IF mutex THEN @ ELSE TRUE]
           shared == IF s.own[e] = None THEN s.shared \cup {f} ELSE s.shared
           own == IF mutex /\ s.own[e] = None THEN None
                  ELSE InTempStore(s, e) \cup {f}
           u == [s EXCEPT !.ent[e] = x]
           t == [u EXCEPT !.shared = shared, !.own[e] = own]
<1>1. s \in Page /\ s.ent[e] \in Entity /\ c.unsafe \subseteq Fields
  BY SoundPage DEF Context
<1>2. /\ x \in Entity /\ x.state = s.ent[e].state /\ x.isCommitting = s.ent[e].isCommitting
      /\ s.ent[e].inTempStore => x.inTempStore
      /\ ~mutex => x.inTempStore
      /\ x.isActive = s.ent[e].isActive
  BY <1>1 DEF Entity
<1> HIDE DEF x
<1>3. EntityFits(c, s, e, x)
  BY <1>2 DEF EntityFits, Sound, Held, OneCommit, Guarded, Viewless
<1>4. u \in Sound(c)  BY <1>2, <1>3, EntitySound
<1>5. shared \in SUBSET Fields /\ own \in {None} \cup SUBSET Fields
  BY <1>1 DEF InTempStore, Page
<1>6. /\ u.own = s.own /\ u.shared = s.shared /\ u \in Page /\ u.ent[e] = x
  BY <1>1, <1>4, SoundPage DEF Page
<1>7. UpdateTempStore(s, e, f) = t
  BY <1>1 DEF UpdateTempStore, Page, x
<1>8. /\ \A o \in Entities : InTempStore(s, o) \subseteq
            (IF [s.own EXCEPT ![e] = own][o] = None THEN shared ELSE [s.own EXCEPT ![e] = own][o])
      /\ ~mutex => f \in (IF own = None THEN shared ELSE own)
  <2>1. s.own \in [Entities -> {None} \cup SUBSET Fields]  BY <1>1 DEF Page
  <2>2. InTempStore(s, e) \in SUBSET Fields  BY <1>1 DEF InTempStore, Page
  <2>3. InTempStore(s, e) \cup {f} # None  BY <2>2, NoneIsNothing
  <2> QED  BY <2>1, <2>3 DEF InTempStore
<1> HIDE DEF u, shared, own
<1>9. /\ t \in Page /\ t.ent = u.ent /\ t.fld = u.fld /\ t.tasks = u.tasks /\ t.out = u.out
       /\ t.activeField = u.activeField /\ t.own = [s.own EXCEPT ![e] = own]
       /\ t.shared = shared
  BY <1>5, <1>6 DEF Page
<1> HIDE DEF t
<1>10. Alike(u, t)  BY <1>6, <1>8, <1>9 DEF Alike, InTempStore
<1>11. t \in Sound(c)  BY <1>1, <1>4, <1>9, <1>10, AlikeSound
<1>12. ~mutex => f \in InTempStore(t, e)
  <2>1. t.own[e] = own  BY <1>1, <1>9 DEF Page
  <2> QED  BY <1>8, <1>9, <2>1 DEF InTempStore
<1> QED  BY <1>2, <1>6, <1>7, <1>9, <1>11, <1>12

LEMMA TryCommitSound ==
  ASSUME NEW c \in Context, NEW s \in Sound(c), NEW e \in Entities,
         s.ent[e].state = "committing"
  PROVE  TryCommit(s, e) \in Sound(c)
<1> DEFINE x == [s.ent[e] EXCEPT !.isCommitting = TRUE]
           t == [s EXCEPT !.ent[e] = x]
           r == [kind |-> "commit", e |-> e, f |-> None, reset |-> FALSE, text |-> 0,
                 at |-> "sent", copy |-> None, answer |-> "none", stale |-> FALSE]
<1>1. s \in Page /\ s.ent[e] \in Entity  BY SoundPage
<1>2. /\ x \in Entity /\ x.isCommitting /\ x.state = s.ent[e].state
      /\ x.inTempStore = s.ent[e].inTempStore
  BY <1>1 DEF Entity
<1>3. t = [s EXCEPT !.ent[e].isCommitting = TRUE]  BY <1>1 DEF Page
<1> HIDE DEF x
<1>4. EntityFits(c, s, e, x)
  BY <1>2 DEF EntityFits, Sound, Guarded
<1>5. t \in Sound(c)  BY <1>2, <1>4, EntitySound
<1>6. t.out = s.out /\ t.ent[e] = x  BY <1>1 DEF Page
<1> HIDE DEF t
<1>7. r \in Request  BY TextsAre DEF Request, CopyFits, Stages, Copies
<1>8. ASSUME ~s.ent[e].isCommitting  PROVE Sendable(c, t, r)
  <2>1. \A i \in DOMAIN s.out : ~(Committing(s.out[i]) /\ s.out[i].e = e)
    BY <1>8 DEF Sound, OneCommit
  <2> QED
    BY <1>2, <1>6, <2>1
       DEF Sendable, Storing, SubmitFits, Spoils, Resets, Committed, Overwrites, ToWrite
<1>9. Send(t, "commit", e, None, FALSE, 0) = [t EXCEPT !.out = Append(@, r)]
  BY DEF Send
<1> HIDE DEF r
<1>10. ASSUME ~s.ent[e].isCommitting
       PROVE  Send(t, "commit", e, None, FALSE, 0) \in Sound(c)
  BY <1>5, <1>7, <1>8, <1>9, <1>10, RequestSound
<1> QED  BY <1>3, <1>10 DEF TryCommit

LEMMA FieldStateChangeSound ==
  ASSUME NEW c \in Context, NEW s \in Sound(c), NEW f \in Fields, NEW to
  PROVE  FieldStateChange(s, f, to) \in Sound(c)
<1> DEFINE e == EntityOf[f]
           state == s.ent[e].state
           x == [s.ent[e] EXCEPT !.isDirty = TRUE]
           dirty == [s EXCEPT !.ent[e].isDirty = TRUE]
           t == CASE to = "invalid" -> DeferEntity(s, "invalid", e)
                  [] to = "saved" -> UpdateTempStore(s, e, f)
                  [] OTHER -> s
<1>1. e \in Entities /\ s \in Page  BY EntityOfType, SoundPage
<1> HIDE DEF e
<1>2. /\ DeferEntity(s, "opened", e) \in Sound(c)
      /\ DeferEntity(s, "invalid", e) \in Sound(c)
      /\ state = "deactivating" => DeferEntity(s, "closing", e) \in Sound(c)
      /\ state = "closing" => DeferEntity(s, "closed", e) \in Sound(c)
  BY <1>1, DeferEntitySound DEF OnEntities
<1>3. UpdateTempStore(s, e, f) \in Sound(c)
  BY <1>1, UpdateTempStoreSound
<1>4. t \in Sound(c)  BY <1>2, <1>3
<1>5. t.ent[e].state = s.ent[e].state
  BY <1>1 DEF DeferEntity, Defer, UpdateTempStore, Page
<1> HIDE DEF t
<1>6. state = "committing" => TryCommit(t, e) \in Sound(c)
  BY <1>1, <1>4, <1>5, TryCommitSound
<1>7. dirty \in Sound(c)
  <2>1. s.ent[e] \in Entity  BY <1>1, SoundPage
  <2>2. /\ x \in Entity /\ x.state = s.ent[e].state /\ x.isCommitting = s.ent[e].isCommitting
        /\ x.inTempStore = s.ent[e].inTempStore /\ x.isActive = s.ent[e].isActive
    BY <2>1 DEF Entity
  <2>3. dirty = [s EXCEPT !.ent[e] = x]  BY <1>1 DEF Page
  <2> HIDE DEF x, dirty
  <2>4. EntityFits(c, s, e, x)
    BY <1>1, <2>2 DEF EntityFits, Sound, Held, OneCommit, Guarded, Viewless
  <2> QED  BY <1>1, <2>2, <2>3, <2>4, EntitySound
<1> QED  BY <1>2, <1>3, <1>6, <1>7 DEF FieldStateChange, e, t

LEMMA EditorStateChangeSound ==
  ASSUME NEW c \in Context, NEW f \in Fields, NEW s \in Sound(Loosened(c, f)),
         NEW from, NEW to, s.fld[f].state = to,
         to \in Resting /\ to # "candidate" => s.activeField # f \/ f \in c.loose
  PROVE  EditorStateChange(s, f, from, to) \in Sound(c)
<1> DEFINE d == Loosened(c, f)
           text == IF from \in {"changed", "invalid"} THEN s.fld[f].orig
                   ELSE s.fld[f].text
           x == [s.fld[f] EXCEPT !.text = text]
           u == [s EXCEPT !.fld[f] = x]
           v == [u EXCEPT !.activeField = None]
           w == [s EXCEPT !.activeField = f]
           t == EditorStateChange(s, f, from, to)
<1>1. s \in Page /\ s.fld[f] \in Field  BY SoundPage
<1>2. d \in Context /\ f \in d.loose  BY LoosenedSound DEF Loosened, Context
<1>3. \A y \in Sound(d) : (y.activeField = f => y.fld[f].state \notin Resting) => y \in Sound(c)
  BY LoosenedSound
<1>4. x \in Field /\ x.state = to /\ x.views = s.fld[f].views  BY <1>1 DEF Field
<1>5. t = IF to \in Active THEN w
          ELSE IF to = "candidate" /\ s.activeField = f THEN v ELSE s
  BY <1>1 DEF EditorStateChange, Page, Active
<1> HIDE DEF t, x, d
<1>6. ASSUME to \in Active  PROVE w \in Sound(c)
  <2>1. w \in Sound(d)  BY <1>2, ActiveFieldSound DEF d
  <2>2. w.fld[f].state \notin Resting  BY <1>1, <1>6 DEF Page, Active, Resting, Ready
  <2> HIDE DEF w
  <2> QED  BY <1>3, <2>1, <2>2
<1>7. ASSUME to = "candidate"  PROVE v \in Sound(c)
  <2>1. FieldFits(d, s, f, x)  BY <1>4, <1>7, SameStateFits DEF Unsent, d
  <2>2. u \in Sound(d)  BY <1>4, <2>1, FieldSound DEF d
  <2>3. u \in Page  BY <2>2, SoundPage
  <2> HIDE DEF u
  <2>4. None \in Fields \cup {None} /\ None \notin Fields  BY NoneIsNothing
  <2>5. v \in Sound(d)  BY <2>2, <2>4, ActiveFieldSound
  <2>6. v.activeField = None  BY <2>3 DEF Page
  <2> HIDE DEF v
  <2> QED  BY <1>3, <2>4, <2>5, <2>6
<1>8. ASSUME to \notin Active, ~(to = "candidate" /\ s.activeField = f)  PROVE s \in Sound(c)
  <2>1. CASE f \in c.loose
    <3>1. d = c  BY <2>1 DEF d, Loosened, Context
    <3> QED  BY <3>1 DEF d
  <2>2. CASE f \notin c.loose  BY <1>3, <1>8, <2>2 DEF d
  <2> QED  BY <2>1, <2>2
<1> HIDE DEF u, v, w
<1>9. t \in Sound(c)  BY <1>5, <1>6, <1>7, <1>8
<1> QED  BY <1>9 DEF t

\* What field f of a page may become.
NotStored(s, f) == \A i \in DOMAIN s.out : ~(Storing(s.out[i]) /\ s.out[i].f = f)
Movable(c, s, f, to) ==
  /\ f \in c.stray \/ NotStored(s, f)
  /\ to \in Unsent => NotOlder(c, f, s.fld[f].text)
  /\ to \in Resting /\ to # "candidate" => s.activeField # f \/ f \in c.loose
  /\ f \notin c.late =>
       /\ s.ent[EntityOf[f]].state = "closed" => to = "inactive"
       /\ s.ent[EntityOf[f]].state = "closing" /\ to = "inactive" =>
            \A i, j \in DOMAIN s.tasks :
              i < j /\ Is(s.tasks[i], "closed", EntityOf[f]) => ~Risky(s.tasks[j], f)

LEMMA HeardSound ==
  ASSUME NEW c \in Context, NEW f \in Fields, NEW s \in Sound(Loosened(c, f)),
         NEW from, NEW to, s.fld[f].state = to, f \in c.stray \/ NotStored(s, f),
         to \in Resting /\ to # "candidate" => s.activeField # f \/ f \in c.loose
  PROVE  Heard(s, f, from, to) \in Sound(c)
<1> DEFINE d == Loosened(c, f)
           v == EditorChange(s, f, from, to)
           w == FieldStateChange(v, f, to)
<1>1. d \in Context /\ d.stray = c.stray  BY LoosenedSound DEF Loosened, Context
<1> HIDE DEF d
<1>2. v \in Sound(d)  BY <1>1, EditorChangeSound DEF NotStored, d
<1>3. v.fld[f].state = to /\ v.activeField = s.activeField /\ v \in Page
  <2>1. s \in Page  BY SoundPage
  <2>2. v.fld[f].state = s.fld[f].state /\ v.activeField = s.activeField
    BY <2>1, EditorChangeFrame
  <2> HIDE DEF v
  <2>3. v \in Page  BY <1>2, SoundPage
  <2> QED  BY <2>2, <2>3
<1> HIDE DEF v
<1>4. w \in Sound(d)  BY <1>1, <1>2, FieldStateChangeSound
<1>5. w.fld[f].state = to /\ w.activeField = s.activeField
  BY <1>3, FieldStateChangeFrame
<1> HIDE DEF w
<1>6. EditorStateChange(w, f, from, to) \in Sound(c)
  BY <1>4, <1>5, EditorStateChangeSound DEF d
<1> QED  BY <1>6 DEF Heard, v, w

LEMMA ChangedSound ==
  ASSUME NEW c \in Context, NEW s \in Sound(c), NEW f \in Fields,
         NEW to \in Elements(FieldStates), Movable(c, s, f, to)
  PROVE  Changed(s, f, to) \in Sound(c)
<1> DEFINE d == Loosened(c, f)
           x == [s.fld[f] EXCEPT !.state = to]
           u == [s EXCEPT !.fld[f].state = to]
           from == s.fld[f].state
<1>1. s \in Page /\ s.fld[f] \in Field  BY SoundPage
<1>2. /\ x \in Field /\ x.state = to /\ x.text = s.fld[f].text
      /\ x.views = s.fld[f].views
  BY <1>1 DEF Field
<1>3. u = [s EXCEPT !.fld[f] = x] /\ u.out = s.out /\ u.fld[f] = x
      /\ u.activeField = s.activeField
  BY <1>1 DEF Page
<1> HIDE DEF x, u
<1>4. /\ d \in Context /\ s \in Sound(d) /\ f \in d.loose /\ d.stray = c.stray
      /\ d.late = c.late /\ d.kept = c.kept /\ d.edits = c.edits
  BY LoosenedSound DEF Loosened, Context
<1> HIDE DEF d, from
<1>5. FieldFits(d, s, f, x)
  BY <1>2, <1>4 DEF FieldFits, Movable, NotStored, NotOlder, Sound, ViewlessFields
<1>6. u \in Sound(d)  BY <1>2, <1>3, <1>4, <1>5, FieldSound
<1>7. Heard(u, f, from, to) \in Sound(c)
  BY <1>2, <1>3, <1>6, HeardSound DEF d, Movable, NotStored
<1> QED  BY <1>7 DEF Changed, u, from

LEMMA HeardFrame ==
  ASSUME NEW s \in Page, NEW A, NEW a, s \in Good(A, a), NEW f \in Fields, NEW from, NEW to
  PROVE  LET t == Heard(s, f, from, to) IN
         OnlyField(s, t, f) /\ t.fld[f].state = s.fld[f].state
<1> DEFINE u == EditorChange(s, f, from, to)
           v == FieldStateChange(u, f, to)
<1>1. u \in Good(A, a)  BY EditorChangeGood
<1>2. OnlyField(s, u, f) /\ u.fld[f].state = s.fld[f].state  BY EditorChangeFrame
<1> HIDE DEF u
<1>3. v \in Good(A, a)  BY <1>1, FieldStateChangeGood
<1>4. u \in Page /\ v \in Page  BY <1>1, <1>3 DEF Good
<1>5. v.fld = u.fld /\ \A e \in Entities : v.ent[e].state = u.ent[e].state
  BY <1>4, FieldStateChangeFrame
<1> HIDE DEF v
<1>6. LET t == EditorStateChange(v, f, from, to) IN
      OnlyField(v, t, f) /\ t.fld[f].state = v.fld[f].state
  BY <1>4, EditorStateChangeFrame
<1> QED  BY <1>2, <1>5, <1>6 DEF Heard, u, v, OnlyField

LEMMA ChangedFrame ==
  ASSUME NEW c, NEW s \in Sound(c), NEW f \in Fields, NEW to \in Elements(FieldStates)
  PROVE  LET t == Changed(s, f, to) IN OnlyField(s, t, f) /\ t.fld[f].state = to
<1> DEFINE x == [s.fld[f] EXCEPT !.state = to]
           u == [s EXCEPT !.fld[f].state = to]
           from == s.fld[f].state
           A == Fields
           a == s.activeField
<1>1. s \in Page /\ Held(s) /\ s.fld[f] \in Field  BY SoundPage
<1>2. x \in Field /\ x.state = to /\ x.views = s.fld[f].views  BY <1>1 DEF Field
<1>3. u = [s EXCEPT !.fld[f] = x]  BY <1>1 DEF Page
<1>4. s \in Good(A, a)  BY <1>1 DEF Good, Acting
<1> HIDE DEF x, u
<1>5. u \in Good(A, a)  BY <1>2, <1>3, <1>4, FieldGood
<1>6. OnlyField(s, u, f) /\ u.fld[f].state = to
  BY <1>1, <1>2, <1>3 DEF OnlyField, Page
<1> HIDE DEF a, A, from
<1>7. u \in Page  BY <1>5 DEF Good
<1>8. LET t == Heard(u, f, from, to) IN
      OnlyField(u, t, f) /\ t.fld[f].state = u.fld[f].state
  BY <1>5, <1>7, HeardFrame
<1> QED  BY <1>6, <1>8 DEF Changed, u, from, OnlyField

\* What the states of a field that follow each other have in common.
LEMMA Transitions ==
  ASSUME NEW from, NEW to, Transition(from, to)
  PROVE  /\ to # "inactive"
         /\ from = "saving" => to \in {"saved", "invalid"}
         /\ to = "highlighted" => from \in Resting
<1>1. ASSUME Follows(FieldStates, from, to)
      PROVE  /\ to # "inactive"
             /\ from = "saving" => to \in {"saved", "invalid"}
             /\ to = "highlighted" => from \in {"inactive", "candidate"}
  <2>1. PICK i, j \in 1 .. 9 : i < j /\ FieldStates[i] = from /\ FieldStates[j] = to
    BY <1>1 DEF Follows, FieldStates
  <2>2. to # "inactive"
    <3>1. j # 1  BY <2>1
    <3> QED  BY <2>1, <3>1 DEF FieldStates
  <2>3. from = "saving" => to \in {"saved", "invalid"}
    <3>1. from = "saving" => i = 7  BY <2>1 DEF FieldStates
    <3>2. from = "saving" => j \in {8, 9}  BY <2>1, <3>1
    <3> QED  BY <2>1, <3>2 DEF FieldStates
  <2>4. to = "highlighted" => from \in {"inactive", "candidate"}
    <3>1. to = "highlighted" => j = 3  BY <2>1 DEF FieldStates
    <3>2. to = "highlighted" => i \in {1, 2}  BY <2>1, <3>1
    <3> QED  BY <2>1, <3>2 DEF FieldStates
  <2> QED  BY <2>2, <2>3, <2>4
<1> QED  BY <1>1 DEF Transition, Active, Resting, Ready

\* A field that is taken up belongs to an entity that is not closed; a field that
\* is not being saved is not stored.
LEMMA TakenUpIsOpen ==
  ASSUME NEW c, NEW s \in Sound(c), NEW f \in Fields \ c.late,
         s.fld[f].state # "inactive"
  PROVE  s.ent[EntityOf[f]].state # "closed"
BY DEF Sound, Shut, ShutField

LEMMA OnlySavingIsStored ==
  ASSUME NEW c, NEW s \in Sound(c), NEW f \in Fields, s.fld[f].state # "saving"
  PROVE  f \in c.stray \/ NotStored(s, f)
BY DEF Sound, OneStore, NotStored

LEMMA SetFieldSound ==
  ASSUME NEW c \in Context, NEW s \in Sound(c), NEW f \in Fields,
         NEW to \in Elements(FieldStates), to # "inactive",
         NEW reason, reason \notin {"stop", "rerender"},
         s.fld[f].state = "saving" => f \in c.stray \/ to \notin {"saved", "invalid"}
                                      \/ NotStored(s, f),
         to \in Unsent => s.fld[f].state \in Unsent \/ NotOlder(c, f, s.fld[f].text),
         f \notin c.late => s.ent[EntityOf[f]].state # "closed"
  PROVE  SetField(s, f, to, reason) \in Sound(c)
<1> DEFINE from == s.fld[f].state
<1>1. CASE Transition(from, to)
  <2>1. f \in c.stray \/ NotStored(s, f)
    BY <1>1, Transitions, OnlySavingIsStored
  <2>2. to \in Unsent => NotOlder(c, f, s.fld[f].text)
    BY DEF Sound, UnsentFits
  <2>3. to \in Resting /\ to # "candidate" => s.activeField # f \/ f \in c.loose
    <3>1. to \in Resting /\ to # "candidate" => from \in Resting
      BY <1>1, Transitions DEF Resting, Ready
    <3> QED  BY <3>1 DEF Sound, TakenUp
  <2>4. Movable(c, s, f, to)  BY <2>1, <2>2, <2>3 DEF Movable
  <2>5. Changed(s, f, to) \in Sound(c)  BY <2>4, ChangedSound
  <2> QED  BY <2>5 DEF SetField
<1>2. CASE ~Transition(from, to)  BY <1>2 DEF SetField
<1> QED  BY <1>1, <1>2

LEMMA OnlyFieldItself ==
  ASSUME NEW s, NEW f
  PROVE  OnlyField(s, s, f)
BY DEF OnlyField

LEMMA SetFieldFrame ==
  ASSUME NEW c, NEW s \in Sound(c), NEW f \in Fields, NEW to \in Elements(FieldStates),
         NEW reason
  PROVE  OnlyField(s, SetField(s, f, to, reason), f)
<1>1. OnlyField(s, Changed(s, f, to), f)  BY ChangedFrame
<1> QED  BY <1>1, OnlyFieldItself DEF SetField

LEMMA YieldSound ==
  ASSUME NEW c \in Context, NEW s \in Sound(c), NEW g \in Fields
  PROVE  Yield(s, g) \in Sound(c) /\ OnlyField(s, Yield(s, g), g)
<1> DEFINE state == s.fld[g].state
<1>1. {"candidate", "saving"} \subseteq Elements(FieldStates)  BY StatesAre
<1>2. CASE state \in Active
  <2>1. state # "inactive" /\ state # "saving"  BY <1>2 DEF Active
  <2>2. SetField(s, g, "candidate", "") \in Sound(c)
    BY <1>1, <2>1, TakenUpIsOpen, SetFieldSound DEF Unsent
  <2>3. OnlyField(s, SetField(s, g, "candidate", ""), g)  BY <1>1, SetFieldFrame
  <2>4. state \notin {"changed", "invalid"}  BY <1>2 DEF Active
  <2>5. Yield(s, g) = SetField(s, g, "candidate", "")  BY <1>2, <2>4 DEF Yield
  <2> QED  BY <2>2, <2>3, <2>5
<1>3. CASE state \in {"changed", "invalid"}
  <2>1. state # "inactive" /\ state # "saving" /\ state \in Unsent
    BY <1>3 DEF Unsent
  <2>2. SetField(s, g, "saving", "") \in Sound(c)
    BY <1>1, <2>1, TakenUpIsOpen, SetFieldSound
  <2>3. OnlyField(s, SetField(s, g, "saving", ""), g)  BY <1>1, SetFieldFrame
  <2>4. state \notin Active  BY <1>3 DEF Active
  <2> QED  BY <1>3, <2>2, <2>3, <2>4 DEF Yield
<1>4. CASE state \notin Active /\ state \notin {"changed", "invalid"}
  <2>1. Yield(s, g) = s  BY <1>4 DEF Yield
  <2> QED  BY <2>1, OnlyFieldItself
<1> QED  BY <1>2, <1>3, <1>4

LEMMA ActivateSound ==
  ASSUME NEW c \in Context, NEW s \in Sound(c), NEW f \in Fields, NEW to \in Active,
         f \notin c.late => s.ent[EntityOf[f]].state # "closed"
  PROVE  Activate(s, f, to) \in Sound(c)
<1> DEFINE from == s.fld[f].state
           other == s.activeField
           takes == from \in Ready \cup {"invalid"} /\ other \notin {None, f}
           t == IF takes THEN Yield(s, other) ELSE s
<1>1. CASE ~Transition(from, to)  BY <1>1 DEF Activate
<1>2. CASE Transition(from, to)
  <2>1. s \in Page /\ other \in Fields \cup {None}  BY SoundPage DEF Page
  <2>2. t \in Sound(c) /\ t.fld[f] = s.fld[f] /\ t.ent[EntityOf[f]].state = s.ent[EntityOf[f]].state
    <3>1. CASE ~takes  BY <3>1
    <3>2. CASE takes
      <4>1. other \in Fields /\ other # f /\ t = Yield(s, other)  BY <2>1, <3>2
      <4> HIDE DEF t, other
      <4>2. t \in Sound(c) /\ OnlyField(s, t, other)  BY <4>1, YieldSound
      <4> QED  BY <4>1, <4>2, EntityOfType DEF OnlyField
    <3> QED  BY <3>1, <3>2
  <2>3. to # "inactive" /\ from # "saving" /\ to \notin Unsent /\ to \notin Resting
        /\ to \in Elements(FieldStates)
    BY <1>2, Transitions, StatesAre DEF Active, Unsent, Resting, Ready
  <2>4. Activate(s, f, to) = IF from = to THEN s
                             ELSE IF takes /\ from = "invalid" THEN [t EXCEPT !.activeField = f]
                             ELSE Changed(t, f, to)
    BY <1>2 DEF Activate
  <2> HIDE DEF t, other
  <2>5. from = "invalid" => [t EXCEPT !.activeField = f] \in Sound(c)
    <3>1. "invalid" \notin Resting  BY DEF Resting, Ready
    <3> QED  BY <2>2, <3>1, ActiveFieldSound
  <2>6. Movable(c, t, f, to)
    BY <2>2, <2>3, OnlySavingIsStored DEF Movable
  <2>7. Changed(t, f, to) \in Sound(c)  BY <2>2, <2>3, <2>6, ChangedSound
  <2> QED  BY <2>4, <2>5, <2>7
<1> QED  BY <1>1, <1>2

LEMMA ReleasedSound ==
  ASSUME NEW c \in Context, NEW s \in Sound(c), NEW f \in Fields,
         NEW why, why \notin {"stop", "rerender"},
         s.ent[EntityOf[f]].state # "closed"
  PROVE  Released(s, f, why) \in Sound(c) /\ OnlyField(s, Released(s, f, why), f)
<1> DEFINE from == s.fld[f].state
           t == Heard(s, f, from, from)
<1>1. "candidate" \in Elements(FieldStates)  BY StatesAre
<1>2. CASE from \in Ready
  <2>1. s \in Sound(Loosened(c, f))  BY LoosenedSound
  <2>2. from # "saving" /\ from \in Resting  BY <1>2 DEF Ready, Resting
  <2>3. f \in c.stray \/ NotStored(s, f)  BY <2>2, OnlySavingIsStored
  <2>4. s.activeField # f \/ f \in c.loose  BY <2>2 DEF Sound, TakenUp
  <2>5. t \in Sound(c)
    <3> HIDE DEF from
    <3> QED  BY <2>1, <2>3, <2>4, HeardSound DEF from
  <2>6. OnlyField(s, t, f)
    <3>1. s \in Page /\ Held(s)  BY SoundPage
    <3>2. s \in Good(Fields, s.activeField)  BY <3>1 DEF Good, Acting
    <3> QED  BY <3>1, <3>2, HeardFrame
  <2> QED  BY <1>2, <2>5, <2>6 DEF Released
<1>3. CASE from \notin Ready
  <2>1. SetField(s, f, "candidate", why) \in Sound(c)
    BY <1>1, SetFieldSound DEF Unsent
  <2>2. OnlyField(s, SetField(s, f, "candidate", why), f)  BY <1>1, SetFieldFrame
  <2> QED  BY <1>3, <2>1, <2>2 DEF Released
<1> QED  BY <1>2, <1>3

LEMMA ToldSound ==
  ASSUME NEW c \in Context, NEW s \in Sound(c), NEW f \in Fields,
         NEW what \in Orders \ {"stop"}, NEW why, why \notin {"stop", "rerender"},
         s.ent[EntityOf[f]].state # "closed"
  PROVE  Told(s, f, what, why) \in Sound(c) /\ OnlyField(s, Told(s, f, what, why), f)
<1> DEFINE u == SetField(s, f, "candidate", "")
           v == SetField(s, f, "saving", "")
           w == Released(s, f, why)
<1>1. {"candidate", "saving"} \subseteq Elements(FieldStates)  BY StatesAre
<1>2. u \in Sound(c) /\ OnlyField(s, u, f)
  BY <1>1, SetFieldSound, SetFieldFrame DEF Unsent
<1>3. s.fld[f].state \in {"changed", "invalid"} => v \in Sound(c) /\ OnlyField(s, v, f)
  BY <1>1, SetFieldSound, SetFieldFrame DEF Unsent
<1>4. w \in Sound(c) /\ OnlyField(s, w, f)  BY ReleasedSound
<1> HIDE DEF u, v, w
<1>5. \/ Told(s, f, what, why) \in {s, u, w}
      \/ s.fld[f].state \in {"changed", "invalid"} /\ Told(s, f, what, why) = v
  <2>1. CASE what = "offer"  BY <2>1 DEF Told, u
  <2>2. CASE what = "leave"  BY <2>2 DEF Told, u
  <2>3. CASE what = "save"  BY <2>3 DEF Told, v
  <2>4. CASE what = "release"  BY <2>4 DEF Told, w
  <2> QED  BY <2>1, <2>2, <2>3, <2>4 DEF Orders
<1> QED  BY <1>2, <1>3, <1>4, <1>5, OnlyFieldItself

\* All fields of an entity that is not closed are told something.
LEMMA TellAllSound ==
  ASSUME NEW c \in Context, NEW s \in Sound(c), NEW e \in Entities,
         NEW what \in Orders \ {"stop"}, NEW why, why \notin {"stop", "rerender"},
         s.ent[e].state # "closed"
  PROVE  TellAll(s, e, what, why) \in {t \in Sound(c) : t.ent[e].state = s.ent[e].state}
<1> DEFINE G == {t \in Sound(c) : t.ent[e].state = s.ent[e].state}
<1>1. ASSUME NEW f \in FieldsOf(e), NEW t \in G  PROVE Told(t, f, what, why) \in G
  <2>1. f \in Fields /\ EntityOf[f] = e  BY DEF FieldsOf
  <2>2. Told(t, f, what, why) \in Sound(c) /\ OnlyField(t, Told(t, f, what, why), f)
    BY <2>1, ToldSound
  <2> QED  BY <2>2 DEF OnlyField
<1>2. s \in G  OBVIOUS
<1> HIDE DEF G
<1>3. TellAll(s, e, what, why) \in G  BY <1>1, <1>2, TellAllKeeps
<1> QED  BY <1>3 DEF G

-----------------------------------------------------------------------------
(* An entity changes its state.                                              *)

\* The states of an entity that follow each other.
LEMMA EntityTransitions ==
  ASSUME NEW from, NEW to, NEW why, AcceptStateChange(from, to, why)
  PROVE  /\ to = "opening" => from \in {"closed", "launching"}
         /\ to = "opened" /\ why # "confirming" => from \notin {"deactivating", "closing"}
         /\ to \in {"committing", "deactivating"} => from \notin {"deactivating", "closing"}
         /\ to = "closed" => from = "closing"
<1>1. ASSUME Follows(EntityStates, from, to)
      PROVE  /\ to = "opening" => from \in {"closed", "launching"}
             /\ to \in {"opened", "committing", "deactivating"} =>
                  from \notin {"deactivating", "closing"}
             /\ to # "closed"
  <2>1. PICK i, j \in 1 .. 7 : i < j /\ EntityStates[i] = from /\ EntityStates[j] = to
    BY <1>1 DEF Follows, EntityStates
  <2>2. to = "opening" => from \in {"closed", "launching"}
    <3>1. to = "opening" => j = 3  BY <2>1 DEF EntityStates
    <3>2. to = "opening" => i \in {1, 2}  BY <2>1, <3>1
    <3> QED  BY <2>1, <3>2 DEF EntityStates
  <2>3. to \in {"opened", "committing", "deactivating"} =>
          from \notin {"deactivating", "closing"}
    <3>1. to \in {"opened", "committing", "deactivating"} => j \in {4, 5, 6}
      BY <2>1 DEF EntityStates
    <3>2. to \in {"opened", "committing", "deactivating"} => i \in {1, 2, 3, 4, 5}
      BY <2>1, <3>1
    <3> QED  BY <2>1, <3>2 DEF EntityStates
  <2>4. to # "closed"
    <3>1. j # 1  BY <2>1
    <3> QED  BY <2>1, <3>1 DEF EntityStates
  <2> QED  BY <2>2, <2>3, <2>4
<1> QED  BY <1>1 DEF AcceptStateChange

\* No text of entity e is in the temp store only.
Safe(c, e) == \A f \in c.unsafe : EntityOf[f] # e

LEMMA PutSound ==
  ASSUME NEW c \in Context, NEW s \in Sound(c), NEW e \in Entities,
         NEW state \in Elements(EntityStates), ~s.ent[e].isCommitting,
         s.ent[e].state \notin {"deactivating", "closing"},
         state \notin {"closing", "closed"},
         state \in {"opened", "committing"} \/ Safe(c, e)
  PROVE  /\ Put(s, e, state) \in Sound(c)
         /\ Put(s, e, state).ent[e] = [s.ent[e] EXCEPT !.state = state]
<1> DEFINE x == [s.ent[e] EXCEPT !.state = state]
<1>1. s \in Page /\ s.ent[e] \in Entity  BY SoundPage
<1>2. /\ x \in Entity /\ x.state = state /\ ~x.isCommitting
      /\ x.inTempStore = s.ent[e].inTempStore
  BY <1>1 DEF Entity
<1>3. Put(s, e, state) = [s EXCEPT !.ent[e] = x]  BY <1>1 DEF Put, Page
<1> HIDE DEF x
<1>4. EntityFits(c, s, e, x)
  BY <1>2 DEF EntityFits, Sound, OneCommit, Guarded, Safe
<1>5. [s EXCEPT !.ent[e] = x] \in Sound(c)  BY <1>2, <1>4, EntitySound
<1>6. [s EXCEPT !.ent[e] = x].ent[e] = x  BY <1>1 DEF Page
<1> QED  BY <1>3, <1>5, <1>6 DEF x

\* An attribute of an entity that nothing else depends on.
LEMMA PlainEntitySound ==
  ASSUME NEW c \in Context, NEW s \in Sound(c), NEW e \in Entities, NEW x \in Entity,
         x.state = s.ent[e].state, x.isCommitting = s.ent[e].isCommitting,
         x.inTempStore = s.ent[e].inTempStore,
         x.state = "closed" => ~x.isActive
  PROVE  [s EXCEPT !.ent[e] = x] \in Sound(c)
<1>1. EntityFits(c, s, e, x)
  BY DEF EntityFits, Sound, Held, OneCommit, Guarded
<1> QED  BY <1>1, EntitySound

LEMMA DeactivatedSound ==
  ASSUME NEW c \in Context, NEW s \in Sound(c), NEW e \in Entities, NEW why,
         ~s.ent[e].isCommitting, s.ent[e].state \notin {"deactivating", "closing"},
         why \notin {"stop", "rerender"}, why \in {"saved", "confirmed"} => Safe(c, e)
  PROVE  Deactivated(s, e, why) \in Sound(c)
<1> DEFINE t == Put(s, e, "deactivating")
           In(states) == {f \in FieldsOf(e) : t.fld[f].state \in states}
           needed == InTempStore(t, e) # {} \/ In({"invalid"}) # {}
           asks == /\ In({"changed", "invalid"}) # {} \/ InTempStore(t, e) # {}
                   /\ why \notin {"saved", "confirmed"}
           u == [t EXCEPT !.ent[e].reload = needed]
           x == [t.ent[e] EXCEPT !.reload = needed]
           back == Put(t, e, "opened")
<1>1. s \in Page /\ s.ent[e] \in Entity  BY SoundPage
<1>2. {"opened", "deactivating"} \subseteq Elements(EntityStates)  BY StatesAre
<1>3. back = Put(s, e, "opened")
  <2>1. t.ent = [s.ent EXCEPT ![e].state = "deactivating"]  BY <1>1 DEF Put, Page
  <2>2. [t.ent EXCEPT ![e].state = "opened"] = [s.ent EXCEPT ![e].state = "opened"]
    BY <1>1, <2>1 DEF Page, Entity
  <2>3. back = [s EXCEPT !.ent = [t.ent EXCEPT ![e].state = "opened"]]
    BY <1>1 DEF Put, Page
  <2>4. Put(s, e, "opened") = [s EXCEPT !.ent = [s.ent EXCEPT ![e].state = "opened"]]
    BY <1>1 DEF Put, Page
  <2> HIDE DEF t, back
  <2> QED  BY <2>2, <2>3, <2>4
<1>4. Put(s, e, "opened") \in Sound(c)  BY <1>2, PutSound
<1> HIDE DEF back
<1>5. DeferEntity(back, "confirm", e) \in Sound(c)
  BY <1>3, <1>4, DeferEntitySound DEF OnEntities
<1>6. InTempStore(t, e) = InTempStore(s, e)  BY <1>1 DEF Put, InTempStore, Page
<1>7. ~asks => Safe(c, e)
  <2>1. ~asks => InTempStore(s, e) = {} \/ Safe(c, e)  BY <1>6
  <2>2. InTempStore(s, e) = {} => Safe(c, e)  BY DEF Sound, Guarded, Safe
  <2> HIDE DEF asks
  <2> QED  BY <2>1, <2>2
<1>8. ASSUME ~asks
      PROVE  TellAll(u, e, "release", why) \in Sound(c)
  <2>1. t \in Sound(c) /\ t.ent[e] = [s.ent[e] EXCEPT !.state = "deactivating"]
    <3> HIDE DEF t, asks
    <3> QED  BY <1>2, <1>7, <1>8, PutSound DEF t
  <2>2. t.ent[e].state = "deactivating" /\ t.ent[e] \in Entity /\ t \in Page
    <3> HIDE DEF t
    <3>1. t.ent[e].state = "deactivating"  BY <1>1, <2>1 DEF Entity
    <3> QED  BY <2>1, <3>1, SoundPage
  <2>3. needed \in BOOLEAN  OBVIOUS
  <2> HIDE DEF t, needed, asks
  <2>4. /\ x \in Entity /\ x.state = t.ent[e].state /\ x.inTempStore = t.ent[e].inTempStore
        /\ x.isCommitting = t.ent[e].isCommitting
    BY <2>2, <2>3 DEF Entity
  <2>5. u = [t EXCEPT !.ent[e] = x] /\ u.ent[e].state = x.state  BY <2>2, <2>3 DEF Page, Entity
  <2> HIDE DEF x, u
  <2>6. u \in Sound(c)  BY <2>1, <2>2, <2>4, <2>5, PlainEntitySound
  <2>7. u.ent[e].state # "closed"  BY <2>2, <2>4, <2>5
  <2> QED  BY <2>6, <2>7, TellAllSound DEF Orders
<1>9. Deactivated(s, e, why) = IF asks THEN DeferEntity(back, "confirm", e)
                               ELSE TellAll(u, e, "release", why)
  BY DEF Deactivated, asks, back, u, t, needed
<1> QED  BY <1>5, <1>8, <1>9

LEMMA DeactivateSound ==
  ASSUME NEW c \in Context, NEW s \in Sound(c), NEW e \in Entities, NEW why,
         why \notin {"stop", "rerender"}, why \in {"saved", "confirmed"} => Safe(c, e)
  PROVE  Deactivate(s, e, why) \in Sound(c)
<1>1. Accepts(s, e, "deactivating", why, {}) =>
        ~s.ent[e].isCommitting /\ s.ent[e].state \notin {"deactivating", "closing"}
  BY EntityTransitions DEF Accepts
<1> QED  BY <1>1, DeactivatedSound DEF Deactivate

LEMMA DeactivateOthersSound ==
  ASSUME NEW c \in Context, NEW s \in Sound(c), NEW e
  PROVE  DeactivateOthers(s, e) \in Sound(c)
<1>1. \A o \in Entities : \A t \in Sound(c) : Deactivate(t, o, "") \in Sound(c)
  BY DeactivateSound
<1> QED  BY <1>1, DeactivateOthersKeeps

LEMMA OpenSound ==
  ASSUME NEW c \in Context, NEW s \in Sound(c), NEW e \in Entities,
         NEW why, why # "confirming", NEW accepted
  PROVE  Open(s, e, why, accepted) \in Sound(c)
<1> DEFINE t == Put(s, e, "opened")
           x == [t.ent[e] EXCEPT !.isActive = TRUE]
           u == [t EXCEPT !.ent[e].isActive = TRUE]
<1>1. CASE ~Accepts(s, e, "opened", why, accepted)
  BY <1>1 DEF Open
<1>2. CASE Accepts(s, e, "opened", why, accepted)
  <2>1. /\ s \in Page /\ s.ent[e] \in Entity /\ ~s.ent[e].isCommitting
        /\ s.ent[e].state \notin {"deactivating", "closing"}
    BY <1>2, SoundPage, EntityTransitions DEF Accepts
  <2> HIDE DEF t
  <2>2. t \in Sound(c) /\ t.ent[e] = [s.ent[e] EXCEPT !.state = "opened"]
    <3>1. "opened" \in Elements(EntityStates)  BY StatesAre
    <3> QED  BY <2>1, <3>1, PutSound DEF t
  <2>3. t.ent[e].state = "opened" /\ t.ent[e] \in Entity /\ t \in Page
    <3>1. t.ent[e].state = "opened"  BY <2>1, <2>2 DEF Entity
    <3> QED  BY <2>2, <3>1, SoundPage
  <2>4. /\ x \in Entity /\ x.state = t.ent[e].state /\ x.inTempStore = t.ent[e].inTempStore
        /\ x.isCommitting = t.ent[e].isCommitting
    BY <2>3 DEF Entity
  <2>5. u = [t EXCEPT !.ent[e] = x]  BY <2>3 DEF Page
  <2> HIDE DEF x, u
  <2>6. u \in Sound(c)  BY <2>2, <2>3, <2>4, <2>5, PlainEntitySound
  <2>7. DeactivateOthers(u, e) \in Sound(c)  BY <2>6, DeactivateOthersSound
  <2>8. Open(s, e, why, accepted) = IF s.ent[e].isActive THEN t
                                    ELSE DeactivateOthers(u, e)
    BY <1>2 DEF Open, t, u
  <2> QED  BY <2>2, <2>7, <2>8
<1> QED  BY <1>1, <1>2

LEMMA CommitSound ==
  ASSUME NEW c \in Context, NEW s \in Sound(c), NEW e \in Entities
  PROVE  Commit(s, e) \in Sound(c)
<1> DEFINE t == Put(s, e, "committing")
           u == TellAll(t, e, "leave", "")
<1>1. CASE ~Accepts(s, e, "committing", "", {})  BY <1>1 DEF Commit
<1>2. CASE Accepts(s, e, "committing", "", {})
  <2>1. /\ s.ent[e] \in Entity /\ ~s.ent[e].isCommitting
        /\ s.ent[e].state \notin {"deactivating", "closing"}
    BY <1>2, SoundPage, EntityTransitions DEF Accepts
  <2> HIDE DEF t
  <2>2. t \in Sound(c) /\ t.ent[e] = [s.ent[e] EXCEPT !.state = "committing"]
    <3>1. "committing" \in Elements(EntityStates)  BY StatesAre
    <3> QED  BY <2>1, <3>1, PutSound DEF t
  <2>3. t.ent[e].state = "committing"  BY <2>1, <2>2 DEF Entity
  <2>4. u \in {v \in Sound(c) : v.ent[e].state = t.ent[e].state}
    <3>1. t \in Sound(c) /\ t.ent[e].state # "closed"  BY <2>2, <2>3
    <3>2. "leave" \in Orders \ {"stop"} /\ "" \notin {"stop", "rerender"}  BY DEF Orders
    <3> QED  BY <3>1, <3>2, TellAllSound, Zenon
  <2>5. u \in Sound(c) /\ u.ent[e].state # "closed"  BY <2>3, <2>4
  <2> HIDE DEF u
  <2>6. TellAll(u, e, "save", "") \in Sound(c)  BY <2>5, TellAllSound DEF Orders
  <2> QED  BY <1>2, <2>6 DEF Commit, t, u
<1> QED  BY <1>1, <1>2

LEMMA OpeningSound ==
  ASSUME NEW c \in Context, NEW s \in Sound(c), NEW e \in Entities
  PROVE  Opening(s, e) \in Sound(c)
<1> DEFINE t == Put(s, e, "opening")
<1>1. CASE ~Accepts(s, e, "opening", "", {})  BY <1>1 DEF Opening
<1>2. CASE Accepts(s, e, "opening", "", {})
  <2>1. /\ s.ent[e] \in Entity /\ ~s.ent[e].isCommitting
        /\ s.ent[e].state \in {"closed", "launching"}
    BY <1>2, SoundPage, EntityTransitions DEF Accepts
  <2>2. Safe(c, e)  BY <2>1 DEF Sound, Guarded, Safe
  <2> HIDE DEF t
  <2>3. t \in Sound(c) /\ t.ent[e] = [s.ent[e] EXCEPT !.state = "opening"]
    <3>1. "opening" \in Elements(EntityStates)  BY StatesAre
    <3> QED  BY <2>1, <2>2, <3>1, PutSound DEF t
  <2>4. t.ent[e].state = "opening"  BY <2>1, <2>3 DEF Entity
  <2>5. TellAll(t, e, "offer", "") \in Sound(c)  BY <2>3, <2>4, TellAllSound DEF Orders
  <2> QED  BY <1>2, <2>5 DEF Opening, t
<1> QED  BY <1>1, <1>2

-----------------------------------------------------------------------------
(* An entity is closed, and is launched again.                               *)

\* A field of an entity that is being closed is stopped: the entity hears of it.
LEMMA StopSound ==
  ASSUME NEW c \in Context, NEW s \in Sound(c), NEW f \in Fields, NEW e \in Entities,
         e = EntityOf[f], s.ent[e].state = "closing",
         s.fld[f].state \in Ready \cup {"inactive"},
         \A i, j \in DOMAIN s.tasks :
           i < j => ~(Is(s.tasks[i], "closed", e) /\ Risky(s.tasks[j], f))
  PROVE  LET t == SetField(s, f, "inactive", "stop")
             k == [do |-> "closed", e |-> e, f |-> None, text |-> 0] IN
         /\ t \in Sound(c) /\ OnlyField(s, t, f)
         /\ t.fld[f].state \in Ready \cup {"inactive"}
         /\ t.tasks = s.tasks \/ t.tasks = Append(s.tasks, k)
<1> DEFINE from == s.fld[f].state
           t == SetField(s, f, "inactive", "stop")
           k == [do |-> "closed", e |-> e, f |-> None, text |-> 0]
           u == [s EXCEPT !.fld[f].state = "inactive"]
<1>1. s \in Page /\ s.fld[f] \in Field /\ "inactive" \in Elements(FieldStates)
  BY SoundPage, StatesAre
<1>2. CASE from = "inactive"
  <2>1. t = s  BY <1>2 DEF SetField
  <2> QED  BY <1>2, <2>1, OnlyFieldItself
<1>3. CASE from # "inactive"
  <2>1. t = Changed(s, f, "inactive")  BY <1>3 DEF SetField
  <2>2. from \in Ready /\ from # "saving" /\ from \in Resting  BY <1>3 DEF Ready, Resting
  <2>3. Movable(c, s, f, "inactive")
    <3>1. f \in c.stray \/ NotStored(s, f)  BY <2>2, OnlySavingIsStored
    <3>2. s.activeField # f \/ f \in c.loose  BY <2>2 DEF Sound, TakenUp
    <3> QED  BY <3>1, <3>2 DEF Movable, Unsent
  <2>4. t \in Sound(c)  BY <1>1, <2>1, <2>3, ChangedSound
  <2>5. OnlyField(s, t, f) /\ t.fld[f].state = "inactive"  BY <1>1, <2>1, ChangedFrame
  <2>6. t.tasks = Append(s.tasks, k)
    <3>1. u.ent = s.ent /\ u.tasks = s.tasks /\ u \in [DOMAIN s -> {u[a] : a \in DOMAIN s}]
      BY <1>1 DEF Page
    <3> HIDE DEF u
    <3>2. EditorChange(u, f, from, "inactive") = u
      BY <2>2 DEF EditorChange
    <3>3. FieldStateChange(u, f, "inactive") = DeferEntity(u, "closed", e)
      BY <3>1 DEF FieldStateChange
    <3>4. EditorStateChange(DeferEntity(u, "closed", e), f, from, "inactive")
            = DeferEntity(u, "closed", e)
      BY DEF EditorStateChange, Active
    <3>5. t = DeferEntity(u, "closed", e)
      BY <2>1, <3>2, <3>3, <3>4 DEF Changed, Heard, u
    <3>6. DeferEntity(u, "closed", e).tasks = Append(s.tasks, k)
      <4>1. u = [s EXCEPT !.fld = u.fld]  BY <1>1 DEF u, Page
      <4> QED  BY <1>1, <3>1, <4>1 DEF DeferEntity, Defer, Page
    <3> HIDE DEF t
    <3> QED  BY <3>5, <3>6
  <2> QED  BY <2>4, <2>5, <2>6
<1> QED  BY <1>2, <1>3

\* The entity is being closed.
LEMMA PutClosingSound ==
  ASSUME NEW c \in Context, NEW s \in Sound(c), NEW e \in Entities,
         ~s.ent[e].isCommitting, s.ent[e].state = "deactivating",
         \A i \in DOMAIN s.tasks :
           /\ ~Is(s.tasks[i], "closed", e)
           /\ \A f \in FieldsOf(e) \ c.late : ~Renders(s.tasks[i], f)
  PROVE  /\ Put(s, e, "closing") \in Sound(c)
         /\ Put(s, e, "closing").ent[e].state = "closing"
         /\ Put(s, e, "closing").fld = s.fld /\ Put(s, e, "closing").tasks = s.tasks
<1> DEFINE x == [s.ent[e] EXCEPT !.state = "closing"]
           t == [s EXCEPT !.ent[e] = x]
<1>1. s \in Page /\ s.ent[e] \in Entity  BY SoundPage
<1>2. x \in Entity /\ x.state = "closing" /\ ~x.isCommitting
  BY <1>1, StatesAre DEF Entity
<1>3. Put(s, e, "closing") = t  BY <1>1 DEF Put, Page
<1> HIDE DEF x
<1>4. t \in Page  BY <1>1, <1>2 DEF Page
<1>5. /\ t.out = s.out /\ t.fld = s.fld /\ t.tasks = s.tasks /\ t.own = s.own
      /\ t.shared = s.shared /\ t.activeField = s.activeField
      /\ t.ent[e] = x /\ \A o \in Entities : o # e => t.ent[o] = s.ent[o]
  BY <1>1 DEF Page
<1> HIDE DEF t
<1>6. Held(t)  BY <1>2, <1>5 DEF Sound, Held
<1>7. OneStore(c, t) /\ SubmitsFit(c, t) /\ UnsentFits(c, t) /\ TakenUp(c, t)
  BY <1>5 DEF Sound, OneStore, SubmitsFit, UnsentFits, TakenUp
<1>8. OneCommit(t)
  <2>1. OneCommit(s)  BY DEF Sound
  <2>2. ASSUME NEW i \in DOMAIN s.out, Committing(s.out[i])
        PROVE  t.ent[s.out[i].e].isCommitting
    <3>1. s.out[i].e \in Entities
      <4>1. s.out[i] \in Request  BY SoundPage
      <4> QED  BY <4>1 DEF Request
    <3> QED  BY <1>5, <2>1, <2>2, <3>1 DEF OneCommit
  <2> QED  BY <1>5, <2>1, <2>2 DEF OneCommit
<1>9. Guarded(c, t)
  <2>1. Guarded(c, s) /\ c.unsafe \subseteq Fields  BY DEF Sound, Context
  <2>2. ASSUME NEW f \in c.unsafe  PROVE t.ent[EntityOf[f]] = s.ent[EntityOf[f]]
    <3>1. EntityOf[f] # e  BY <2>1 DEF Guarded
    <3> QED  BY <1>5, <2>1, <3>1, EntityOfType
  <2> QED  BY <1>5, <2>1, <2>2 DEF Guarded, InTempStore
<1>10. Ordered(t)
  <2>1. Ordered(s)  BY DEF Sound
  <2>2. ASSUME NEW o \in Entities, o # e  PROVE t.ent[o] = s.ent[o]  BY <1>5, <2>2
  <2> QED  BY <1>2, <1>5, <2>1, <2>2 DEF Ordered
<1>11. Viewless(t)  BY <1>2, <1>5 DEF Sound, Viewless
<1>12. ViewlessFields(t)
  <2>1. ASSUME NEW f \in Fields, t.ent[EntityOf[f]].state = "closed"
        PROVE  s.ent[EntityOf[f]].state = "closed"
    BY <1>2, <1>5, <2>1, EntityOfType
  <2> QED  BY <1>5, <2>1 DEF Sound, ViewlessFields
<1>13. Shut(c, t)
  <2> SUFFICES ASSUME NEW f \in Fields \ c.late  PROVE ShutField(t, f)  BY DEF Shut
  <2>1. ShutField(s, f)  BY DEF Sound, Shut
  <2>2. CASE EntityOf[f] = e
    <3>1. f \in FieldsOf(e) \ c.late  BY <2>2 DEF FieldsOf
    <3> QED  BY <1>2, <1>5, <2>2, <3>1 DEF ShutField
  <2>3. CASE EntityOf[f] # e
    <3>1. t.ent[EntityOf[f]] = s.ent[EntityOf[f]]  BY <1>5, <2>3, EntityOfType
    <3> QED  BY <1>5, <2>1, <3>1 DEF ShutField
  <2> QED  BY <2>2, <2>3
<1>14. t \in Sound(c)
  BY <1>4, <1>6, <1>7, <1>8, <1>9, <1>10, <1>11, <1>12, <1>13 DEF Sound
<1> QED  BY <1>2, <1>3, <1>5, <1>14

LEMMA ClosingSound ==
  ASSUME NEW c \in Context, NEW s \in Sound(c), NEW e \in Entities,
         s.ent[e].state \in {"deactivating", "closing"},
         s.ent[e].state = "deactivating" =>
           \A i \in DOMAIN s.tasks :
             /\ ~Is(s.tasks[i], "closed", e)
             /\ \A f \in FieldsOf(e) \ c.late : ~Renders(s.tasks[i], f)
  PROVE  Closing(s, e) \in Sound(c)
<1> DEFINE t == Put(s, e, "closing")
           G == {v \in Sound(c) :
                   /\ v.ent[e].state = "closing"
                   /\ \A f \in FieldsOf(e) : v.fld[f].state \in Ready \cup {"inactive"}
                   /\ \A f \in FieldsOf(e) : \A i, j \in DOMAIN v.tasks :
                        i < j => ~(Is(v.tasks[i], "closed", e) /\ Risky(v.tasks[j], f))}
<1>1. CASE ~Accepts(s, e, "closing", "", Ready)  BY <1>1 DEF Closing
<1>2. CASE Accepts(s, e, "closing", "", Ready)
  <2>1. ~s.ent[e].isCommitting /\ s.ent[e].state = "deactivating"
    BY <1>2 DEF Accepts
  <2>2. \A f \in FieldsOf(e) : s.fld[f].state \in Ready
    BY <1>2 DEF Accepts, AcceptableStates, Ready
  <2> HIDE DEF t
  <2>3. t \in Sound(c) /\ t.ent[e].state = "closing" /\ t.fld = s.fld /\ t.tasks = s.tasks
    BY <2>1, PutClosingSound DEF t
  <2>4. t \in G  BY <2>1, <2>2, <2>3
  <2>5. ASSUME NEW f \in FieldsOf(e), NEW v \in G  PROVE Told(v, f, "stop", "") \in G
    <3> DEFINE w == SetField(v, f, "inactive", "stop")
               k == [do |-> "closed", e |-> e, f |-> None, text |-> 0]
    <3>1. f \in Fields /\ EntityOf[f] = e  BY DEF FieldsOf
    <3>2. /\ w \in Sound(c) /\ OnlyField(v, w, f)
          /\ w.fld[f].state \in Ready \cup {"inactive"}
          /\ w.tasks = v.tasks \/ w.tasks = Append(v.tasks, k)
      BY <3>1, StopSound
    <3>3. Told(v, f, "stop", "") = w  BY DEF Told
    <3> HIDE DEF w
    <3>4. w.ent[e].state = "closing"  BY <3>2 DEF OnlyField
    <3>5. \A g \in FieldsOf(e) : w.fld[g].state \in Ready \cup {"inactive"}
      BY <3>2 DEF OnlyField, FieldsOf
    <3>6. ASSUME NEW g \in FieldsOf(e), NEW i \in DOMAIN w.tasks, NEW j \in DOMAIN w.tasks, i < j
          PROVE  ~(Is(w.tasks[i], "closed", e) /\ Risky(w.tasks[j], g))
      <4>1. CASE w.tasks = v.tasks  BY <3>6, <4>1
      <4>2. CASE w.tasks = Append(v.tasks, k)
        <5> DEFINE l == Len(v.tasks)
        <5>1. v.tasks \in Seq(Task)  BY SoundPage
        <5>2. ~Risky(k, g)  BY DEF Risky
        <5> HIDE DEF k
        <5>3. /\ DOMAIN w.tasks = 1 .. l + 1 /\ l \in Nat /\ DOMAIN v.tasks = 1 .. l
              /\ w.tasks[l + 1] = k /\ \A m \in 1 .. l : w.tasks[m] = v.tasks[m]
          BY <4>2, <5>1
        <5> HIDE DEF l
        <5>4. CASE j = l + 1  BY <5>2, <5>3, <5>4
        <5>5. CASE j # l + 1
          <6>1. i \in 1 .. l /\ j \in 1 .. l  BY <3>6, <5>3, <5>5
          <6> QED  BY <3>6, <5>3, <6>1
        <5> QED  BY <5>4, <5>5
      <4> QED  BY <3>2, <4>1, <4>2
    <3> QED  BY <3>2, <3>3, <3>4, <3>5, <3>6
  <2> HIDE DEF G
  <2>6. TellAll(t, e, "stop", "") \in G  BY <2>4, <2>5, TellAllKeeps
  <2>7. TellAll(t, e, "stop", "") \in Sound(c)  BY <2>6 DEF G
  <2> QED  BY <1>2, <2>7 DEF Closing, t
<1> QED  BY <1>1, <1>2

\* Views come and go; those of a closed entity do not come.
LEMMA SetViewsSound ==
  ASSUME NEW c \in Context, NEW s \in Sound(c), NEW S, NEW on \in BOOLEAN,
         on => \A f \in Fields : f \in S => s.ent[EntityOf[f]].state # "closed"
  PROVE  LET t == SetViews(s, S, on) IN
         /\ t \in Sound(c)
         /\ t.ent = s.ent /\ t.tasks = s.tasks /\ t.out = s.out
         /\ t.activeField = s.activeField
         /\ \A f \in Fields : t.fld[f].state = s.fld[f].state
         /\ ~on => \A f \in Fields : f \in S => ~t.fld[f].views
<1> DEFINE fld == [f \in Fields |-> IF f \in S THEN [s.fld[f] EXCEPT !.views = on, !.form = FALSE]
                                    ELSE s.fld[f]]
           t == [s EXCEPT !.fld = fld]
<1>1. s \in Page /\ s.fld \in [Fields -> Field]  BY SoundPage DEF Page
<1>2. ASSUME NEW f \in Fields
      PROVE  /\ fld[f] \in Field /\ fld[f].state = s.fld[f].state
             /\ fld[f].text = s.fld[f].text
             /\ IF f \in S THEN fld[f].views = on ELSE fld[f].views = s.fld[f].views
  <2>1. s.fld[f] \in Field  BY <1>1
  <2>2. CASE f \in S  BY <2>1, <2>2 DEF Field
  <2>3. CASE f \notin S  BY <2>1, <2>3
  <2> QED  BY <2>2, <2>3
<1>3. fld \in [Fields -> Field]  BY <1>2
<1>4. SetViews(s, S, on) = t  BY DEF SetViews
<1> HIDE DEF fld
<1>5. t \in Page  BY <1>1, <1>3 DEF Page
<1>6. /\ t.out = s.out /\ t.ent = s.ent /\ t.tasks = s.tasks /\ t.own = s.own
      /\ t.shared = s.shared /\ t.activeField = s.activeField /\ t.fld = fld
  BY <1>1 DEF Page
<1> HIDE DEF t
<1>7. OneStore(c, t)
  <2>1. OneStore(c, s)  BY DEF Sound
  <2>2. ASSUME NEW i \in DOMAIN s.out, Storing(s.out[i])
        PROVE  t.fld[s.out[i].f].state = s.fld[s.out[i].f].state
    <3>1. s.out[i] \in Request  BY SoundPage
    <3>2. s.out[i].f \in Fields  BY <2>2, <3>1 DEF Request, Storing
    <3> QED  BY <1>2, <1>6, <3>2
  <2> QED  BY <1>6, <2>1, <2>2 DEF OneStore
<1>8. OneCommit(t) /\ SubmitsFit(c, t) /\ Held(t)
  BY <1>6 DEF Sound, OneCommit, SubmitsFit, Held
<1>9. UnsentFits(c, t)  BY <1>2, <1>6 DEF Sound, UnsentFits
<1>10. Guarded(c, t) /\ Ordered(t) /\ Viewless(t)
  BY <1>6 DEF Sound, Guarded, InTempStore, Ordered, Viewless
<1>11. TakenUp(c, t)  BY <1>2, <1>6 DEF Sound, TakenUp
<1>12. ViewlessFields(t)  BY <1>2, <1>6 DEF Sound, ViewlessFields
<1>13. Shut(c, t)
  <2> SUFFICES ASSUME NEW f \in Fields \ c.late  PROVE ShutField(t, f)  BY DEF Shut
  <2>1. ShutField(s, f) /\ t.fld[f].state = s.fld[f].state  BY <1>2, <1>6 DEF Sound, Shut
  <2> QED  BY <1>6, <2>1 DEF ShutField
<1>14. t \in Sound(c)
  BY <1>5, <1>7, <1>8, <1>9, <1>10, <1>11, <1>12, <1>13 DEF Sound
<1> QED  BY <1>2, <1>4, <1>6, <1>14

\* An entity that was left, with its fields stopped and without views.
LEMMA LeftSound ==
  ASSUME NEW c \in Context, NEW s \in Sound(c), NEW e \in Entities, NEW x \in Entity,
         s.ent[e].state = "closing", x.state = "closed", ~x.isCommitting, ~x.isActive,
         \A f \in FieldsOf(e) : ~s.fld[f].views /\ s.fld[f].state = "inactive",
         \A i \in DOMAIN s.tasks :
           /\ ~Is(s.tasks[i], "closing", e)
           /\ \A f \in FieldsOf(e) \ c.late : ~Risky(s.tasks[i], f)
  PROVE  [s EXCEPT !.ent[e] = x] \in Sound(c)
<1> DEFINE t == [s EXCEPT !.ent[e] = x]
<1>1. s \in Page  BY SoundPage
<1>2. t \in Page  BY <1>1 DEF Page
<1>3. /\ t.out = s.out /\ t.fld = s.fld /\ t.tasks = s.tasks /\ t.own = s.own
      /\ t.shared = s.shared /\ t.activeField = s.activeField
      /\ t.ent[e] = x /\ \A o \in Entities : o # e => t.ent[o] = s.ent[o]
  BY <1>1 DEF Page
<1> HIDE DEF t
<1>4. Held(t)  BY <1>3 DEF Sound, Held
<1>5. OneStore(c, t) /\ SubmitsFit(c, t) /\ UnsentFits(c, t) /\ TakenUp(c, t)
  BY <1>3 DEF Sound, OneStore, SubmitsFit, UnsentFits, TakenUp
<1>6. OneCommit(t)
  <2>1. OneCommit(s) /\ Held(s)  BY DEF Sound
  <2>2. ASSUME NEW i \in DOMAIN s.out, Committing(s.out[i])
        PROVE  t.ent[s.out[i].e].isCommitting
    <3>1. s.out[i].e \in Entities
      <4>1. s.out[i] \in Request  BY SoundPage
      <4> QED  BY <4>1 DEF Request
    <3>2. s.out[i].e # e  BY <2>1, <2>2, <3>1 DEF OneCommit, Held
    <3> QED  BY <1>3, <2>1, <2>2, <3>1, <3>2 DEF OneCommit
  <2> QED  BY <1>3, <2>1, <2>2 DEF OneCommit
<1>7. Guarded(c, t)
  <2>1. Guarded(c, s) /\ c.unsafe \subseteq Fields  BY DEF Sound, Context
  <2>2. ASSUME NEW f \in c.unsafe  PROVE t.ent[EntityOf[f]] = s.ent[EntityOf[f]]
    <3>1. EntityOf[f] # e  BY <2>1 DEF Guarded
    <3> QED  BY <1>3, <2>1, <3>1, EntityOfType
  <2> QED  BY <1>3, <2>1, <2>2 DEF Guarded, InTempStore
<1>8. Ordered(t)
  <2>1. Ordered(s)  BY DEF Sound
  <2>2. ASSUME NEW o \in Entities, o # e  PROVE t.ent[o] = s.ent[o]  BY <1>3, <2>2
  <2> QED  BY <1>3, <2>1, <2>2 DEF Ordered
<1>9. Viewless(t)  BY <1>3 DEF Sound, Viewless
<1>10. ViewlessFields(t)
  <2> SUFFICES ASSUME NEW f \in Fields, t.ent[EntityOf[f]].state = "closed"
               PROVE  ~t.fld[f].views
    BY DEF ViewlessFields
  <2>1. CASE EntityOf[f] = e  BY <1>3, <2>1 DEF FieldsOf
  <2>2. CASE EntityOf[f] # e
    <3>1. t.ent[EntityOf[f]] = s.ent[EntityOf[f]]  BY <1>3, <2>2, EntityOfType
    <3> QED  BY <1>3, <3>1 DEF Sound, ViewlessFields
  <2> QED  BY <2>1, <2>2
<1>11. Shut(c, t)
  <2> SUFFICES ASSUME NEW f \in Fields \ c.late  PROVE ShutField(t, f)  BY DEF Shut
  <2>1. ShutField(s, f)  BY DEF Sound, Shut
  <2>2. CASE EntityOf[f] = e
    <3>1. f \in FieldsOf(e) \ c.late  BY <2>2 DEF FieldsOf
    <3> QED  BY <1>3, <2>2, <3>1 DEF ShutField
  <2>3. CASE EntityOf[f] # e
    <3>1. t.ent[EntityOf[f]] = s.ent[EntityOf[f]]  BY <1>3, <2>3, EntityOfType
    <3> QED  BY <1>3, <2>1, <3>1 DEF ShutField
  <2> QED  BY <2>2, <2>3
<1>12. t \in Sound(c)
  BY <1>2, <1>4, <1>5, <1>6, <1>7, <1>8, <1>9, <1>10, <1>11 DEF Sound
<1> QED  BY <1>12 DEF t

LEMMA ClosedSound ==
  ASSUME NEW c \in Context, NEW s \in Sound(c), NEW e \in Entities,
         \A i \in DOMAIN s.tasks :
           /\ s.ent[e].state = "closing" => ~Is(s.tasks[i], "closing", e)
           /\ s.ent[e].state = "closing" =>
                \A f \in FieldsOf(e) \ c.late :
                  s.fld[f].state = "inactive" => ~Risky(s.tasks[i], f)
  PROVE  Closed(s, e) \in Sound(c)
<1> DEFINE x == [s.ent[e] EXCEPT !.state = "closed", !.isActive = FALSE,
                                 !.inTempStore = FALSE, !.isDirty = FALSE]
           u == SetViews(s, FieldsOf(e), FALSE)
           v == [u EXCEPT !.ent[e] = x]
           w == [v EXCEPT !.loading = s.reload]
<1>1. CASE ~Accepts(s, e, "closed", "", {"inactive"})  BY <1>1 DEF Closed
<1>2. CASE Accepts(s, e, "closed", "", {"inactive"})
  <2>1. s \in Page /\ s.ent[e] \in Entity /\ s.reload \in BOOLEAN
    BY SoundPage DEF Page
  <2>2. ~s.ent[e].isCommitting /\ s.ent[e].state = "closing"
    BY <1>2, EntityTransitions DEF Accepts
  <2>3. \A f \in FieldsOf(e) : s.fld[f].state = "inactive"
    BY <1>2 DEF Accepts, AcceptableStates
  <2>4. x \in Entity /\ x.state = "closed" /\ ~x.isCommitting /\ ~x.isActive
    BY <2>1, <2>2, StatesAre DEF Entity
  <2>5. Closed(s, e) = w
    <3> DEFINE fld == [f \in Fields |-> IF f \in FieldsOf(e)
                         THEN [s.fld[f] EXCEPT !.views = FALSE, !.form = FALSE] ELSE s.fld[f]]
               t == [Put(s, e, "closed") EXCEPT !.ent[e].isActive = FALSE,
                                                !.ent[e].inTempStore = FALSE,
                                                !.ent[e].isDirty = FALSE,
                                                !.loading = s.reload]
               ent == [s.ent EXCEPT ![e] = x]
    <3>1. t = [s EXCEPT !.ent = ent, !.loading = s.reload]
      <4>1. t = [s EXCEPT !.ent = t.ent, !.loading = s.reload]  BY <2>1 DEF Put, Page
      <4>2. t.ent = ent  BY <2>1 DEF Put, Page, Entity
      <4> HIDE DEF t, ent
      <4> QED  BY <4>1, <4>2
    <3>2. Closed(s, e) = SetViews(t, FieldsOf(e), FALSE)  BY <1>2 DEF Closed
    <3>3. u = [s EXCEPT !.fld = fld]  BY DEF SetViews
    <3> HIDE DEF x
    <3>4. w = [s EXCEPT !.fld = fld, !.ent = ent, !.loading = s.reload]
      <4> HIDE DEF fld, u
      <4> QED  BY <2>1, <3>3 DEF Page
    <3> HIDE DEF t, ent
    <3>5. t.fld = s.fld  BY <2>1, <3>1 DEF Page
    <3>6. SetViews(t, FieldsOf(e), FALSE) = [t EXCEPT !.fld = fld]
      BY <3>5 DEF SetViews
    <3> HIDE DEF fld, w
    <3>7. [t EXCEPT !.fld = fld] = [s EXCEPT !.fld = fld, !.ent = ent, !.loading = s.reload]
      BY <2>1, <3>1 DEF Page
    <3> QED  BY <3>2, <3>4, <3>6, <3>7
  <2> HIDE DEF x, u
  <2>6. /\ u \in Sound(c) /\ u.ent = s.ent /\ u.tasks = s.tasks
        /\ \A f \in FieldsOf(e) : ~u.fld[f].views /\ u.fld[f].state = "inactive"
    BY <2>3, SetViewsSound DEF u, FieldsOf
  <2>7. \A i \in DOMAIN s.tasks :
          /\ ~Is(s.tasks[i], "closing", e)
          /\ \A f \in FieldsOf(e) \ c.late : ~Risky(s.tasks[i], f)
    BY <2>2, <2>3
  <2>8. v \in Sound(c)  BY <2>2, <2>4, <2>6, <2>7, LeftSound
  <2> HIDE DEF v
  <2>9. v \in Page  BY <2>8, SoundPage
  <2>10. w \in Page  BY <2>1, <2>9 DEF Page
  <2>11. /\ w.ent = v.ent /\ w.fld = v.fld /\ w.tasks = v.tasks /\ w.out = v.out
         /\ w.activeField = v.activeField /\ w.own = v.own /\ w.shared = v.shared
    BY <2>9 DEF Page
  <2> HIDE DEF w
  <2>12. Alike(v, w) /\ c.unsafe \subseteq Fields  BY <2>11 DEF Alike, InTempStore, Context
  <2> QED  BY <2>5, <2>8, <2>10, <2>12, AlikeSound
<1> QED  BY <1>1, <1>2

\* The app forgets or learns that the page is to be reloaded; a dialog opens or
\* is closed.
LEMMA FlagsSound ==
  ASSUME NEW c \in Context, NEW s \in Sound(c), NEW b \in BOOLEAN,
         NEW m \in Entities \cup {None}
  PROVE  /\ [s EXCEPT !.reload = b] \in Sound(c)
         /\ [s EXCEPT !.activeModal = m] \in Sound(c)
<1> DEFINE t == [s EXCEPT !.reload = b]
           u == [s EXCEPT !.activeModal = m]
<1>1. s \in Page /\ c.unsafe \subseteq Fields  BY SoundPage DEF Context
<1>2. t \in Page /\ u \in Page  BY <1>1 DEF Page
<1>3. /\ t.ent = s.ent /\ t.fld = s.fld /\ t.tasks = s.tasks /\ t.out = s.out
      /\ t.activeField = s.activeField /\ t.own = s.own /\ t.shared = s.shared
  BY <1>1 DEF Page
<1>4. /\ u.ent = s.ent /\ u.fld = s.fld /\ u.tasks = s.tasks /\ u.out = s.out
      /\ u.activeField = s.activeField /\ u.own = s.own /\ u.shared = s.shared
  BY <1>1 DEF Page
<1> HIDE DEF t, u
<1>5. Alike(s, t) /\ Alike(s, u)  BY <1>3, <1>4 DEF Alike, InTempStore
<1>6. t \in Sound(c) /\ u \in Sound(c)  BY <1>1, <1>2, <1>5, AlikeSound
<1> QED  BY <1>6 DEF t, u

LEMMA LaunchSound ==
  ASSUME NEW c \in Context, NEW s \in Sound(c), NEW e \in Entities,
         s.ent[e].state = "closed"
  PROVE  Launch(s, e) \in Sound(c)
<1> DEFINE t == Put(s, e, "launching")
           u == [t EXCEPT !.reload = FALSE]
           v == SetViews(u, FieldsOf(e), TRUE)
<1>1. s \in Page /\ s.ent[e] \in Entity /\ ~s.ent[e].isCommitting /\ Safe(c, e)
  BY SoundPage DEF Sound, Held, Guarded, Safe
<1> HIDE DEF t
<1>2. t \in Sound(c) /\ t.ent[e] = [s.ent[e] EXCEPT !.state = "launching"]
  <2>1. "launching" \in Elements(EntityStates)  BY StatesAre
  <2> QED  BY <1>1, <2>1, PutSound DEF t
<1>3. t \in Page /\ t.ent[e].state = "launching"
  BY <1>1, <1>2, SoundPage DEF Entity
<1>4. u \in Sound(c) /\ u.ent[e].state = "launching"
  <2>1. u.ent = t.ent  BY <1>3 DEF Page
  <2> QED  BY <1>2, <1>3, <2>1, FlagsSound
<1> HIDE DEF u
<1>5. v \in Sound(c)
  <2>1. \A f \in Fields : f \in FieldsOf(e) => u.ent[EntityOf[f]].state # "closed"
    BY <1>4 DEF FieldsOf
  <2> QED  BY <1>4, <2>1, SetViewsSound
<1> HIDE DEF v
<1>6. DeferEntity(v, "opening", e) \in Sound(c)
  BY <1>5, DeferEntitySound DEF OnEntities
<1> QED  BY <1>6 DEF Launch, t, u, v

LEMMA MarkReloadSound ==
  ASSUME NEW c \in Context, NEW s \in Sound(c), NEW e \in Entities
  PROVE  MarkReload(s, e) \in Sound(c)
<1> DEFINE x == [s.ent[e] EXCEPT !.reload = FALSE]
           t == [s EXCEPT !.ent[e] = x]
<1>1. s \in Page /\ s.ent[e] \in Entity /\ (s.ent[e].state = "closed" => ~s.ent[e].isActive)
  BY SoundPage DEF Sound, Viewless
<1>2. /\ x \in Entity /\ x.state = s.ent[e].state /\ x.isCommitting = s.ent[e].isCommitting
      /\ x.inTempStore = s.ent[e].inTempStore /\ x.isActive = s.ent[e].isActive
  BY <1>1 DEF Entity
<1>3. [t EXCEPT !.reload = TRUE] = [s EXCEPT !.reload = TRUE, !.ent[e].reload = FALSE]
  BY <1>1 DEF Page
<1> HIDE DEF x
<1>4. t \in Sound(c)  BY <1>1, <1>2, PlainEntitySound
<1> HIDE DEF t
<1>5. [t EXCEPT !.reload = TRUE] \in Sound(c)  BY <1>4, FlagsSound
<1> QED  BY <1>3, <1>5 DEF MarkReload

-----------------------------------------------------------------------------
(* A field is rendered again.                                                *)

\* Sequence u has elements of q at some places up to n, in their order.
EachFrom(u, q, places, n) ==
  \A i \in DOMAIN u : \E p \in 1 .. n : p \in places /\ u[i] = q[p]
InOrder(u, q, n) ==
  \A i \in DOMAIN u : \A j \in DOMAIN u : i < j =>
    \E p \in 1 .. n : \E o \in 1 .. n : p < o /\ u[i] = q[p] /\ u[j] = q[o]
PartUpTo(u, q, places, n) == EachFrom(u, q, places, n) /\ InOrder(u, q, n)

LEMMA ChosenParts ==
  ASSUME NEW S, NEW q \in Seq(S), NEW places
  PROVE  PartUpTo(Chosen(q, places), q, places, Len(q))
<1> DEFINE l == Len(q)
           U == CHOOSE U : Chooses(U, q, places, l)
           Fine(n) == U[n] \in Seq(S) /\ PartUpTo(U[n], q, places, n)
           Bad == {n \in Nat : n <= l /\ ~Fine(n)}
<1>1. l \in Nat  OBVIOUS
<1>2. Chooses(U, q, places, l)  BY <1>1, ChoosesExists
<1> HIDE DEF U
<1>3. Bad = {}
  <2> SUFFICES ASSUME Bad # {}  PROVE FALSE  OBVIOUS
  <2>1. PICK n \in Bad : \A m \in Bad : n <= m
    <3>1. Bad \in SUBSET Nat  OBVIOUS
    <3> HIDE DEF Bad
    <3> QED  BY <3>1, LeastNat
  <2>2. n \in 0 .. l /\ ~Fine(n)  BY <1>1, <2>1
  <2>3. n # 0
    <3>1. 0 \in 0 .. l  BY <1>1
    <3>2. U[0] = <<>>  BY <1>2, <3>1 DEF Chooses
    <3>3. <<>> \in Seq(S)  OBVIOUS
    <3>4. PartUpTo(<<>>, q, places, 0)  BY DEF PartUpTo, EachFrom, InOrder
    <3> HIDE DEF Bad
    <3> QED  BY <2>2, <3>2, <3>3, <3>4
  <2>4. n - 1 \in 0 .. l /\ n - 1 \notin Bad  BY <1>1, <2>1, <2>2, <2>3
  <2>5. Fine(n - 1) /\ q[n] \in S  BY <1>1, <2>2, <2>3, <2>4
  <2>6. U[n] = IF n \in places THEN Append(U[n - 1], q[n]) ELSE U[n - 1]
    BY <1>2, <2>2, <2>3 DEF Chooses
  <2> HIDE DEF Bad, Fine
  <2>7. CASE n \notin places
    <3>1. U[n] = U[n - 1]  BY <2>6, <2>7
    <3>2. \A p \in 1 .. n - 1 : p \in 1 .. n  BY <2>2
    <3>3. Fine(n)
      <4> SUFFICES U[n] \in Seq(S) /\ PartUpTo(U[n], q, places, n)  BY DEF Fine
      <4>1. U[n] \in Seq(S) /\ PartUpTo(U[n], q, places, n - 1)  BY <2>5, <3>1 DEF Fine
      <4> QED  BY <3>2, <4>1 DEF PartUpTo, EachFrom, InOrder
    <3> QED  BY <2>2, <3>3
  <2>8. CASE n \in places
    <3> DEFINE u == U[n - 1]
               v == Append(u, q[n])
               m == Len(u)
    <3>1. U[n] = v /\ u \in Seq(S) /\ PartUpTo(u, q, places, n - 1)
      BY <2>5, <2>6, <2>8 DEF Fine
    <3> HIDE DEF u
    <3>2. /\ v \in Seq(S) /\ DOMAIN v = 1 .. m + 1 /\ m \in Nat /\ DOMAIN u = 1 .. m
          /\ v[m + 1] = q[n] /\ \A i \in 1 .. m : v[i] = u[i]
      BY <2>5, <3>1
    <3> HIDE DEF v, m
    <3>3. n \in Nat /\ n \in 1 .. n /\ \A p \in 1 .. n - 1 : p \in 1 .. n /\ p < n
      BY <2>2, <2>3
    <3>4. ASSUME NEW i \in 1 .. m + 1
          PROVE  \E p \in 1 .. n : p \in places /\ v[i] = q[p]
      <4>1. CASE i = m + 1  BY <2>8, <3>2, <3>3, <4>1
      <4>2. CASE i \in 1 .. m  BY <3>1, <3>2, <3>3, <4>2 DEF PartUpTo, EachFrom
      <4> QED  BY <3>2, <4>1, <4>2
    <3>5. ASSUME NEW i \in 1 .. m + 1, NEW j \in 1 .. m + 1, i < j
          PROVE  \E p \in 1 .. n : \E o \in 1 .. n : p < o /\ v[i] = q[p] /\ v[j] = q[o]
      <4>1. i \in 1 .. m  BY <3>2, <3>5
      <4>2. CASE j = m + 1
        <5>1. PICK p \in 1 .. n - 1 : p \in places /\ u[i] = q[p]
          BY <3>1, <3>2, <4>1 DEF PartUpTo, EachFrom
        <5> QED  BY <2>8, <3>2, <3>3, <4>1, <4>2, <5>1
      <4>3. CASE j \in 1 .. m
        <5>1. PICK p \in 1 .. n - 1 :
                 \E o \in 1 .. n - 1 : p < o /\ u[i] = q[p] /\ u[j] = q[o]
          <6>1. InOrder(u, q, n - 1) /\ i \in DOMAIN u /\ j \in DOMAIN u
            BY <3>1, <3>2, <4>1, <4>3 DEF PartUpTo
          <6> QED  BY <3>5, <6>1, Zenon DEF InOrder
        <5> QED  BY <3>2, <3>3, <4>1, <4>3, <5>1
      <4> QED  BY <3>2, <4>2, <4>3
    <3>6. EachFrom(v, q, places, n)  BY <3>2, <3>4 DEF EachFrom
    <3>7. InOrder(v, q, n)
      <4> SUFFICES ASSUME NEW i \in DOMAIN v, NEW j \in DOMAIN v, i < j
                   PROVE  \E p \in 1 .. n : \E o \in 1 .. n :
                            p < o /\ v[i] = q[p] /\ v[j] = q[o]
        BY DEF InOrder
      <4>1. i \in 1 .. m + 1 /\ j \in 1 .. m + 1  BY <3>2
      <4> QED  BY <3>5, <4>1
    <3> QED  BY <2>2, <3>1, <3>2, <3>6, <3>7 DEF Fine, PartUpTo
  <2> QED  BY <2>7, <2>8
<1>4. Fine(l)  BY <1>1, <1>3
<1> QED  BY <1>4, ChosenIsLast DEF U

\* The context in which nothing is asked of field f.
Excused(c, f) ==
  [c EXCEPT !.late = @ \cup {f}, !.loose = @ \cup {f}, !.stray = @ \cup {f}]

LEMMA ExcusedSound ==
  ASSUME NEW c \in Context, NEW f \in Fields
  PROVE  /\ Excused(c, f) \in Context /\ Sound(c) \subseteq Sound(Excused(c, f))
         /\ \A t \in Sound(Excused(c, f)) :
              /\ t.activeField # f /\ NotStored(t, f) /\ t.fld[f].state = "inactive"
              /\ \A i \in DOMAIN t.tasks : t.tasks[i].f # f
              => t \in Sound(c)
<1> DEFINE d == Excused(c, f)
<1>1. /\ d \in Context /\ d.loose = c.loose \cup {f} /\ d.late = c.late \cup {f}
      /\ d.stray = c.stray \cup {f}
  BY DEF Excused, Context
<1>2. /\ d.kept = c.kept /\ d.edits = c.edits /\ d.racing = c.racing
      /\ d.unsafe = c.unsafe
  BY DEF Excused, Context
<1> HIDE DEF d
<1>3. AsksLess(c, d)
  <2>1. c.edits \in Nat  BY TextsAre DEF Context
  <2> QED  BY <1>1, <1>2, <2>1 DEF AsksLess
<1>4. Sound(c) \subseteq Sound(d)  BY <1>1, <1>3, LessSound
<1>5. ASSUME NEW t \in Sound(d), t.activeField # f, NotStored(t, f),
             t.fld[f].state = "inactive",
             \A i \in DOMAIN t.tasks : t.tasks[i].f # f
      PROVE  t \in Sound(c)
  <2>1. TakenUp(c, t)  BY <1>1, <1>5 DEF Sound, TakenUp
  <2>2. UnsentFits(c, t) /\ SubmitsFit(c, t) /\ Guarded(c, t)
    BY <1>2 DEF Sound, UnsentFits, SubmitsFit, SubmitFits, NotOlder, Guarded, Spoils, Overwrites
  <2>3. OneStore(c, t)
    BY <1>1, <1>5 DEF Sound, OneStore, NotStored
  <2>4. Shut(c, t)
    <3> SUFFICES ASSUME NEW g \in Fields \ c.late  PROVE ShutField(t, g)  BY DEF Shut
    <3>1. CASE g # f  BY <1>1, <3>1 DEF Sound, Shut
    <3>2. CASE g = f
      <4>1. \A i \in DOMAIN t.tasks : ~Risky(t.tasks[i], f) /\ ~Renders(t.tasks[i], f)
        BY <1>5 DEF Risky, Renders
      <4> QED  BY <1>5, <3>2, <4>1 DEF ShutField
    <3> QED  BY <3>1, <3>2
  <2> QED  BY <2>1, <2>2, <2>3, <2>4 DEF Sound
<1> QED  BY <1>1, <1>4, <1>5 DEF d

\* The old model of f is gone, whatever it was about to do.
LEMMA GoneSound ==
  ASSUME NEW c \in Context, NEW f \in Fields, NEW s \in Sound(Excused(c, f)),
         NEW x \in Field, x.state = "inactive", ~x.views
  PROVE  [s EXCEPT !.fld[f] = x,
                   !.activeField = IF @ = f THEN None ELSE @,
                   !.tasks = Chosen(@, {i \in DOMAIN s.tasks : s.tasks[i].f # f}),
                   !.out = [i \in DOMAIN @ |->
                              IF @[i].f = f THEN [@[i] EXCEPT !.stale = TRUE] ELSE @[i]]]
         \in Sound(c)
<1> DEFINE d == Excused(c, f)
           places == {i \in DOMAIN s.tasks : s.tasks[i].f # f}
           q == Chosen(s.tasks, places)
           o == [i \in DOMAIN s.out |-> IF s.out[i].f = f
                                        THEN [s.out[i] EXCEPT !.stale = TRUE]
                                        ELSE s.out[i]]
           a == IF s.activeField = f THEN None ELSE s.activeField
           u == [s EXCEPT !.tasks = q]
           v == [u EXCEPT !.out = o]
           w == [v EXCEPT !.activeField = a]
           t == [w EXCEPT !.fld[f] = x]
<1>1. /\ d \in Context /\ s \in Page /\ s.tasks \in Seq(Task) /\ s.out \in Seq(Request)
      /\ f \in d.stray /\ f \in d.late /\ f \in d.loose
  <2>1. d \in Context  BY ExcusedSound
  <2>2. f \in d.stray /\ f \in d.late /\ f \in d.loose  BY DEF Excused, Context
  <2> HIDE DEF d
  <2> QED  BY <2>1, <2>2, SoundPage DEF d
<1> HIDE DEF d
<1>2. q \in Seq(Task) /\ PartUpTo(q, s.tasks, places, Len(s.tasks))
  BY <1>1, ChosenType, ChosenParts
<1>3. DOMAIN s.tasks = 1 .. Len(s.tasks)  BY <1>1
<1>4. \A i \in DOMAIN q : q[i].f # f  BY <1>2 DEF PartUpTo, EachFrom
<1> HIDE DEF q, places
<1>5. u \in Sound(d)
  <2>1. \A i \in DOMAIN q : \E p \in DOMAIN s.tasks : q[i] = s.tasks[p]
    BY <1>2, <1>3 DEF PartUpTo, EachFrom
  <2>2. \A i, j \in DOMAIN q : i < j =>
          \E p, n \in DOMAIN s.tasks : p < n /\ q[i] = s.tasks[p] /\ q[j] = s.tasks[n]
    BY <1>2, <1>3 DEF PartUpTo, InOrder
  <2> QED  BY <1>2, <2>1, <2>2, FewerTasksSound DEF d
<1>6. o \in Seq(Request) /\ DOMAIN o = DOMAIN s.out  BY <1>1, StaleRequests
<1>7. \A i \in DOMAIN s.out : SameOrStale(o[i], s.out[i]) /\ (o[i].f = f => o[i].stale)
  <2> SUFFICES ASSUME NEW i \in DOMAIN s.out
               PROVE  SameOrStale(o[i], s.out[i]) /\ (o[i].f = f => o[i].stale)
    OBVIOUS
  <2>1. s.out[i] \in Request /\ f # None  BY <1>1, NoneIsNothing
  <2> QED  BY <2>1 DEF SameOrStale, Request
<1> HIDE DEF o
<1>8. u.out = s.out /\ u.fld = s.fld /\ u.tasks = q /\ u.activeField = s.activeField /\ u \in Page
  BY <1>1, <1>2 DEF Page
<1> HIDE DEF u
<1>9. v \in Sound(d)  BY <1>5, <1>6, <1>7, <1>8, FewerRequestsSound
<1>10. /\ v.out = o /\ v.fld = s.fld /\ v.tasks = q /\ v.activeField = s.activeField
       /\ v \in Page
  BY <1>6, <1>8 DEF Page
<1> HIDE DEF v
<1>11. a \in Fields \cup {None} /\ a # f /\ (a = s.activeField \/ a = None)
  BY <1>1, NoneIsNothing DEF Page
<1>12. w \in Sound(d)
  <2>1. a \in Fields \ d.loose => v.fld[a].state \notin Resting
    BY <1>9, <1>10, <1>11, NoneIsNothing DEF Sound, TakenUp
  <2> HIDE DEF a
  <2> QED  BY <1>9, <1>11, <2>1, ActiveFieldSound
<1>13. w.out = o /\ w.fld = s.fld /\ w.tasks = q /\ w.activeField = a /\ w \in Page
  BY <1>10, <1>11 DEF Page
<1> HIDE DEF w, a
<1>14. FieldFits(d, w, f, x)
  BY <1>1 DEF FieldFits, Unsent
<1>15. t \in Sound(d)  BY <1>12, <1>14, FieldSound
<1>16. /\ t.activeField = a /\ t.out = o /\ t.tasks = q /\ t.fld[f] = x
  BY <1>13 DEF Page
<1>17. t = [s EXCEPT !.fld[f] = x, !.activeField = a, !.tasks = q, !.out = o]
  BY <1>1 DEF t, w, v, u, Page
<1> HIDE DEF t
<1>18. NotStored(t, f)  BY <1>6, <1>7, <1>16 DEF NotStored, Storing
<1>19. t \in Sound(c)
  BY <1>4, <1>11, <1>15, <1>16, <1>18, ExcusedSound DEF d
<1> QED  BY <1>17, <1>19 DEF a, q, o, places

LEMMA RerenderedSound ==
  ASSUME NEW c \in Context, NEW f \in Fields, NEW s \in Sound(Excused(c, f)),
         NEW text \in Texts
  PROVE  Rerendered(s, f, text) \in Sound(c)
<1> DEFINE e == EntityOf[f]
           mine == {o \in Entities : s.ent[o].isActive}
           x == [state |-> "inactive", views |-> FALSE, form |-> FALSE,
                 text |-> text, orig |-> text]
           t == [s EXCEPT !.fld[f] = x,
                   !.activeField = IF @ = f THEN None ELSE @,
                   !.tasks = Chosen(@, {i \in DOMAIN s.tasks : s.tasks[i].f # f}),
                   !.out = [i \in DOMAIN @ |->
                              IF @[i].f = f THEN [@[i] EXCEPT !.stale = TRUE] ELSE @[i]]]
           v == SetViews(t, {f}, TRUE)
<1>1. s \in Page  BY SoundPage
<1>2. x \in Field /\ x.state = "inactive" /\ ~x.views  BY StatesAre DEF Field
<1>3. t.ent = s.ent /\ t.fld[f] = x  BY <1>1 DEF Page
<1>4. t \in Sound(c)
  <2> HIDE DEF x
  <2> QED  BY <1>2, GoneSound
<1> HIDE DEF t, x
<1>5. ASSUME mine # {}, e = Min(mine)
      PROVE  SetField(v, f, "candidate", "") \in Sound(c)
  <2>1. mine \subseteq Nat  BY EntitiesNumbered
  <2>2. \E n \in mine : \A m \in mine : n <= m
    <3> HIDE DEF mine
    <3> QED  BY <1>5, <2>1, LeastNat
  <2>3. e \in mine
    <3> HIDE DEF mine
    <3> QED  BY <1>5, <2>2 DEF Min
  <2>4. t.ent[e].state # "closed"  BY <1>3, <1>4, <2>3 DEF Sound, Viewless
  <2>5. /\ v \in Sound(c) /\ v.ent[e].state # "closed" /\ v.fld[f].state = "inactive"
    <3>1. \A g \in Fields : g \in {f} => t.ent[EntityOf[g]].state # "closed"
      BY <2>4
    <3>2. v \in Sound(c)  BY <1>4, <3>1, SetViewsSound
    <3>3. v.ent = t.ent  BY <1>4, <3>1, SetViewsSound
    <3>4. v.fld[f].state = t.fld[f].state  BY <1>4, <3>1, SetViewsSound
    <3> QED  BY <1>2, <1>3, <2>4, <3>2, <3>3, <3>4
  <2>6. "candidate" \in Elements(FieldStates)  BY StatesAre
  <2> HIDE DEF v
  <2> QED  BY <2>5, <2>6, SetFieldSound DEF Unsent
<1>6. Rerendered(s, f, text) = IF mine # {} /\ e = Min(mine)
                               THEN SetField(v, f, "candidate", "") ELSE t
  BY DEF Rerendered, v, t, x
<1> QED  BY <1>4, <1>5, <1>6

\* The task that renders field f again.
LEMMA RenderingSound ==
  ASSUME NEW c \in Context, NEW s \in Sound(c), NEW f \in Fields, NEW text \in Texts
  PROVE  Rerendered(SetField(s, f, "inactive", "rerender"), f, text) \in Sound(c)
<1> DEFINE d == Excused(c, f)
<1>1. d \in Context /\ s \in Sound(d) /\ f \in d.stray /\ f \in d.late /\ f \in d.loose
  BY ExcusedSound DEF Excused, Context
<1> HIDE DEF d
<1>2. Movable(d, s, f, "inactive")  BY <1>1 DEF Movable, Unsent
<1>3. Changed(s, f, "inactive") \in Sound(d)  BY <1>1, <1>2, ChangedSound, StatesAre
<1>4. SetField(s, f, "inactive", "rerender") \in Sound(d)  BY <1>1, <1>3 DEF SetField
<1> QED  BY <1>4, RerenderedSound DEF d

-----------------------------------------------------------------------------
(* The browser runs a task.                                                  *)

LEMMA RunSound ==
  ASSUME NEW c \in Context, NEW p \in Sound(c), p.tasks # <<>>
  PROVE  Run([p EXCEPT !.tasks = Tail(@)], Head(p.tasks)) \in Sound(c)
<1> DEFINE q == Tail(p.tasks)
           k == Head(p.tasks)
           s == [p EXCEPT !.tasks = q]
           t == Run(s, k)
           later == [k EXCEPT !.do = "candidate"]
           last == [k EXCEPT !.do = "inactive"]
<1>1. p \in Page /\ p.tasks \in Seq(Task)  BY SoundPage
<1>2. /\ q \in Seq(Task) /\ k \in Task /\ 1 \in DOMAIN p.tasks /\ k = p.tasks[1]
      /\ \A i \in DOMAIN q : /\ i + 1 \in DOMAIN p.tasks /\ q[i] = p.tasks[i + 1]
                             /\ i \in Nat /\ 1 < i + 1
  BY <1>1
<1>3. /\ k.do \in OnFields \cup OnEntities /\ k.e \in Entities /\ k.text \in Texts
      /\ k.do \in OnFields => k.f \in Fields
      /\ k.do \in OnFields => later \in Task /\ last \in Task
  BY <1>2 DEF Task, OnFields
<1>4. later.do = "candidate" /\ later.f = k.f /\ last.do = "inactive"
  BY <1>2 DEF Task
<1> SUFFICES t \in Sound(c)
  OBVIOUS
<1> HIDE DEF q, k, later, last
<1>5. s \in Sound(c)
  <2>1. \A i \in DOMAIN q : \E m \in DOMAIN p.tasks : q[i] = p.tasks[m]  BY <1>2
  <2>2. \A i, j \in DOMAIN q : i < j =>
          \E m, n \in DOMAIN p.tasks : m < n /\ q[i] = p.tasks[m] /\ q[j] = p.tasks[n]
    <3> SUFFICES ASSUME NEW i \in DOMAIN q, NEW j \in DOMAIN q, i < j
                 PROVE  \E m, n \in DOMAIN p.tasks :
                          m < n /\ q[i] = p.tasks[m] /\ q[j] = p.tasks[n]
      OBVIOUS
    <3>1. i + 1 < j + 1  BY <1>2
    <3> QED  BY <1>2, <3>1
  <2> QED  BY <1>2, <2>1, <2>2, FewerTasksSound
<1>6. s.ent = p.ent /\ s.fld = p.fld /\ s.tasks = q  BY <1>1 DEF Page
<1> HIDE DEF s
<1>7. /\ k.do = "opening" => t = Opening(s, k.e)
      /\ k.do = "opened" => t = Open(s, k.e, "", Ready)
      /\ k.do = "invalid" => t = Open(s, k.e, "invalid", {})
      /\ k.do = "closing" => t = Closing(s, k.e)
      /\ k.do = "closed" => t = Closed(s, k.e)
      /\ k.do = "confirm" => t = IF s.activeModal = None
                                 THEN [s EXCEPT !.activeModal = k.e] ELSE s
      /\ k.do = "activate" => t = Activate(s, k.f, "active")
      /\ k.do = "render" => t = Defer(s, later)
      /\ k.do = "candidate" => t = Defer(SetField(s, k.f, "candidate", ""), last)
      /\ k.do = "inactive" => t = Rerendered(SetField(s, k.f, "inactive", "rerender"),
                                             k.f, k.text)
  BY DEF Run, later, last
<1> HIDE DEF t
<1>8. CASE k.do \in {"opening", "opened", "invalid", "confirm"}
  <2>1. Opening(s, k.e) \in Sound(c) /\ Open(s, k.e, "", Ready) \in Sound(c)
        /\ Open(s, k.e, "invalid", {}) \in Sound(c)
    BY <1>3, <1>5, OpeningSound, OpenSound
  <2>2. [s EXCEPT !.activeModal = k.e] \in Sound(c)
    BY <1>3, <1>5, FlagsSound
  <2> QED  BY <1>5, <1>7, <1>8, <2>1, <2>2
<1>9. CASE k.do = "closing"
  <2>1. Is(p.tasks[1], "closing", k.e)  BY <1>2, <1>9 DEF Is
  <2>2. s.ent[k.e].state \in {"deactivating", "closing"}
    BY <1>2, <1>3, <1>6, <2>1 DEF Sound, Ordered
  <2>3. ASSUME s.ent[k.e].state = "deactivating", NEW i \in DOMAIN q
        PROVE  /\ ~Is(q[i], "closed", k.e)
               /\ \A f \in FieldsOf(k.e) \ c.late : ~Renders(q[i], f)
    <3>1. i + 1 \in DOMAIN p.tasks /\ q[i] = p.tasks[i + 1] /\ 1 < i + 1  BY <1>2
    <3>2. ~Is(q[i], "closed", k.e)
      BY <1>2, <1>3, <1>6, <2>1, <2>3, <3>1 DEF Sound, Ordered
    <3>3. ASSUME NEW f \in FieldsOf(k.e) \ c.late  PROVE ~Renders(q[i], f)
      <4>1. ShutField(p, f) /\ EntityOf[f] = k.e  BY DEF Sound, Shut, FieldsOf
      <4> QED  BY <1>2, <1>6, <2>1, <2>3, <3>1, <4>1 DEF ShutField
    <3> QED  BY <3>2, <3>3
  <2>4. Closing(s, k.e) \in Sound(c)
    BY <1>3, <1>5, <1>6, <2>2, <2>3, ClosingSound
  <2> QED  BY <1>7, <1>9, <2>4
<1>10. CASE k.do = "closed"
  <2>1. Is(p.tasks[1], "closed", k.e)  BY <1>2, <1>10 DEF Is
  <2>2. ASSUME s.ent[k.e].state = "closing", NEW i \in DOMAIN q
        PROVE  /\ ~Is(q[i], "closing", k.e)
               /\ \A f \in FieldsOf(k.e) \ c.late :
                    s.fld[f].state = "inactive" => ~Risky(q[i], f)
    <3>1. i + 1 \in DOMAIN p.tasks /\ q[i] = p.tasks[i + 1] /\ 1 < i + 1  BY <1>2
    <3>2. ~Is(q[i], "closing", k.e)
      BY <1>2, <1>3, <1>6, <2>1, <2>2, <3>1 DEF Sound, Ordered
    <3>3. ASSUME NEW f \in FieldsOf(k.e) \ c.late, s.fld[f].state = "inactive"
          PROVE  ~Risky(q[i], f)
      <4>1. ShutField(p, f) /\ EntityOf[f] = k.e  BY DEF Sound, Shut, FieldsOf
      <4> QED  BY <1>2, <1>6, <2>1, <2>2, <3>1, <3>3, <4>1 DEF ShutField
    <3> QED  BY <3>2, <3>3
  <2>3. Closed(s, k.e) \in Sound(c)
    BY <1>3, <1>5, <1>6, <2>2, ClosedSound
  <2> QED  BY <1>7, <1>10, <2>3
<1>11. CASE k.do \in {"activate", "render", "candidate"}
  <2>1. k.do \in OnFields /\ k.f \in Fields /\ later \in Task /\ last \in Task
    BY <1>3, <1>11 DEF OnFields
  <2>2. Risky(p.tasks[1], k.f)  BY <1>2, <1>11 DEF Risky
  <2>3. k.f \notin c.late =>
          /\ s.ent[EntityOf[k.f]].state # "closed"
          /\ k.do = "render" => s.ent[EntityOf[k.f]].state # "closing"
    <3> SUFFICES ASSUME k.f \notin c.late
                 PROVE  /\ s.ent[EntityOf[k.f]].state # "closed"
                        /\ k.do = "render" => s.ent[EntityOf[k.f]].state # "closing"
      OBVIOUS
    <3>1. ShutField(p, k.f)  BY <2>1 DEF Sound, Shut
    <3>2. k.do = "render" => Renders(p.tasks[1], k.f)  BY <1>2 DEF Renders
    <3> QED  BY <1>2, <1>6, <2>2, <3>1, <3>2 DEF ShutField
  <2>4. CASE k.do = "activate"
    <3>1. "active" \in Active  BY DEF Active
    <3>2. Activate(s, k.f, "active") \in Sound(c)
      BY <1>5, <2>1, <2>3, <3>1, ActivateSound
    <3> QED  BY <1>7, <2>4, <3>2
  <2>5. CASE k.do = "render"
    <3>1. Fitting(c, s, later)
      <4> SUFFICES ASSUME NEW f \in Fields \ c.late, Risky(later, f)
                   PROVE  s.ent[EntityOf[f]].state \notin {"closed", "closing"}
        BY <1>4 DEF Fitting
      <4>1. f = k.f  BY <1>4 DEF Risky
      <4> QED  BY <2>3, <2>5, <4>1
    <3>2. Defer(s, later) \in Sound(c)  BY <1>5, <2>1, <3>1, DeferSound
    <3> QED  BY <1>7, <2>5, <3>2
  <2>6. CASE k.do = "candidate"
    <3> DEFINE u == SetField(s, k.f, "candidate", "")
    <3>1. u \in Sound(c)
      <4>1. "candidate" \in Elements(FieldStates)  BY StatesAre
      <4> QED  BY <1>5, <2>1, <2>3, <4>1, SetFieldSound DEF Unsent
    <3> HIDE DEF u
    <3>2. Fitting(c, u, last)  BY <1>4, NoRiskFits
    <3>3. Defer(u, last) \in Sound(c)  BY <2>1, <3>1, <3>2, DeferSound
    <3> QED  BY <1>7, <2>6, <3>3 DEF u
  <2> QED  BY <1>11, <2>4, <2>5, <2>6
<1>12. CASE k.do = "inactive"
  <2>1. k.f \in Fields  BY <1>3, <1>12 DEF OnFields
  <2> QED  BY <1>3, <1>5, <1>7, <1>12, <2>1, RenderingSound
<1> QED
  BY <1>3, <1>8, <1>9, <1>10, <1>11, <1>12 DEF OnFields, OnEntities

-----------------------------------------------------------------------------
(* The page receives the answer to a request.                                *)

\* The page without the request that was answered.
LEMMA Joined ==
  ASSUME NEW S, NEW a \in Seq(S), NEW b \in Seq(S), NEW j \in 1 .. Len(a) + Len(b),
         ~(j <= Len(a))
  PROVE  (a \o b)[j] = b[j - Len(a)]
  OBVIOUS

LEMMA RemovedRequests ==
  ASSUME NEW S, NEW q \in Seq(S), NEW i \in DOMAIN q
  PROVE  LET u == RemoveAt(q, i) IN
         /\ u \in Seq(S)
         /\ \A j \in DOMAIN u : /\ j < i => j \in DOMAIN q /\ u[j] = q[j]
                                /\ ~(j < i) => j + 1 \in DOMAIN q /\ u[j] = q[j + 1]
<1> DEFINE a == SubSeq(q, 1, i - 1)  b == SubSeq(q, i + 1, Len(q))  u == a \o b
<1>1. i \in 1 .. Len(q) /\ Len(q) \in Nat  OBVIOUS
<1>2. /\ a \in Seq(S) /\ Len(a) = i - 1 /\ \A j \in 1 .. i - 1 : a[j] = q[j]
      /\ b \in Seq(S) /\ Len(b) = Len(q) - i
      /\ \A j \in 1 .. Len(q) - i : b[j] = q[i + j]
  BY <1>1
<1> HIDE DEF a, b
<1>3. u \in Seq(S) /\ DOMAIN u = 1 .. Len(q) - 1  BY <1>1, <1>2
<1>4. ASSUME NEW j \in DOMAIN u
      PROVE  /\ j < i => u[j] = a[j]
             /\ ~(j < i) => u[j] = b[j - i + 1] /\ j - i + 1 \in 1 .. Len(q) - i
  <2>1. j \in 1 .. Len(q) - 1 /\ i \in Nat /\ j \in Nat  BY <1>1, <1>3
  <2>2. j < i => u[j] = a[j]  BY <1>1, <1>2, <2>1
  <2>3. ASSUME ~(j < i)
        PROVE  u[j] = b[j - i + 1] /\ j - i + 1 \in 1 .. Len(q) - i
    <3>0. Len(a) = i - 1 /\ Len(b) = Len(q) - i  BY <1>2
    <3>1. /\ j - (i - 1) = j - i + 1 /\ ~(j <= i - 1)
          /\ j \in 1 .. (i - 1) + (Len(q) - i)
          /\ j - i + 1 \in 1 .. Len(q) - i
      BY <1>1, <2>1, <2>3
    <3>2. u[j] = b[j - Len(a)]
      <4>1. a \in Seq(S) /\ b \in Seq(S)  BY <1>2
      <4>2. j \in 1 .. Len(a) + Len(b) /\ ~(j <= Len(a))  BY <3>0, <3>1
      <4> QED  BY <4>1, <4>2, Joined
    <3> QED  BY <3>0, <3>1, <3>2
  <2> QED  BY <2>2, <2>3
<1>5. ASSUME NEW j \in DOMAIN u
      PROVE  /\ j < i => j \in DOMAIN q /\ u[j] = q[j]
             /\ ~(j < i) => j + 1 \in DOMAIN q /\ u[j] = q[j + 1]
  <2>1. j \in 1 .. Len(q) - 1 /\ i \in Nat /\ j \in Nat  BY <1>1, <1>3
  <2>2. j < i => j \in 1 .. i - 1 /\ j \in DOMAIN q  BY <1>1, <2>1
  <2>3. ASSUME ~(j < i)  PROVE j + 1 \in DOMAIN q /\ u[j] = q[j + 1]
    <3>1. u[j] = b[j - i + 1] /\ j - i + 1 \in 1 .. Len(q) - i  BY <1>4, <2>3
    <3>2. b[j - i + 1] = q[i + (j - i + 1)]  BY <1>2, <3>1
    <3>3. i + (j - i + 1) = j + 1 /\ j + 1 \in 1 .. Len(q)  BY <1>1, <2>1
    <3> QED  BY <3>1, <3>2, <3>3
  <2> QED  BY <1>2, <1>4, <2>2, <2>3
<1> QED  BY <1>3, <1>5 DEF RemoveAt, a, b

LEMMA RemovedSound ==
  ASSUME NEW c, NEW p \in Sound(c), NEW i \in DOMAIN p.out
  PROVE  LET s == [p EXCEPT !.out = RemoveAt(@, i)] IN
         /\ s \in Sound(c) /\ s.ent = p.ent /\ s.fld = p.fld
         /\ s.activeField = p.activeField
         /\ \A j \in DOMAIN s.out : \E m \in DOMAIN p.out : m # i /\ s.out[j] = p.out[m]
<1> DEFINE q == RemoveAt(p.out, i)
           s == [p EXCEPT !.out = q]
           Place(j) == IF j < i THEN j ELSE j + 1
<1>1. p \in Page /\ p.out \in Seq(Request)  BY SoundPage
<1>2. q \in Seq(Request)  BY <1>1, RemovedRequests
<1>3. ASSUME NEW j \in DOMAIN q
      PROVE  Place(j) \in DOMAIN p.out /\ Place(j) # i /\ q[j] = p.out[Place(j)] /\ j \in Nat
  <2>1. i \in Nat /\ j \in Nat  BY <1>1, <1>2
  <2>2. /\ j < i => j \in DOMAIN p.out /\ q[j] = p.out[j]
        /\ ~(j < i) => j + 1 \in DOMAIN p.out /\ q[j] = p.out[j + 1]
    BY <1>1, RemovedRequests
  <2> QED  BY <2>1, <2>2
<1>4. ASSUME NEW j \in DOMAIN q, NEW k \in DOMAIN q, j # k  PROVE Place(j) # Place(k)
  <2>1. i \in Nat /\ j \in Nat /\ k \in Nat  BY <1>1, <1>2
  <2> QED  BY <1>4, <2>1
<1> HIDE DEF q, Place
<1>5. ASSUME NEW j \in DOMAIN q
      PROVE  \E m \in DOMAIN p.out : SameOrStale(q[j], p.out[m])
  BY <1>3 DEF SameOrStale
<1>6. ASSUME NEW j \in DOMAIN q, NEW k \in DOMAIN q, j # k
      PROVE  \E m, o \in DOMAIN p.out : /\ m # o /\ SameOrStale(q[j], p.out[m])
                                        /\ SameOrStale(q[k], p.out[o])
  <2>1. SameOrStale(q[j], p.out[Place(j)]) /\ SameOrStale(q[k], p.out[Place(k)])
    BY <1>3 DEF SameOrStale
  <2> QED  BY <1>3, <1>4, <1>6, <2>1
<1>7. s \in Sound(c)  BY <1>2, <1>5, <1>6, FewerRequestsSound
<1>8. s.ent = p.ent /\ s.fld = p.fld /\ s.activeField = p.activeField /\ s.out = q
  BY <1>1 DEF Page
<1>9. \A j \in DOMAIN q : \E m \in DOMAIN p.out : m # i /\ q[j] = p.out[m]
  BY <1>3
<1> HIDE DEF s
<1> QED  BY <1>7, <1>8, <1>9 DEF s, q

\* The form of a field came: its field is active then.
LEMMA FormSound ==
  ASSUME NEW c \in Context, NEW s \in Sound(c), NEW f \in Fields, NEW b \in BOOLEAN
  PROVE  LET t == [s EXCEPT !.fld[f].form = b] IN t \in Sound(c) /\ t.ent = s.ent
<1> DEFINE x == [s.fld[f] EXCEPT !.form = b]
<1>1. s \in Page /\ s.fld[f] \in Field  BY SoundPage
<1>2. x \in Field /\ x.state = s.fld[f].state /\ x.views = s.fld[f].views
      /\ x.text = s.fld[f].text
  BY <1>1 DEF Field
<1>3. s.fld[f].state \in Unsent => NotOlder(c, f, s.fld[f].text)
  BY DEF Sound, UnsentFits
<1> HIDE DEF x
<1>4. FieldFits(c, s, f, x)  BY <1>2, <1>3, SameStateFits
<1>5. [s EXCEPT !.fld[f] = x] \in Sound(c)  BY <1>2, <1>4, FieldSound
<1>6. [s EXCEPT !.fld[f].form = b] = [s EXCEPT !.fld[f] = x]  BY <1>1 DEF x, Page
<1>7. [s EXCEPT !.fld[f].form = b].ent = s.ent  BY <1>1 DEF Page
<1> QED  BY <1>5, <1>6, <1>7

\* The hidden form came: the text of the field is submitted.
LEMMA SubmitSound ==
  ASSUME NEW c \in Context, NEW s \in Sound(c), NEW f \in Fields, NEW e \in Entities,
         e = EntityOf[f], s.fld[f].state = "saving", NotStored(s, f)
  PROVE  Send(s, "submit", e, f, FALSE, s.fld[f].text) \in Sound(c)
<1> DEFINE x == s.fld[f].text
           r == [kind |-> "submit", e |-> e, f |-> f, reset |-> FALSE, text |-> x,
                 at |-> "sent", copy |-> None, answer |-> "none", stale |-> FALSE]
<1>1. x \in Texts  BY SoundPage DEF Field
<1>2. NotOlder(c, f, x)  BY DEF Sound, UnsentFits, Unsent
<1> HIDE DEF x
<1>3. r \in Request  BY <1>1 DEF Request, CopyFits, Stages, Copies
<1>4. ~Committing(r) /\ \A g : ~Spoils(c, r, g)
  BY DEF Committing, Spoils, Resets, Committed, Overwrites, ToWrite
<1>5. SubmitFits(c, r)  BY <1>2 DEF SubmitFits, NotOlder
<1>6. /\ s.fld[r.f].state = "saving"
      /\ \A i \in DOMAIN s.out : ~(Storing(s.out[i]) /\ s.out[i].f = r.f)
  BY DEF NotStored
<1>7. Send(s, "submit", e, f, FALSE, x) = [s EXCEPT !.out = Append(@, r)]
  BY DEF Send
<1> HIDE DEF r
<1>8. Sendable(c, s, r)  BY <1>4, <1>5, <1>6 DEF Sendable
<1>9. [s EXCEPT !.out = Append(@, r)] \in Sound(c)  BY <1>3, <1>8, RequestSound
<1> QED  BY <1>7, <1>9 DEF x

\* A commit was answered: the mutex is free.
LEMMA AnsweredSound ==
  ASSUME NEW c \in Context, NEW s \in Sound(c), NEW e \in Entities,
         s.ent[e].isCommitting,
         \A i \in DOMAIN s.out : ~(Committing(s.out[i]) /\ s.out[i].e = e)
  PROVE  LET t == [s EXCEPT !.ent[e].isCommitting = FALSE] IN
         t \in Sound(c) /\ ~t.ent[e].isCommitting /\ t.ent[e].state = "committing"
<1> DEFINE x == [s.ent[e] EXCEPT !.isCommitting = FALSE]
<1>1. s \in Page /\ s.ent[e] \in Entity /\ s.ent[e].state = "committing"
  BY SoundPage DEF Held
<1>2. /\ x \in Entity /\ x.state = s.ent[e].state /\ ~x.isCommitting
      /\ x.inTempStore = s.ent[e].inTempStore
  BY <1>1 DEF Entity
<1>3. \A f \in c.unsafe : EntityOf[f] = e => s.ent[e].inTempStore
  BY DEF Sound, Guarded
<1>4. [s EXCEPT !.ent[e].isCommitting = FALSE] = [s EXCEPT !.ent[e] = x]
  BY <1>1 DEF Page
<1> HIDE DEF x
<1>5. EntityFits(c, s, e, x)  BY <1>1, <1>2, <1>3 DEF EntityFits
<1>6. [s EXCEPT !.ent[e] = x] \in Sound(c)  BY <1>2, <1>5, EntitySound
<1>7. [s EXCEPT !.ent[e] = x].ent[e] = x  BY <1>1 DEF Page
<1> QED  BY <1>1, <1>2, <1>4, <1>6, <1>7

\* An answer is in time, or one of a field that nothing is asked of.
InTime(c, s, r) ==
  r.answer = "ok" /\ ~r.stale /\ r.kind \in {"edit", "submit"} /\ r.f \notin c.late =>
    s.ent[r.e].state \in {"opened", "committing"}

\* What the page does with an answer, case by case.
Failed(r) == r.kind \in {"edit", "load"} /\ r.answer = "error"

LEMMA ReceiveCases ==
  ASSUME NEW s, NEW r \in Request, r.answer # "none"
  PROVE  /\ Failed(r) => Receive(s, r) = IF s.activeField = None THEN s
                          ELSE SetField(s, s.activeField, "candidate", "")
         /\ ~Failed(r) /\ r.stale => Receive(s, r) = s
         /\ ~Failed(r) /\ ~r.stale /\ r.kind = "edit" =>
              Receive(s, r) = Activate([s EXCEPT !.fld[r.f].form = s.fld[r.f].state \in Active],
                           r.f, "active")
         /\ ~Failed(r) /\ ~r.stale /\ r.kind = "load" =>
              Receive(s, r) = Send(s, "submit", r.e, r.f, FALSE, s.fld[r.f].text)
         /\ ~Failed(r) /\ ~r.stale /\ r.kind = "submit" =>
              Receive(s, r) = IF r.answer = "ok"
                  THEN Defer(SetField(s, r.f, "saved", ""),
                             [do |-> IF r.f \in FormFields THEN "render" ELSE "candidate",
                              e |-> r.e, f |-> r.f, text |-> r.copy[r.f]])
                  ELSE IF r.answer = "invalid" THEN SetField(s, r.f, "invalid", "") ELSE s
         /\ ~Failed(r) /\ ~r.stale /\ r.kind = "commit" =>
              Receive(s, r) = IF r.answer = "ok"
                  THEN Deactivated([s EXCEPT !.ent[r.e].isCommitting = FALSE], r.e, "saved")
                  ELSE Open([s EXCEPT !.ent[r.e].isCommitting = FALSE], r.e,
                            "networkerror", {})
<1>1. /\ r.kind \in {"edit", "load", "submit", "commit"}
      /\ r.answer \in {"ok", "invalid", "error"}
      /\ r.answer = "invalid" => r.kind = "submit"
  BY DEF Request
<1>2. CASE Failed(r)  BY <1>2 DEF Receive, Failed
<1>3. CASE ~Failed(r) /\ r.stale  BY <1>3 DEF Receive, Failed
<1>4. CASE ~Failed(r) /\ ~r.stale /\ r.kind = "edit"
  <2>1. r.answer = "ok"  BY <1>1, <1>4 DEF Failed
  <2> QED  BY <1>4, <2>1 DEF Receive, Failed
<1>5. CASE ~Failed(r) /\ ~r.stale /\ r.kind = "load"
  <2>1. r.answer = "ok"  BY <1>1, <1>5 DEF Failed
  <2> QED  BY <1>5, <2>1 DEF Receive, Failed
<1>6. CASE ~Failed(r) /\ ~r.stale /\ r.kind = "submit"
  BY <1>1, <1>6 DEF Receive, Failed
<1>7. CASE ~Failed(r) /\ ~r.stale /\ r.kind = "commit"
  BY <1>1, <1>7 DEF Receive, Failed
<1> QED  BY <1>1, <1>2, <1>3, <1>4, <1>5, <1>6, <1>7

LEMMA ReceiveSound ==
  ASSUME NEW c \in Context, c.loose = {}, c.stray = {}, NEW p \in Sound(c),
         NEW i \in DOMAIN p.out, p.out[i].answer # "none", InTime(c, p, p.out[i])
  PROVE  Receive([p EXCEPT !.out = RemoveAt(@, i)], p.out[i]) \in Sound(c)
<1> DEFINE r == p.out[i]
           s == [p EXCEPT !.out = RemoveAt(@, i)]
           t == Receive(s, r)
           failed == Failed(r)
<1>1. r \in Request /\ p \in Page  BY SoundPage
<1>2. /\ r.kind \in {"edit", "load", "submit", "commit"} /\ r.e \in Entities
      /\ r.answer \in {"ok", "invalid", "error"} /\ r.text \in Texts
      /\ r.kind # "commit" => r.f \in Fields /\ r.e = EntityOf[r.f]
      /\ r.answer = "invalid" => r.kind = "submit"
  BY <1>1 DEF Request
<1>3. /\ s \in Sound(c) /\ s.ent = p.ent /\ s.fld = p.fld /\ s.activeField = p.activeField
      /\ \A j \in DOMAIN s.out : \E m \in DOMAIN p.out : m # i /\ s.out[j] = p.out[m]
  BY RemovedSound
<1>4. /\ Storing(r) => p.fld[r.f].state = "saving" /\ NotStored(s, r.f)
      /\ Committing(r) =>
           /\ p.ent[r.e].isCommitting
           /\ \A j \in DOMAIN s.out : ~(Committing(s.out[j]) /\ s.out[j].e = r.e)
  <2>1. ASSUME Storing(r)  PROVE p.fld[r.f].state = "saving" /\ NotStored(s, r.f)
    <3>1. /\ p.fld[r.f].state = "saving"
          /\ \A j \in DOMAIN p.out : Storing(p.out[j]) /\ p.out[j].f = r.f => j = i
      BY <2>1 DEF Sound, OneStore
    <3> QED  BY <1>3, <3>1 DEF NotStored
  <2>2. ASSUME Committing(r)
        PROVE  /\ p.ent[r.e].isCommitting
               /\ \A j \in DOMAIN s.out : ~(Committing(s.out[j]) /\ s.out[j].e = r.e)
    <3>1. /\ p.ent[r.e].isCommitting
          /\ \A j \in DOMAIN p.out : Committing(p.out[j]) /\ p.out[j].e = r.e => j = i
      BY <2>2 DEF Sound, OneCommit
    <3> QED  BY <1>3, <3>1
  <2> QED  BY <2>1, <2>2
<1>5. /\ Committing(r) /\ r.answer = "ok" => Safe(c, r.e)
      /\ r.kind = "submit" /\ r.answer = "ok" => r.copy[r.f] \in Texts
  <2>1. Committed(r, r.e) => Safe(c, r.e)  BY DEF Sound, Guarded, Spoils, Safe
  <2>2. r.kind = "submit" /\ r.answer = "ok" => r.copy[r.f] \in Texts
    BY <1>1, CopiedText
  <2> QED  BY <2>1, <2>2 DEF Committing, Committed
<1>6. /\ failed => t = IF s.activeField = None THEN s
                       ELSE SetField(s, s.activeField, "candidate", "")
      /\ ~failed /\ r.stale => t = s
      /\ ~failed /\ ~r.stale /\ r.kind = "edit" =>
           t = Activate([s EXCEPT !.fld[r.f].form = s.fld[r.f].state \in Active],
                        r.f, "active")
      /\ ~failed /\ ~r.stale /\ r.kind = "load" =>
           t = Send(s, "submit", r.e, r.f, FALSE, s.fld[r.f].text)
      /\ ~failed /\ ~r.stale /\ r.kind = "submit" =>
           t = IF r.answer = "ok"
               THEN Defer(SetField(s, r.f, "saved", ""),
                          [do |-> IF r.f \in FormFields THEN "render" ELSE "candidate",
                           e |-> r.e, f |-> r.f, text |-> r.copy[r.f]])
               ELSE IF r.answer = "invalid" THEN SetField(s, r.f, "invalid", "") ELSE s
      /\ ~failed /\ ~r.stale /\ r.kind = "commit" =>
           t = IF r.answer = "ok"
               THEN Deactivated([s EXCEPT !.ent[r.e].isCommitting = FALSE], r.e, "saved")
               ELSE Open([s EXCEPT !.ent[r.e].isCommitting = FALSE], r.e,
                         "networkerror", {})
  BY <1>1, ReceiveCases
<1> SUFFICES t \in Sound(c)
  OBVIOUS
<1> HIDE DEF s, t
<1>7. ASSUME r.answer = "ok", ~r.stale, r.kind \in {"edit", "submit"}, r.f \notin c.late
      PROVE  s.ent[EntityOf[r.f]].state \in {"opened", "committing"}
  BY <1>2, <1>3, <1>7 DEF InTime
<1> HIDE DEF r
<1>8. /\ {"candidate", "saved", "invalid"} \subseteq Elements(FieldStates)
      /\ "inactive" \in Resting /\ "invalid" \in Unsent /\ "saving" \in Unsent
      /\ "candidate" \notin Unsent /\ "saved" \notin Unsent
  BY StatesAre DEF Resting, Unsent
<1>9. CASE failed
  <2> DEFINE a == s.activeField
  <2>1. CASE a = None
    BY <1>3, <1>6, <1>9, <2>1
  <2>2. CASE a # None
    <3>1. a \in Fields  BY <1>1, <1>3, <2>2 DEF Page
    <3>2. a \notin c.late => s.ent[EntityOf[a]].state # "closed"
      <4>1. s.fld[a].state \notin Resting  BY <1>3, <3>1 DEF Sound, TakenUp
      <4> QED  BY <1>3, <1>8, <3>1, <4>1, TakenUpIsOpen
    <3> HIDE DEF a
    <3>3. SetField(s, a, "candidate", "") \in Sound(c)
      BY <1>3, <1>8, <3>1, <3>2, SetFieldSound
    <3> QED  BY <1>6, <1>9, <2>2, <3>3 DEF a
  <2> QED  BY <2>1, <2>2
<1>10. CASE ~failed /\ r.stale
  BY <1>3, <1>6, <1>10
<1>11. CASE ~failed /\ ~r.stale /\ r.kind = "edit"
  <2> DEFINE b == s.fld[r.f].state \in Active
             u == [s EXCEPT !.fld[r.f].form = b]
  <2>1. r.answer = "ok" /\ r.f \in Fields  BY <1>2, <1>11 DEF Failed
  <2>2. b \in BOOLEAN  OBVIOUS
  <2>3. t = Activate(u, r.f, "active")  BY <1>6, <1>11
  <2> HIDE DEF b
  <2>4. u \in Sound(c) /\ u.ent = s.ent  BY <1>3, <2>1, <2>2, FormSound
  <2> HIDE DEF u
  <2>5. r.f \notin c.late => u.ent[EntityOf[r.f]].state # "closed"
    BY <1>7, <1>11, <2>1, <2>4
  <2>6. "active" \in Active  BY DEF Active
  <2>7. Activate(u, r.f, "active") \in Sound(c)
    BY <2>1, <2>4, <2>5, <2>6, ActivateSound
  <2> QED  BY <2>3, <2>7
<1>12. CASE ~failed /\ ~r.stale /\ r.kind = "load"
  <2>1. r.f \in Fields /\ r.e = EntityOf[r.f] /\ r.e \in Entities  BY <1>2, <1>12
  <2>2. s.fld[r.f].state = "saving" /\ NotStored(s, r.f)
    BY <1>3, <1>4, <1>12 DEF Storing
  <2>3. Send(s, "submit", r.e, r.f, FALSE, s.fld[r.f].text) \in Sound(c)
    BY <1>3, <2>1, <2>2, SubmitSound
  <2> QED  BY <1>6, <1>12, <2>3
<1>13. CASE ~failed /\ ~r.stale /\ r.kind = "submit"
  <2> DEFINE k == [do |-> IF r.f \in FormFields THEN "render" ELSE "candidate",
                   e |-> r.e, f |-> r.f, text |-> r.copy[r.f]]
             u == SetField(s, r.f, "saved", "")
  <2>1. r.f \in Fields /\ r.e = EntityOf[r.f] /\ r.e \in Entities  BY <1>2, <1>13
  <2>2. s.fld[r.f].state = "saving" /\ NotStored(s, r.f)
    BY <1>3, <1>4, <1>13 DEF Storing
  <2>3. r.f \notin c.late => s.ent[EntityOf[r.f]].state # "closed"
    BY <1>3, <1>8, <2>1, <2>2, TakenUpIsOpen
  <2>4. (r.answer = "ok" => k \in Task) /\ k.f = r.f /\ k.do \in {"render", "candidate"}
    BY <1>2, <1>5, <1>13, <2>1 DEF Task, OnFields
  <2>5. u \in Sound(c)  BY <1>3, <1>8, <2>1, <2>2, <2>3, SetFieldSound
  <2>6. OnlyField(s, u, r.f)  BY <1>3, <1>8, <2>1, SetFieldFrame
  <2>7. SetField(s, r.f, "invalid", "") \in Sound(c)
    BY <1>3, <1>8, <2>1, <2>2, <2>3, SetFieldSound
  <2>8. t = IF r.answer = "ok" THEN Defer(u, k)
            ELSE IF r.answer = "invalid" THEN SetField(s, r.f, "invalid", "") ELSE s
    BY <1>6, <1>13
  <2> HIDE DEF u, k
  <2>9. ASSUME r.answer = "ok"  PROVE Defer(u, k) \in Sound(c)
    <3>1. r.f \notin c.late => u.ent[EntityOf[r.f]].state \in {"opened", "committing"}
      BY <1>7, <1>13, <2>1, <2>6, <2>9 DEF OnlyField
    <3>2. Fitting(c, u, k)
      <4> SUFFICES ASSUME NEW f \in Fields \ c.late, Risky(k, f)
                   PROVE  u.ent[EntityOf[f]].state \notin {"closed", "closing", "deactivating"}
        BY <2>4, <2>9 DEF Fitting
      <4>1. f = r.f  BY <2>4 DEF Risky
      <4> QED  BY <3>1, <4>1
    <3> QED  BY <2>4, <2>5, <2>9, <3>2, DeferSound
  <2> QED  BY <1>3, <2>7, <2>8, <2>9
<1>14. CASE ~failed /\ ~r.stale /\ r.kind = "commit"
  <2> DEFINE u == [s EXCEPT !.ent[r.e].isCommitting = FALSE]
  <2>1. Committing(r)  BY <1>14 DEF Committing
  <2>2. u \in Sound(c) /\ ~u.ent[r.e].isCommitting /\ u.ent[r.e].state = "committing"
    BY <1>2, <1>3, <1>4, <2>1, AnsweredSound
  <2>3. t = IF r.answer = "ok" THEN Deactivated(u, r.e, "saved")
            ELSE Open(u, r.e, "networkerror", {})
    BY <1>6, <1>14
  <2> HIDE DEF u
  <2>4. ASSUME r.answer = "ok"  PROVE Deactivated(u, r.e, "saved") \in Sound(c)
    <3>1. Safe(c, r.e)  BY <1>5, <2>1, <2>4
    <3> QED  BY <1>2, <2>2, <3>1, DeactivatedSound
  <2>5. Open(u, r.e, "networkerror", {}) \in Sound(c)  BY <1>2, <2>2, OpenSound
  <2> QED  BY <2>3, <2>4, <2>5
<1> QED  BY <1>2, <1>9, <1>10, <1>11, <1>12, <1>13, <1>14

-----------------------------------------------------------------------------
(* The user.                                                                 *)

\* Typing a text that is not older than what was stored.
LEMMA TypedSound ==
  ASSUME NEW c \in Context, NEW s \in Sound(c), NEW f \in Fields, NEW text \in Texts,
         NotOlder(c, f, text), s.fld[f].views
  PROVE  Typed(s, f, text) \in Sound(c)
<1> DEFINE x == [s.fld[f] EXCEPT !.text = text]
           t == [s EXCEPT !.fld[f].text = text]
<1>1. s \in Page /\ s.fld[f] \in Field  BY SoundPage
<1>2. x \in Field /\ x.state = s.fld[f].state /\ x.views = s.fld[f].views /\ x.text = text
  BY <1>1 DEF Field
<1>3. t = [s EXCEPT !.fld[f] = x] /\ t.ent = s.ent /\ t.fld[f] = x  BY <1>1 DEF Page
<1> HIDE DEF x, t
<1>4. FieldFits(c, s, f, x)  BY <1>2, SameStateFits
<1>5. t \in Sound(c)  BY <1>2, <1>3, <1>4, FieldSound
<1>6. t.ent[EntityOf[f]].state # "closed"
  BY <1>3 DEF Sound, ViewlessFields
<1>7. "activating" \in Active  BY DEF Active
<1>8. Activate(t, f, "activating") \in Sound(c)  BY <1>5, <1>6, <1>7, ActivateSound
<1>9. "changed" \in Elements(FieldStates)  BY StatesAre
<1>10. NotOlder(c, f, t.fld[f].text)  BY <1>2, <1>3
<1>11. SetField(t, f, "changed", "") \in Sound(c)
  BY <1>5, <1>6, <1>9, <1>10, SetFieldSound
<1>12. Typed(s, f, text) = IF f \in FormFields /\ s.fld[f].state = "invalid"
                           THEN Activate(t, f, "activating") ELSE SetField(t, f, "changed", "")
  BY DEF Typed, t
<1> QED  BY <1>8, <1>11, <1>12

\* What the user does otherwise, but for discarding edits.
LEMMA UserSound ==
  ASSUME NEW c \in Context, ui \in Sound(c), User, ~\E f \in Fields : Edit(f), ~Discard
  PROVE  ui' \in Sound(c) /\ UNCHANGED edits /\ ServerSame
<1>1. /\ \A f \in Fields : ui.fld[f].views => ui.ent[EntityOf[f]].state # "closed"
      /\ ui \in Page
  BY SoundPage DEF Sound, ViewlessFields
<1>2. {"candidate", "highlighted"} \subseteq Elements(FieldStates)
      /\ "candidate" \notin Unsent /\ "highlighted" \notin Unsent
  BY StatesAre DEF Unsent
<1>3. ASSUME NEW e \in Entities, ClickQuickEdit(e)
      PROVE  ui' \in Sound(c) /\ UNCHANGED edits /\ ServerSame
  <2>1. Launch(ui, e) \in Sound(c)  BY <1>3, LaunchSound DEF ClickQuickEdit
  <2> QED  BY <1>3, <2>1 DEF ClickQuickEdit, Show
<1>4. ASSUME NEW e \in Entities, ClickSave(e)
      PROVE  ui' \in Sound(c) /\ UNCHANGED edits /\ ServerSame
  <2>1. Commit(ui, e) \in Sound(c)  BY CommitSound
  <2> QED  BY <1>4, <2>1 DEF ClickSave, Show
<1>5. ASSUME NEW e \in Entities, ClickClose(e)
      PROVE  ui' \in Sound(c) /\ UNCHANGED edits /\ ServerSame
  <2>1. Deactivate(ui, e, "") \in Sound(c)  BY DeactivateSound
  <2> QED  BY <1>5, <2>1 DEF ClickClose, Show
<1>6. ASSUME NEW f \in Fields, MouseEnter(f)
      PROVE  ui' \in Sound(c) /\ UNCHANGED edits /\ ServerSame
  <2>1. ui.ent[EntityOf[f]].state # "closed"  BY <1>1, <1>6 DEF MouseEnter
  <2>2. SetField(ui, f, "highlighted", "") \in Sound(c)
    BY <1>2, <2>1, SetFieldSound
  <2> QED  BY <1>6, <2>2 DEF MouseEnter, Show
<1>7. ASSUME NEW f \in Fields, MouseLeave(f)
      PROVE  ui' \in Sound(c) /\ UNCHANGED edits /\ ServerSame
  <2>1. ui.ent[EntityOf[f]].state # "closed"  BY <1>1, <1>7 DEF MouseLeave
  <2>2. SetField(ui, f, "candidate", "mouseleave") \in Sound(c)
    BY <1>2, <2>1, SetFieldSound
  <2> QED  BY <1>7, <2>2 DEF MouseLeave, Show
<1>8. ASSUME NEW f \in Fields, Click(f)
      PROVE  ui' \in Sound(c) /\ UNCHANGED edits /\ ServerSame
  <2>1. ui.ent[EntityOf[f]].state # "closed"  BY <1>1, <1>8 DEF Click
  <2>2. "activating" \in Active  BY DEF Active
  <2>3. Activate(ui, f, "activating") \in Sound(c)  BY <2>1, <2>2, ActivateSound
  <2> QED  BY <1>8, <2>3 DEF Click, Show
<1>9. ASSUME Confirm
      PROVE  ui' \in Sound(c) /\ UNCHANGED edits /\ ServerSame
  <2>1. ui.activeModal \in Entities  BY <1>1, <1>9 DEF Confirm, Page
  <2>2. [ui EXCEPT !.activeModal = None] \in Sound(c)  BY FlagsSound
  <2>3. Commit([ui EXCEPT !.activeModal = None], ui.activeModal) \in Sound(c)
    BY <2>1, <2>2, CommitSound
  <2> QED  BY <1>9, <2>3 DEF Confirm, Show
<1> QED  BY <1>3, <1>4, <1>5, <1>6, <1>7, <1>8, <1>9 DEF User

-----------------------------------------------------------------------------
(* The site takes a request one step on.                                     *)

\* Request o is request r, only further.
Onward(r, o) ==
  /\ o.kind = r.kind /\ o.e = r.e /\ o.f = r.f /\ o.reset = r.reset
  /\ o.text = r.text /\ o.stale = r.stale /\ (o.answer = "none" => r.answer = "none")

LEMMA ServedSound ==
  ASSUME NEW c \in Context, NEW s \in Sound(c), NEW i \in DOMAIN s.out,
         NEW o \in Request, Onward(s.out[i], o), \A f \in c.unsafe : ~Spoils(c, o, f)
  PROVE  [s EXCEPT !.out[i] = o] \in Sound(c)
<1> DEFINE t == [s EXCEPT !.out[i] = o]
           q == [s.out EXCEPT ![i] = o]
<1>1. s \in Page /\ s.out \in Seq(Request) /\ s.out[i] \in Request  BY SoundPage
<1>3. q \in Seq(Request) /\ DOMAIN q = DOMAIN s.out  BY <1>1
<1>4. /\ \A j \in DOMAIN s.out :
           /\ q[j].kind = s.out[j].kind /\ q[j].e = s.out[j].e /\ q[j].f = s.out[j].f
           /\ q[j].text = s.out[j].text /\ q[j].stale = s.out[j].stale
           /\ (q[j].answer = "none" => s.out[j].answer = "none")
           /\ (j # i => q[j] = s.out[j])
      /\ q[i] = o
  BY <1>1 DEF Onward
<1>5. /\ t \in Page /\ t.out = q /\ t.ent = s.ent /\ t.fld = s.fld /\ t.own = s.own
      /\ t.shared = s.shared /\ t.tasks = s.tasks /\ t.activeField = s.activeField
  BY <1>1, <1>3 DEF Page
<1> HIDE DEF q, t
<1>6. \A j \in DOMAIN q : /\ Storing(q[j]) <=> Storing(s.out[j])
                          /\ Committing(q[j]) <=> Committing(s.out[j])
  BY <1>3, <1>4 DEF Storing, Committing
<1>7. OneStore(c, t)
  <2> SUFFICES ASSUME NEW j \in DOMAIN q, Storing(q[j]), q[j].f \notin c.stray
               PROVE  /\ s.fld[q[j].f].state = "saving"
                      /\ \A k \in DOMAIN q : Storing(q[k]) /\ q[k].f = q[j].f => k = j
    BY <1>5 DEF OneStore
  <2>1. Storing(s.out[j]) /\ s.out[j].f = q[j].f  BY <1>3, <1>4, <1>6
  <2>2. /\ s.fld[s.out[j].f].state = "saving"
        /\ \A k \in DOMAIN s.out : Storing(s.out[k]) /\ s.out[k].f = s.out[j].f => k = j
    BY <1>3, <2>1 DEF Sound, OneStore
  <2> QED  BY <1>3, <1>4, <1>6, <2>1, <2>2
<1>8. OneCommit(t)
  <2> SUFFICES ASSUME NEW j \in DOMAIN q, Committing(q[j])
               PROVE  /\ s.ent[q[j].e].isCommitting
                      /\ \A k \in DOMAIN q : Committing(q[k]) /\ q[k].e = q[j].e => k = j
    BY <1>5 DEF OneCommit
  <2>1. Committing(s.out[j]) /\ s.out[j].e = q[j].e  BY <1>3, <1>4, <1>6
  <2>2. /\ s.ent[s.out[j].e].isCommitting
        /\ \A k \in DOMAIN s.out : Committing(s.out[k]) /\ s.out[k].e = s.out[j].e => k = j
    BY <1>3, <2>1 DEF Sound, OneCommit
  <2> QED  BY <1>3, <1>4, <1>6, <2>1, <2>2
<1>9. SubmitsFit(c, t)
  <2> SUFFICES ASSUME NEW j \in DOMAIN q  PROVE SubmitFits(c, q[j])
    BY <1>5 DEF SubmitsFit
  <2>1. SubmitFits(c, s.out[j])  BY <1>3 DEF Sound, SubmitsFit
  <2>2. CASE j = i  BY <1>3, <1>4, <2>1, <2>2 DEF SubmitFits
  <2>3. CASE j # i  BY <1>3, <1>4, <2>1, <2>3
  <2> QED  BY <2>2, <2>3
<1>10. Guarded(c, t)
  <2> SUFFICES ASSUME NEW f \in c.unsafe
               PROVE  /\ s.ent[EntityOf[f]].state \in {"opened", "committing"}
                      /\ s.ent[EntityOf[f]].inTempStore /\ f \in InTempStore(t, EntityOf[f])
                      /\ \A j \in DOMAIN q : ~Spoils(c, q[j], f)
    BY <1>5 DEF Guarded
  <2>1. /\ s.ent[EntityOf[f]].state \in {"opened", "committing"}
        /\ s.ent[EntityOf[f]].inTempStore /\ f \in InTempStore(s, EntityOf[f])
        /\ \A j \in DOMAIN s.out : ~Spoils(c, s.out[j], f)
    BY DEF Sound, Guarded
  <2>2. InTempStore(t, EntityOf[f]) = InTempStore(s, EntityOf[f])
    BY <1>5 DEF InTempStore
  <2>3. ASSUME NEW j \in DOMAIN q  PROVE ~Spoils(c, q[j], f)
    <3>1. CASE j # i  BY <1>3, <1>4, <2>1, <3>1
    <3>2. CASE j = i  BY <1>4, <3>2
    <3> QED  BY <3>1, <3>2
  <2> QED  BY <2>1, <2>2, <2>3
<1>11. UnsentFits(c, t)  BY <1>5 DEF Sound, UnsentFits
<1>12. Held(t) /\ Ordered(t)  BY <1>5 DEF Sound, Held, Ordered
<1>13. TakenUp(c, t)  BY <1>5 DEF Sound, TakenUp
<1>14. Viewless(t) /\ ViewlessFields(t)  BY <1>5 DEF Sound, Viewless, ViewlessFields
<1>15. Shut(c, t)  BY <1>5 DEF Sound, Shut, ShutField
<1> QED  BY <1>5, <1>7, <1>8, <1>9, <1>10, <1>11, <1>12, <1>13, <1>14, <1>15 DEF Sound, t

-----------------------------------------------------------------------------
(* A page as the server renders it.                                          *)

LEMMA FreshSound ==
  ASSUME NEW c \in Context, c.unsafe = {}, \A f \in Fields : c.kept[f] = None,
         NEW stored \in [Fields -> Texts], NEW q \in Seq(Request),
         \A i \in DOMAIN q : q[i].stale /\ (q[i].kind = "submit" => q[i].text <= c.edits)
  PROVE  [Fresh(stored) EXCEPT !.out = q] \in Sound(c)
<1> DEFINE t == [Fresh(stored) EXCEPT !.out = q]
<1>1. /\ \A e \in Entities : /\ t.ent[e].state = "closed" /\ ~t.ent[e].isActive
                             /\ ~t.ent[e].isCommitting
      /\ \A f \in Fields : t.fld[f].state = "inactive" /\ ~t.fld[f].views
      /\ t.activeField = None /\ t.tasks = <<>> /\ t.out = q
  BY DEF Fresh
<1>2. t \in Page
  <2>1. Fresh(stored) \in Yielding({})  BY FreshYielding
  <2> QED  BY <2>1 DEF Yielding, Page
<1> HIDE DEF t
<1>3. \A i \in DOMAIN q : ~Storing(q[i]) /\ ~Committing(q[i])
  BY DEF Storing, Committing
<1>4. OneStore(c, t) /\ OneCommit(t)  BY <1>1, <1>3 DEF OneStore, OneCommit
<1>5. SubmitsFit(c, t)
  <2> SUFFICES ASSUME NEW i \in DOMAIN q, q[i].kind = "submit"
               PROVE  q[i].text <= c.edits /\ c.kept[q[i].f] = None
    BY <1>1 DEF SubmitsFit, SubmitFits, NotOlder
  <2>1. q[i] \in Request  OBVIOUS
  <2>2. q[i].f \in Fields  BY <2>1 DEF Request
  <2> QED  BY <2>2
<1>6. UnsentFits(c, t)  BY <1>1 DEF UnsentFits, Unsent
<1>7. Guarded(c, t)  BY DEF Guarded
<1>8. Held(t) /\ Ordered(t)  BY <1>1 DEF Held, Ordered
<1>9. TakenUp(c, t)  BY <1>1, NoneIsNothing DEF TakenUp
<1>10. Viewless(t) /\ ViewlessFields(t)  BY <1>1 DEF Viewless, ViewlessFields
<1>11. Shut(c, t)
  <2>1. \A f \in Fields : t.ent[EntityOf[f]].state = "closed"
    BY <1>1, EntityOfType
  <2> QED  BY <1>1, <2>1 DEF Shut, ShutField
<1> QED  BY <1>2, <1>4, <1>5, <1>6, <1>7, <1>8, <1>9, <1>10, <1>11 DEF Sound, t

-----------------------------------------------------------------------------
(* A submit was stored: what the page has and knows then.                    *)

NewCommit(r) ==
  r.kind = "commit" /\ r.at = "sent" /\ r.answer = "none" /\ ~r.stale /\ ~r.reset

LEMMA TryCommitFrame ==
  ASSUME NEW s \in Page, NEW e \in Entities
  PROVE  LET t == TryCommit(s, e) IN
         /\ t.own = s.own /\ t.shared = s.shared
         /\ \A o \in Entities : t.ent[o].inTempStore = s.ent[o].inTempStore
         /\ t.out = s.out \/ \E r \in Request : NewCommit(r) /\ t.out = Append(s.out, r)
<1> DEFINE r == [kind |-> "commit", e |-> e, f |-> None, reset |-> FALSE, text |-> 0,
                 at |-> "sent", copy |-> None, answer |-> "none", stale |-> FALSE]
           u == [s EXCEPT !.ent[e].isCommitting = TRUE]
<1>1. /\ u.own = s.own /\ u.shared = s.shared /\ u.out = s.out
      /\ \A o \in Entities : u.ent[o].inTempStore = s.ent[o].inTempStore
  BY DEF Page, Entity
<1>2. TryCommit(s, e) = s \/ TryCommit(s, e) = [u EXCEPT !.out = Append(@, r)]
  BY DEF TryCommit, Send
<1>3. u \in [ent : {u.ent}, fld : {u.fld}, own : {u.own}, shared : {u.shared},
             activeField : {u.activeField}, activeModal : {u.activeModal},
             reload : {u.reload}, loading : {u.loading}, tasks : {u.tasks}, out : {u.out}]
  BY DEF Page
<1>4. NewCommit(r) /\ r \in Request
  BY TextsAre DEF NewCommit, Request, CopyFits, Stages, Copies
<1> HIDE DEF u, r
<1>5. LET t == [u EXCEPT !.out = Append(@, r)] IN
      t.own = u.own /\ t.shared = u.shared /\ t.ent = u.ent /\ t.out = Append(u.out, r)
  BY <1>3
<1> QED  BY <1>1, <1>2, <1>4, <1>5

LEMMA UpdateTempStoreFrame ==
  ASSUME NEW s \in Page, Held(s), NEW e \in Entities, NEW f \in Fields
  PROVE  LET t == UpdateTempStore(s, e, f) IN
         /\ t \in Page /\ t.out = s.out
         /\ ~s.ent[e].isCommitting => t.ent[e].inTempStore /\ f \in InTempStore(t, e)
<1> DEFINE t == UpdateTempStore(s, e, f)
           own == InTempStore(s, e) \cup {f}
<1>1. s \in Good(Fields, s.activeField)  BY DEF Good, Acting
<1>2. t \in Page  BY <1>1, UpdateTempStoreGood DEF Good
<1>3. t.out = s.out  BY DEF UpdateTempStore, Page
<1>4. own # None
  <2>1. InTempStore(s, e) \in SUBSET Fields  BY DEF InTempStore, Page
  <2> QED  BY <2>1, NoneIsNothing
<1>5. s.ent[e] \in Entity  BY DEF Page
<1>6. ASSUME ~s.ent[e].isCommitting  PROVE t.ent[e].inTempStore /\ t.own[e] = own
  <2> DEFINE ent == [s.ent EXCEPT ![e].inTempStore = TRUE]
             shared == IF s.own[e] = None THEN s.shared \cup {f} ELSE s.shared
             all == [s.own EXCEPT ![e] = own]
  <2>1. t = [s EXCEPT !.ent = ent, !.shared = shared, !.own = all]
    BY <1>6 DEF UpdateTempStore, Page
  <2>2. ent[e].inTempStore /\ all[e] = own  BY <1>5 DEF Page, Entity
  <2> HIDE DEF ent, shared, all, t
  <2>3. t.ent = ent /\ t.own = all  BY <2>1 DEF Page
  <2> QED  BY <2>2, <2>3
<1> HIDE DEF t
<1>7. ~s.ent[e].isCommitting => f \in InTempStore(t, e)
  BY <1>4, <1>6 DEF InTempStore
<1> QED  BY <1>2, <1>3, <1>6, <1>7 DEF t

\* The entity knows then that its copy has the field, unless it is committing.
LEMMA StoredFrame ==
  ASSUME NEW c \in Context, NEW s \in Sound(c), NEW f \in Fields, NEW e \in Entities,
         e = EntityOf[f], s.fld[f].state = "saving",
         s.ent[e].state \in {"opened", "committing"}
  PROVE  LET t == SetField(s, f, "saved", "") IN
         /\ t.fld[f].state = "saved"
         /\ ~s.ent[e].isCommitting => t.ent[e].inTempStore /\ f \in InTempStore(t, e)
         /\ t.out = s.out \/ \E r \in Request : NewCommit(r) /\ t.out = Append(s.out, r)
<1> DEFINE u == [s EXCEPT !.fld[f].state = "saved"]
           x == [s.fld[f] EXCEPT !.state = "saved"]
           v == UpdateTempStore(u, e, f)
           w == FieldStateChange(u, f, "saved")
           t == SetField(s, f, "saved", "")
<1>1. s \in Page /\ Held(s) /\ s.fld[f] \in Field  BY SoundPage
<1>2. "saved" \in Elements(FieldStates)  BY StatesAre
<1>3. x \in Field  BY <1>1, <1>2 DEF Field
<1>4. Transition("saving", "saved")
  <2>1. /\ 7 \in DOMAIN FieldStates /\ 8 \in DOMAIN FieldStates
        /\ FieldStates[7] = "saving" /\ FieldStates[8] = "saved"
    BY DEF FieldStates
  <2> QED  BY <2>1 DEF Transition, Follows
<1>5. t = Changed(s, f, "saved")  BY <1>4 DEF SetField
<1>6. t.fld[f].state = "saved"
  <2>1. Changed(s, f, "saved").fld[f].state = "saved"  BY <1>2, ChangedFrame
  <2> QED  BY <1>5, <2>1
<1>7. u = [s EXCEPT !.fld[f] = x]  BY <1>1 DEF Page
<1> HIDE DEF x
<1>8. /\ u \in Page /\ u.ent = s.ent /\ u.out = s.out
  BY <1>1, <1>3, <1>7 DEF Page
<1>9. Held(u)  BY <1>1, <1>8 DEF Held
<1> HIDE DEF u
<1>10. EditorChange(u, f, "saving", "saved") = u  BY DEF EditorChange
<1>11. w = IF s.ent[e].state = "opened" THEN v ELSE TryCommit(v, e)
  BY <1>8 DEF FieldStateChange
<1> HIDE DEF w
<1>12. EditorStateChange(w, f, "saving", "saved") = w
  BY DEF EditorStateChange, Active
<1>13. t = w  BY <1>5, <1>10, <1>12 DEF Changed, Heard, u, w
<1>14. /\ v \in Page /\ v.out = s.out
       /\ ~s.ent[e].isCommitting => v.ent[e].inTempStore /\ f \in InTempStore(v, e)
  BY <1>8, <1>9, UpdateTempStoreFrame
<1> HIDE DEF v, t
<1>15. LET z == TryCommit(v, e) IN
       /\ z.ent[e].inTempStore = v.ent[e].inTempStore
       /\ InTempStore(z, e) = InTempStore(v, e)
       /\ z.out = v.out \/ \E r \in Request : NewCommit(r) /\ z.out = Append(v.out, r)
  BY <1>14, TryCommitFrame DEF InTempStore
<1>16. /\ ~s.ent[e].isCommitting => t.ent[e].inTempStore /\ f \in InTempStore(t, e)
       /\ t.out = s.out \/ \E r \in Request : NewCommit(r) /\ t.out = Append(s.out, r)
  BY <1>11, <1>13, <1>14, <1>15
<1> QED  BY <1>6, <1>16 DEF t

-----------------------------------------------------------------------------
(* The invariant: what was stored is in the temp store until it is saved, and *)
(* the page is sound for that.                                               *)

\* The fields with a text that the temp store has to keep.
Unsaved == {f \in Fields \ (racing \cup late) : kept[f] # None}

Relied(k, n, r, u, l) ==
  [kept |-> k, edits |-> n, racing |-> r, unsafe |-> u, late |-> l,
   loose |-> {}, stray |-> {}]
Now == Relied(kept, edits, racing, Unsaved, late)

KeptFits == \A f \in Fields : kept[f] # None => kept[f] <= edits
SiteKeeps == \A f \in Unsaved : StoredIn(EntityOf[f], f, kept[f])

KeptInv == KeptFits /\ SiteKeeps /\ ui \in Sound(Now)

LEMMA ReliedType ==
  ASSUME NEW k \in [Fields -> Texts \cup {None}], NEW n \in Texts, NEW r \in SUBSET Fields,
         NEW u \in SUBSET Fields, NEW l \in SUBSET Fields
  PROVE  Relied(k, n, r, u, l) \in Context
  BY DEF Relied, Context

LEMMA NowType ==
  ASSUME Inv
  PROVE  /\ Now \in Context /\ Now.kept = kept /\ Now.edits = edits
         /\ Now.racing = racing /\ Now.unsafe = Unsaved /\ Now.late = late
         /\ Now.loose = {} /\ Now.stray = {}
<1>1. Unsaved \in SUBSET Fields  BY DEF Unsaved
<1>2. /\ kept \in [Fields -> Texts \cup {None}] /\ edits \in Texts
      /\ racing \in SUBSET Fields /\ late \in SUBSET Fields
  BY DEF Inv, RecordInv
<1>3. Relied(kept, edits, racing, Unsaved, late) \in Context  BY <1>1, <1>2, ReliedType
<1> QED  BY <1>3 DEF Now, Relied

LEMMA NextType ==
  ASSUME Inv'
  PROVE  /\ Now' \in Context /\ Now'.kept = kept' /\ Now'.edits = edits'
         /\ Now'.racing = racing' /\ Now'.unsafe = Unsaved' /\ Now'.late = late'
         /\ Now'.loose = {} /\ Now'.stray = {}
<1>1. Unsaved' \in SUBSET Fields  BY DEF Unsaved
<1>2. /\ kept' \in [Fields -> Texts \cup {None}] /\ edits' \in Texts
      /\ racing' \in SUBSET Fields /\ late' \in SUBSET Fields
  BY DEF Inv, RecordInv
<1>3. Relied(kept', edits', racing', Unsaved', late') \in Context
  BY <1>1, <1>2, ReliedType
<1>4. Now' = Relied(kept', edits', racing', Unsaved', late')  BY DEF Now
<1> QED  BY <1>3, <1>4 DEF Relied

LEMMA InitKept == ASSUME Init, Inv  PROVE KeptInv
<1> DEFINE none == [f \in Fields |-> None]
<1>1. kept = none /\ racing = {} /\ late = {} /\ ui = Fresh(final)  BY DEF Init
<1>2. \A f \in Fields : kept[f] = None  BY <1>1
<1>3. KeptFits /\ SiteKeeps /\ Unsaved = {}
  BY <1>2 DEF KeptFits, SiteKeeps, Unsaved
<1>4. Now \in Context /\ Now.unsafe = {} /\ Now.kept = kept  BY <1>3, NowType
<1>5. final \in [Fields -> Texts]  BY DEF Inv, SiteInv
<1>6. <<>> \in Seq(Request)  OBVIOUS
<1>7. [Fresh(final) EXCEPT !.out = <<>>] \in Sound(Now)
  <2>1. DOMAIN <<>> = {}  OBVIOUS
  <2> QED  BY <1>2, <1>4, <1>5, <1>6, <2>1, FreshSound
<1>8. [Fresh(final) EXCEPT !.out = <<>>] = Fresh(final)  BY DEF Fresh
<1> QED  BY <1>1, <1>3, <1>7, <1>8 DEF KeptInv

\* A step that changes nothing but the page.
LEMMA PageKept ==
  ASSUME KeptInv, ui' \in Sound(Now), UNCHANGED edits, ServerSame
  PROVE  KeptInv'
<1>1. Unsaved' = Unsaved  BY DEF Unsaved, ServerSame
<1>2. Now' = Now  BY <1>1 DEF Now, ServerSame
<1> QED  BY <1>1, <1>2 DEF KeptInv, KeptFits, SiteKeeps, StoredIn, ServerSame

LEMMA EditKept ==
  ASSUME Inv, Inv', KeptInv, NEW f \in Fields, Edit(f)
  PROVE  KeptInv'
<1> DEFINE n == edits + 1
<1>1. /\ edits < MaxEdits /\ ui.fld[f].views /\ edits' = n /\ ui' = Typed(ui, f, n)
      /\ kept' = kept /\ racing' = racing /\ late' = late /\ final' = final /\ temp' = temp
  BY DEF Edit, ServerSame
<1>2. /\ edits \in Texts /\ edits \in Nat /\ n \in Texts /\ edits <= n
      /\ \A g \in Fields : kept[g] # None => kept[g] \in Nat /\ kept[g] <= edits
  <2>1. edits \in Texts /\ kept \in [Fields -> Texts \cup {None}]
    BY DEF Inv, RecordInv
  <2>2. MaxEdits \in Nat  BY Bounds
  <2>3. edits \in Nat /\ n \in Texts /\ edits <= n  BY <1>1, <2>1, <2>2 DEF Texts
  <2>4. ASSUME NEW g \in Fields, kept[g] # None  PROVE kept[g] \in Nat /\ kept[g] <= edits
    BY <2>1, <2>4, TextsAre DEF KeptInv, KeptFits
  <2> QED  BY <2>1, <2>3, <2>4
<1>3. KeptFits' /\ \A g \in Fields : kept[g] # None => kept[g] <= n
  BY <1>1, <1>2 DEF KeptFits
<1>4. Unsaved' = Unsaved  BY <1>1 DEF Unsaved
<1>5. SiteKeeps'  BY <1>1, <1>4 DEF KeptInv, SiteKeeps, StoredIn
<1> HIDE DEF n
<1>6. AsksLess(Now, Now')
  BY <1>1, <1>2, <1>4, NowType, NextType DEF AsksLess
<1>7. ui \in Sound(Now')  BY <1>6, NowType, NextType, LessSound DEF KeptInv
<1>8. NotOlder(Now', f, n)  BY <1>1, <1>2, <1>3, NextType DEF NotOlder
<1>9. Typed(ui, f, n) \in Sound(Now')  BY <1>1, <1>2, <1>7, <1>8, NextType, TypedSound
<1> QED  BY <1>1, <1>3, <1>5, <1>9 DEF KeptInv

LEMMA RunTaskKept ==
  ASSUME Inv, KeptInv, RunTask
  PROVE  KeptInv'
<1>1. Run([ui EXCEPT !.tasks = Tail(@)], Head(ui.tasks)) \in Sound(Now)
  <2>1. ui.tasks # <<>> /\ ui \in Sound(Now) /\ Now \in Context
    BY NowType DEF RunTask, KeptInv
  <2> QED  BY <2>1, RunSound
<1>2. ui' \in Sound(Now) /\ UNCHANGED edits /\ ServerSame
  BY <1>1 DEF RunTask, Show
<1> QED  BY <1>2, PageKept

\* The edits of an entity are discarded: nothing of it is kept any more.
LEMMA DiscardKept ==
  ASSUME Inv, Inv', KeptInv, Discard
  PROVE  KeptInv'
<1> DEFINE e == ui.activeModal
           s == [ui EXCEPT !.activeModal = None]
           t == Deactivate(s, e, "confirmed")
<1>1. /\ e # None /\ ui' = MarkReload(t, e)
      /\ kept' = [f \in Fields |-> IF EntityOf[f] = e THEN None ELSE kept[f]]
      /\ racing' = racing /\ late' = late /\ final' = final /\ temp' = temp
      /\ edits' = edits
  BY DEF Discard
<1>2. e \in Entities
  <2>1. ui \in Page  BY SoundPage DEF KeptInv
  <2> QED  BY <1>1, <2>1 DEF Page
<1> HIDE DEF e, s, t
<1>3. \A f \in Fields : kept'[f] # None => kept'[f] = kept[f] /\ EntityOf[f] # e
  BY <1>1
<1>5. Unsaved' \subseteq Unsaved /\ \A f \in Unsaved' : EntityOf[f] # e
  BY <1>1, <1>3 DEF Unsaved
<1>4. KeptFits' /\ SiteKeeps'
  <2>1. \A f \in Unsaved' : f \in Unsaved /\ kept'[f] = kept[f]
    BY <1>3, <1>5 DEF Unsaved
  <2> QED  BY <1>1, <1>3, <2>1 DEF KeptInv, KeptFits, SiteKeeps, StoredIn
<1>6. AsksLess(Now, Now')
  <2>1. edits \in Nat  BY TextsAre DEF Inv, RecordInv
  <2>2. edits <= edits'  BY <1>1, <2>1
  <2> QED  BY <1>1, <1>3, <1>5, <2>2, NowType, NextType DEF AsksLess
<1>7. Now' \in Context /\ ui \in Sound(Now') /\ Safe(Now', e)
  <2>1. ui \in Sound(Now')  BY <1>6, NowType, NextType, LessSound DEF KeptInv
  <2> QED  BY <1>5, <2>1, NextType DEF Safe
<1>8. s \in Sound(Now')  BY <1>7, FlagsSound DEF s
<1>9. t \in Sound(Now')  BY <1>2, <1>7, <1>8, DeactivateSound DEF t
<1>10. MarkReload(t, e) \in Sound(Now')  BY <1>2, <1>7, <1>9, MarkReloadSound
<1> QED  BY <1>1, <1>4, <1>10 DEF KeptInv

LEMMA UserKept ==
  ASSUME Inv, Inv', KeptInv, User
  PROVE  KeptInv'
<1>1. CASE \E f \in Fields : Edit(f)  BY <1>1, EditKept
<1>2. CASE Discard  BY <1>2, DiscardKept
<1>3. CASE (~\E f \in Fields : Edit(f)) /\ ~Discard
  <2>1. Now \in Context /\ ui \in Sound(Now)  BY NowType DEF KeptInv
  <2>2. ui' \in Sound(Now) /\ UNCHANGED edits /\ ServerSame
    BY <1>3, <2>1, UserSound
  <2> QED  BY <2>2, PageKept
<1> QED  BY <1>1, <1>2, <1>3

-----------------------------------------------------------------------------
(* An answer comes.                                                          *)

\* The answer is in time for what the page relies on after the step.
LEMMA AnswerInTime ==
  ASSUME Inv, NEW i \in DOMAIN ui.out, Answer(i), NEW c, c.late = late'
  PROVE  InTime(c, ui, ui.out[i])
<1> DEFINE r == ui.out[i]
<1> SUFFICES ASSUME r.answer = "ok", ~r.stale, r.kind \in {"edit", "submit"},
                    r.f \notin late'
             PROVE  ui.ent[r.e].state \in {"opened", "committing"}
  BY DEF InTime
<1>1. late' = late \cup Belated(r)  BY DEF Answer
<1>2. r.f \notin Belated(r)  BY <1>1
<1> QED  BY <1>2 DEF Belated

\* One that stores nothing.
LEMMA AnswerKeptRest ==
  ASSUME Inv, Inv', KeptInv, NEW i \in DOMAIN ui.out, Answer(i),
         ~(/\ ui.out[i].kind = "submit" /\ ui.out[i].answer = "ok" /\ ~ui.out[i].stale
           /\ ui.ent[ui.out[i].e].state \in {"opened", "committing"})
  PROVE  KeptInv'
<1> DEFINE r == ui.out[i]
           t == Receive([ui EXCEPT !.out = RemoveAt(@, i)], r)
<1>1. /\ ui' = t /\ racing' = racing /\ late \subseteq late' /\ edits' = edits
      /\ temp' = temp /\ r.answer # "none"
  BY DEF Answer
<1>2. kept' = kept  BY DEF Answer
<1> HIDE DEF t
<1>3. Unsaved' \subseteq Unsaved  BY <1>1, <1>2 DEF Unsaved
<1>4. KeptFits'  BY <1>1, <1>2 DEF KeptInv, KeptFits
<1>5. SiteKeeps'  BY <1>1, <1>2, <1>3 DEF KeptInv, SiteKeeps, StoredIn
<1>6. AsksLess(Now, Now')
  <2>1. edits \in Nat  BY TextsAre DEF Inv, RecordInv
  <2>2. edits <= edits'  BY <1>1, <2>1
  <2> QED  BY <1>1, <1>2, <1>3, <2>2, NowType, NextType DEF AsksLess
<1>7. ui \in Sound(Now')  BY <1>6, NowType, NextType, LessSound DEF KeptInv
<1>8. InTime(Now', ui, r)  BY NextType, AnswerInTime
<1>9. t \in Sound(Now')  BY <1>1, <1>7, <1>8, NextType, ReceiveSound DEF t
<1> QED  BY <1>1, <1>4, <1>5, <1>9 DEF KeptInv

\* A page that nothing was asked of for field f, but has f stored.
LEMMA StoredSound ==
  ASSUME NEW d \in Context, NEW c \in Context, NEW t \in Sound(d), NEW f \in Fields,
         \A g \in Fields : g # f => c.kept[g] = d.kept[g],
         c.edits = d.edits, c.late = d.late, c.loose = d.loose, c.stray = d.stray,
         d.racing \subseteq c.racing \cup {f}, c.unsafe \subseteq d.unsafe \cup {f},
         t.fld[f].state \notin Unsent,
         f \notin c.racing =>
           \A j \in DOMAIN t.out :
             t.out[j].kind = "submit" /\ t.out[j].f = f /\ t.out[j].answer = "none" =>
               NotOlder(c, f, t.out[j].text),
         f \in c.unsafe =>
           /\ t.ent[EntityOf[f]].state \in {"opened", "committing"}
           /\ t.ent[EntityOf[f]].inTempStore /\ f \in InTempStore(t, EntityOf[f])
           /\ \A j \in DOMAIN t.out : ~Spoils(c, t.out[j], f)
  PROVE  t \in Sound(c)
<1>1. UnsentFits(c, t)
  <2> SUFFICES ASSUME NEW g \in Fields, t.fld[g].state \in Unsent
               PROVE  NotOlder(c, g, t.fld[g].text)
    BY DEF UnsentFits
  <2>1. g # f  OBVIOUS
  <2>2. NotOlder(d, g, t.fld[g].text)  BY DEF Sound, UnsentFits
  <2> QED  BY <2>1, <2>2 DEF NotOlder
<1>2. SubmitsFit(c, t)
  <2> SUFFICES ASSUME NEW j \in DOMAIN t.out, t.out[j].kind = "submit"
               PROVE  /\ t.out[j].text <= c.edits
                      /\ t.out[j].answer = "none" /\ t.out[j].f \notin c.racing =>
                           NotOlder(c, t.out[j].f, t.out[j].text)
    BY DEF SubmitsFit, SubmitFits
  <2>1. t.out[j] \in Request  BY SoundPage
  <2>2. t.out[j].f \in Fields  BY <2>1 DEF Request
  <2>3. SubmitFits(d, t.out[j])  BY DEF Sound, SubmitsFit
  <2>4. t.out[j].text <= c.edits  BY <2>3 DEF SubmitFits
  <2>5. ASSUME t.out[j].answer = "none", t.out[j].f \notin c.racing, t.out[j].f # f
        PROVE  NotOlder(c, t.out[j].f, t.out[j].text)
    BY <2>2, <2>3, <2>5 DEF SubmitFits, NotOlder
  <2> QED  BY <2>4, <2>5
<1>3. Guarded(c, t)
  <2> SUFFICES ASSUME NEW g \in c.unsafe
               PROVE  /\ t.ent[EntityOf[g]].state \in {"opened", "committing"}
                      /\ t.ent[EntityOf[g]].inTempStore /\ g \in InTempStore(t, EntityOf[g])
                      /\ \A j \in DOMAIN t.out : ~Spoils(c, t.out[j], g)
    BY DEF Guarded
  <2>1. CASE g = f  BY <2>1
  <2>2. CASE g # f
    <3>1. g \in d.unsafe /\ g \in Fields /\ c.kept[g] = d.kept[g]  BY <2>2 DEF Context
    <3>2. \A j \in DOMAIN t.out : ~Spoils(c, t.out[j], g)
      BY <3>1 DEF Sound, Guarded, Spoils, Overwrites
    <3> QED  BY <3>1, <3>2 DEF Sound, Guarded
  <2> QED  BY <2>1, <2>2
<1>4. OneStore(c, t)  BY DEF Sound, OneStore
<1>5. TakenUp(c, t)  BY DEF Sound, TakenUp
<1>6. Shut(c, t)  BY DEF Sound, Shut
<1> QED  BY <1>1, <1>2, <1>3, <1>4, <1>5, <1>6 DEF Sound

LEMMA AppendedAt ==
  ASSUME NEW q \in Seq(Request), NEW o \in Request, NEW u, u = Append(q, o),
         NEW j \in DOMAIN u
  PROVE  u[j] = o \/ (j \in DOMAIN q /\ u[j] = q[j])
<1>1. /\ DOMAIN u = 1 .. Len(q) + 1 /\ Len(q) \in Nat /\ DOMAIN q = 1 .. Len(q)
      /\ u[Len(q) + 1] = o /\ \A n \in 1 .. Len(q) : u[n] = q[n]
  OBVIOUS
<1> QED  BY <1>1

LEMMA AnswerKeptStored ==
  ASSUME Inv, Inv', KeptInv, NEW i \in DOMAIN ui.out, Answer(i),
         ui.out[i].kind = "submit", ui.out[i].answer = "ok", ~ui.out[i].stale,
         ui.ent[ui.out[i].e].state \in {"opened", "committing"}
  PROVE  KeptInv'
<1> DEFINE r == ui.out[i]
           f == r.f
           e == r.e
           s == [ui EXCEPT !.out = RemoveAt(@, i)]
           k == [do |-> IF f \in FormFields THEN "render" ELSE "candidate",
                 e |-> e, f |-> f, text |-> r.copy[f]]
           u == SetField(s, f, "saved", "")
           t == Defer(u, k)
           unkept == [kept EXCEPT ![f] = None]
           d == Relied(unkept, edits, racing \cup {f}, Unsaved \ {f}, late')
<1>1. ui \in Sound(Now) /\ Now \in Context  BY NowType DEF KeptInv
<1>2. /\ r \in Request /\ ui \in Page /\ ui.out \in Seq(Request)
      /\ \A j \in DOMAIN ui.out : ui.out[j] \in Request
  BY <1>1, SoundPage
<1>3. f \in Fields /\ e = EntityOf[f] /\ e \in Entities /\ r.text \in Texts
  BY <1>2 DEF Request
<1>4. ui' = t
  <2>1. ui' = Receive(s, r)  BY DEF Answer
  <2>2. ~Failed(r) /\ r.answer # "none"  BY DEF Failed
  <2>3. Receive(s, r) = t  BY <1>2, <2>2, ReceiveCases
  <2> QED  BY <2>1, <2>3
<1>5. /\ kept' = [kept EXCEPT ![f] = r.text] /\ late' = late \cup Belated(r)
      /\ edits' = edits /\ temp' = temp
      /\ racing' = IF \/ ResetComing(e) \/ OlderComing(r) \/ OlderHeld(r)
                      \/ ~StoredIn(e, f, r.text)
                   THEN racing \cup {f} ELSE racing \ {f}
  BY DEF Answer
<1>6. Belated(r) = IF ~ui.ent[e].isCommitting THEN {} ELSE {f}
  BY DEF Belated
<1>7. kept \in [Fields -> Texts \cup {None}] /\ edits \in Texts /\ racing \in SUBSET Fields
      /\ late' \in SUBSET Fields /\ Unsaved \in SUBSET Fields
  BY DEF Inv, RecordInv, Unsaved
<1>8. r.text <= edits
  <2>1. SubmitFits(Now, r)  BY <1>1 DEF Sound, SubmitsFit
  <2> QED  BY <2>1, NowType DEF SubmitFits
<1>9. SubmitFits(Now, r) /\ Storing(r)  BY <1>1 DEF Sound, SubmitsFit, Storing
<1> HIDE DEF r, f, e
<1>10. /\ kept'[f] = r.text /\ unkept[f] = None
       /\ \A g \in Fields : g # f => kept'[g] = kept[g] /\ unkept[g] = kept[g]
       /\ unkept \in [Fields -> Texts \cup {None}]
  BY <1>3, <1>5, <1>7
<1>11. KeptFits'  BY <1>5, <1>8, <1>10 DEF KeptInv, KeptFits
<1>12. Unsaved' \subseteq Unsaved \cup {f}
  <2> SUFFICES ASSUME NEW g \in Unsaved', g # f  PROVE g \in Unsaved
    OBVIOUS
  <2>1. g \in Fields /\ g \notin racing' /\ g \notin late' /\ kept'[g] # None
    BY DEF Unsaved
  <2>2. g \notin racing /\ g \notin late  BY <1>5, <2>1
  <2> QED  BY <1>10, <2>1, <2>2 DEF Unsaved
<1>13. SiteKeeps'
  <2> SUFFICES ASSUME NEW g \in Unsaved'
               PROVE  temp[EntityOf[g]] # None /\ temp[EntityOf[g]][g] >= kept'[g]
    BY <1>5 DEF SiteKeeps, StoredIn
  <2>1. CASE g = f
    <3>1. f \notin racing'  BY <2>1 DEF Unsaved
    <3>2. StoredIn(e, f, r.text)  BY <1>5, <3>1
    <3> QED  BY <1>3, <1>10, <2>1, <3>2 DEF StoredIn
  <2>2. CASE g # f
    <3>1. g \in Unsaved /\ g \in Fields  BY <1>12, <2>2 DEF Unsaved
    <3> QED  BY <1>10, <2>2, <3>1 DEF KeptInv, SiteKeeps, StoredIn
  <2> QED  BY <2>1, <2>2
<1>14. /\ d \in Context /\ d.kept = unkept /\ d.edits = edits
       /\ d.racing = racing \cup {f} /\ d.unsafe = Unsaved \ {f} /\ d.late = late'
       /\ d.loose = {} /\ d.stray = {}
  <2> HIDE DEF unkept
  <2>1. racing \cup {f} \in SUBSET Fields /\ Unsaved \ {f} \in SUBSET Fields  BY <1>3, <1>7
  <2>2. d \in Context  BY <1>7, <1>10, <2>1, ReliedType
  <2> QED  BY <2>2 DEF Relied
<1> HIDE DEF unkept, d
<1>15. ui \in Sound(d)
  <2>1. edits \in Nat  BY <1>7, TextsAre
  <2>2. edits <= edits /\ late \subseteq late'  BY <1>5, <2>1
  <2>3. \A g \in Fields : unkept[g] # None => unkept[g] = kept[g]  BY <1>10
  <2>4. AsksLess(Now, d)  BY <1>14, <2>2, <2>3, NowType DEF AsksLess
  <2> QED  BY <1>1, <1>14, <2>4, LessSound
<1>16. t \in Sound(d)
  <2>1. InTime(d, ui, r)  BY <1>14, AnswerInTime DEF r
  <2>2. r.answer # "none"  BY DEF r
  <2>3. Receive(s, r) \in Sound(d)  BY <1>14, <1>15, <2>1, <2>2, ReceiveSound DEF r
  <2>4. ui' = Receive(s, r)  BY DEF Answer, r
  <2> QED  BY <1>4, <2>3, <2>4
<1>17. /\ s \in Sound(Now) /\ s.ent = ui.ent /\ s.fld = ui.fld
       /\ \A j \in DOMAIN s.out : \E m \in DOMAIN ui.out : s.out[j] = ui.out[m]
  BY <1>1, RemovedSound
<1> HIDE DEF s
<1>18. s.fld[f].state = "saving"
  <2>1. ui.fld[r.f].state = "saving"
    BY <1>1, <1>9, NowType DEF Sound, OneStore, r
  <2> QED  BY <1>17, <2>1 DEF f
<1>19. s.ent[e].state \in {"opened", "committing"}  BY <1>17 DEF e, r
<1>20. /\ u.fld[f].state = "saved"
       /\ ~s.ent[e].isCommitting => u.ent[e].inTempStore /\ f \in InTempStore(u, e)
       /\ u.out = s.out \/ \E o \in Request : NewCommit(o) /\ u.out = Append(s.out, o)
  BY <1>1, <1>3, <1>17, <1>18, <1>19, StoredFrame
<1>21. OnlyField(s, u, f)
  <2>1. "saved" \in Elements(FieldStates)  BY StatesAre
  <2> QED  BY <1>3, <1>17, <2>1, SetFieldFrame
<1>22. u.ent[e].state = s.ent[e].state  BY <1>3, <1>21 DEF OnlyField
<1>23. s.out \in Seq(Request)  BY <1>17, SoundPage
<1>24. ASSUME NEW j \in DOMAIN u.out
       PROVE  \/ \E m \in DOMAIN ui.out : u.out[j] = ui.out[m]
              \/ NewCommit(u.out[j])
  <2>1. CASE u.out = s.out  BY <1>17, <2>1
  <2>2. ASSUME NEW o \in Request, NewCommit(o), u.out = Append(s.out, o)
        PROVE  (\E m \in DOMAIN ui.out : u.out[j] = ui.out[m]) \/ NewCommit(u.out[j])
    <3> DEFINE q == s.out
               w == u.out
    <3>1. q \in Seq(Request) /\ w = Append(q, o) /\ j \in DOMAIN w  BY <1>23, <2>2
    <3> HIDE DEF q, w
    <3>3. w[j] = o \/ (j \in DOMAIN q /\ w[j] = q[j])
      BY <3>1, AppendedAt
    <3>2. u.out[j] = o \/ (j \in DOMAIN s.out /\ u.out[j] = s.out[j])
      BY <3>3 DEF q, w
    <3> QED  BY <1>17, <2>2, <3>2
  <2> QED  BY <1>20, <2>1, <2>2
<1>25. /\ t.fld = u.fld /\ t.ent = u.ent /\ t.out = u.out
       /\ InTempStore(t, e) = InTempStore(u, e)
  <2>1. u \in Page
    <3>1. u \in Yielding(Fields)
      <4>1. s \in Yielding(Fields)  BY <1>17, SoundPage DEF Yielding, Acting
      <4>2. "saved" \in Elements(FieldStates) /\ "saved" \notin Active
        BY StatesAre DEF Active
      <4> QED  BY <1>3, <4>1, <4>2, SetFieldYielding
    <3> QED  BY <3>1 DEF Yielding
  <2> HIDE DEF u, k
  <2> QED  BY <2>1 DEF Defer, Page, InTempStore
<1> HIDE DEF u, t, k
<1>26. t.fld[f].state \notin Unsent  BY <1>20, <1>25 DEF Unsent
<1>27. ASSUME f \notin racing', NEW j \in DOMAIN t.out, t.out[j].kind = "submit",
              t.out[j].f = f, t.out[j].answer = "none"
       PROVE  NotOlder(Now', f, t.out[j].text)
  <2>1. PICK m \in DOMAIN ui.out : t.out[j] = ui.out[m]
    BY <1>24, <1>25, <1>27 DEF NewCommit
  <2>2. ~(ui.out[m].text < r.text)
    BY <1>5, <1>27, <2>1 DEF OlderComing, f
  <2>3. SubmitFits(Now, ui.out[m])  BY <1>1 DEF Sound, SubmitsFit
  <2>4. ui.out[m].text <= edits  BY <1>27, <2>1, <2>3, NowType DEF SubmitFits
  <2>5. ui.out[m].text \in Nat /\ r.text \in Nat  BY <1>2, <1>3, TextsAre DEF Request
  <2>6. r.text <= ui.out[m].text  BY <2>2, <2>5
  <2> QED  BY <1>5, <1>10, <2>1, <2>4, <2>6, NextType DEF NotOlder
<1>28. ASSUME f \in Unsaved'
       PROVE  /\ t.ent[EntityOf[f]].state \in {"opened", "committing"}
              /\ t.ent[EntityOf[f]].inTempStore /\ f \in InTempStore(t, EntityOf[f])
              /\ \A j \in DOMAIN t.out : ~Spoils(Now', t.out[j], f)
  <2>1. f \notin racing' /\ f \notin late'  BY <1>28 DEF Unsaved
  <2>2. ~ui.ent[e].isCommitting /\ ~ResetComing(e) /\ ~OlderHeld(r)
    BY <1>5, <1>6, <2>1
  <2>3. Now'.kept[f] = r.text  BY <1>10, NextType
  <2>4. ASSUME NEW j \in DOMAIN t.out  PROVE ~Spoils(Now', t.out[j], f)
    <3>1. CASE NewCommit(t.out[j])
      BY <3>1 DEF NewCommit, Spoils, Resets, Committed, Overwrites, ToWrite
    <3>2. ASSUME NEW m \in DOMAIN ui.out, t.out[j] = ui.out[m]
          PROVE  ~Spoils(Now', t.out[j], f)
      <4>1. ~Resets(ui.out[m], e)  BY <2>2 DEF Resets, ResetComing
      <4>2. ~(Committing(ui.out[m]) /\ ui.out[m].e = e)
        BY <1>1, <2>2 DEF Sound, OneCommit
      <4>3. ~(ui.out[m].kind = "commit" /\ ui.out[m].e = e /\ ui.out[m].answer = "none")
        BY <2>2 DEF OlderHeld, e
      <4>4. ~Committed(ui.out[m], e)  BY <4>2, <4>3 DEF Committed, Committing
      <4>5. ~Overwrites(Now', ui.out[m], f)
        <5> SUFFICES ASSUME ui.out[m].e = e, ui.out[m].answer = "none", ToWrite(ui.out[m]),
                            ~(ui.out[m].copy[f] >= r.text)
                     PROVE  FALSE
          BY <1>3, <2>3 DEF Overwrites
        <5>1. ui.out[m].copy \in [FieldsOf(e) -> Texts]
          BY <1>2 DEF ToWrite, Request, CopyFits
        <5>2. f \in FieldsOf(e)  BY <1>3 DEF FieldsOf
        <5>3. ui.out[m].copy[f] \in Nat /\ r.text \in Nat  BY <1>3, <5>1, <5>2, TextsAre
        <5>4. ui.out[m].copy[f] < r.text  BY <5>3
        <5> QED  BY <2>2, <5>4 DEF OlderHeld, e, f
      <4> QED  BY <1>3, <3>2, <4>1, <4>4, <4>5 DEF Spoils
    <3> QED  BY <1>24, <1>25, <3>1, <3>2
  <2> QED  BY <1>3, <1>17, <1>19, <1>20, <1>22, <1>25, <2>2, <2>4
<1>29. Now' \in Context /\ \A g \in Fields : g # f => Now'.kept[g] = d.kept[g]
  BY <1>10, <1>14, NextType
<1>30. t \in Sound(Now')
  <2>1. d.racing \subseteq racing' \cup {f} /\ Unsaved' \subseteq d.unsafe \cup {f}
    BY <1>5, <1>12, <1>14
  <2>2. /\ Now'.edits = d.edits /\ Now'.late = d.late /\ Now'.loose = d.loose
        /\ Now'.stray = d.stray /\ d.racing \subseteq Now'.racing \cup {f}
        /\ Now'.unsafe \subseteq d.unsafe \cup {f}
    BY <1>5, <1>14, <2>1, NextType
  <2>3. f \notin Now'.racing =>
          \A j \in DOMAIN t.out :
            t.out[j].kind = "submit" /\ t.out[j].f = f /\ t.out[j].answer = "none" =>
              NotOlder(Now', f, t.out[j].text)
    BY <1>27, NextType
  <2>4. f \in Now'.unsafe =>
          /\ t.ent[EntityOf[f]].state \in {"opened", "committing"}
          /\ t.ent[EntityOf[f]].inTempStore /\ f \in InTempStore(t, EntityOf[f])
          /\ \A j \in DOMAIN t.out : ~Spoils(Now', t.out[j], f)
    BY <1>28, NextType
  <2> QED
    BY <1>3, <1>14, <1>16, <1>26, <1>29, <2>2, <2>3, <2>4, StoredSound
<1> QED  BY <1>4, <1>11, <1>13, <1>30 DEF KeptInv

LEMMA AnswerKept ==
  ASSUME Inv, Inv', KeptInv, NEW i \in DOMAIN ui.out, Answer(i)
  PROVE  KeptInv'
  BY AnswerKeptRest, AnswerKeptStored

-----------------------------------------------------------------------------
(* The site serves a request.                                                *)

LEMMA ServedKept ==
  ASSUME Inv, Inv', KeptInv, NEW i \in DOMAIN ui.out, NEW o \in Request,
         Onward(ui.out[i], o), ui' = [ui EXCEPT !.out[i] = o],
         UNCHANGED <<edits, racing, late>>, SiteKeeps',
         \A f \in Fields : kept'[f] # None => kept'[f] = kept[f],
         \A f \in Unsaved' : ~Spoils(Now', o, f)
  PROVE  KeptInv'
<1>1. Unsaved' \subseteq Unsaved  BY DEF Unsaved
<1>2. AsksLess(Now, Now')
  <2>1. edits \in Nat  BY TextsAre DEF Inv, RecordInv
  <2>2. edits <= edits'  BY <2>1
  <2> QED  BY <1>1, <2>2, NowType, NextType DEF AsksLess
<1>3. ui \in Sound(Now') /\ Now' \in Context
  BY <1>2, NowType, NextType, LessSound DEF KeptInv
<1>4. [ui EXCEPT !.out[i] = o] \in Sound(Now')
  BY <1>3, NextType, ServedSound
<1>5. KeptFits'  BY DEF KeptInv, KeptFits
<1> QED  BY <1>4, <1>5 DEF KeptInv

\* What a request may do to a text that is to be kept.
LEMMA NotSpoiled ==
  ASSUME Inv, KeptInv, NEW i \in DOMAIN ui.out, ui.out[i].answer = "none",
         NEW g \in Unsaved, EntityOf[g] = ui.out[i].e
  PROVE  /\ g \in Fields /\ g \in FieldsOf(ui.out[i].e) /\ kept[g] # None
         /\ kept[g] \in Nat /\ StoredIn(ui.out[i].e, g, kept[g])
         /\ ~Resets(ui.out[i], ui.out[i].e) /\ ~Committed(ui.out[i], ui.out[i].e)
         /\ ToWrite(ui.out[i]) => ui.out[i].copy[g] >= kept[g]
<1>1. g \in Fields /\ kept[g] # None  BY DEF Unsaved
<1>2. g \in FieldsOf(ui.out[i].e) /\ kept[g] \in Nat
  BY <1>1, TextsAre DEF Inv, RecordInv, FieldsOf
<1>3. StoredIn(ui.out[i].e, g, kept[g])  BY DEF KeptInv, SiteKeeps
<1>4. ~Spoils(Now, ui.out[i], g)  BY NowType DEF KeptInv, Sound, Guarded
<1> QED  BY <1>1, <1>2, <1>3, <1>4, NowType DEF Spoils, Overwrites

\* A request goes on with a copy, the temp store stays.
LEMMA AtKept ==
  ASSUME Inv, Inv', KeptInv, NEW i \in DOMAIN ui.out, ui.out[i].answer = "none",
         NEW at \in Stages, NEW copy \in Copies, At(i, at, copy),
         copy # None => copy \in [FieldsOf(ui.out[i].e) -> Texts],
         at \in {"loaded", "missing", "got"} => copy # None,
         at \in {"loaded", "missing", "stored"} => ui.out[i].kind # "commit",
         at = "saved" => ui.out[i].kind = "commit",
         UNCHANGED <<edits, racing, late>>, SiteKeeps',
         \A f \in Fields : kept'[f] # None => kept'[f] = kept[f],
         at # "sent", at = "loaded" => ui.out[i].at = "sent",
         \A g \in Unsaved' : EntityOf[g] = ui.out[i].e =>
           at # "saved" /\ (at \in {"missing", "got"} => copy[g] >= kept[g])
  PROVE  KeptInv'
<1> DEFINE r == ui.out[i]
           o == [r EXCEPT !.at = at, !.copy = copy]
<1>1. r \in Request  BY RequestOut
<1>2. /\ o \in Request /\ o.at = at /\ o.copy = copy /\ o.kind = r.kind /\ o.e = r.e
      /\ o.f = r.f /\ o.reset = r.reset /\ o.text = r.text /\ o.stale = r.stale
      /\ o.answer = r.answer
  BY <1>1 DEF Request, CopyFits
<1>3. ui' = [ui EXCEPT !.out[i] = o]  BY DEF At
<1> HIDE DEF o
<1>4. Onward(r, o)  BY <1>2 DEF Onward
<1>5. ASSUME NEW g \in Unsaved'  PROVE ~Spoils(Now', o, g)
  <2>1. CASE EntityOf[g] # r.e
    BY <1>2, <2>1 DEF Spoils, Resets, Committed, Overwrites
  <2>2. CASE EntityOf[g] = r.e
    <3>1. g \in Unsaved /\ kept'[g] = kept[g]  BY DEF Unsaved
    <3>2. ~Resets(r, r.e) /\ ~Committed(r, r.e)  BY <2>2, <3>1, NotSpoiled
    <3>3. ~Resets(o, r.e)
      <4>1. CASE at = "loaded"  BY <1>2, <3>2, <4>1 DEF Resets
      <4>2. CASE at \notin {"sent", "loaded"}  BY <1>2, <4>2 DEF Resets
      <4> QED  BY <4>1, <4>2
    <3>4. ~Committed(o, r.e)  BY <1>2, <2>2, <3>2 DEF Committed
    <3>5. ~Overwrites(Now', o, g)
      BY <1>2, <2>2, <3>1, NextType DEF Overwrites, ToWrite
    <3> QED  BY <2>2, <3>3, <3>4, <3>5 DEF Spoils
  <2> QED  BY <2>1, <2>2
<1> QED  BY <1>2, <1>3, <1>4, <1>5, ServedKept

\* A request is answered.
LEMMA ReplyKept ==
  ASSUME Inv, Inv', KeptInv, NEW i \in DOMAIN ui.out, ui.out[i].answer = "none",
         NEW answer \in {"ok", "invalid", "error"}, NEW copy \in Copies,
         Reply(i, answer, copy),
         copy # None => copy \in [FieldsOf(ui.out[i].e) -> Texts],
         answer = "ok" /\ ui.out[i].kind = "submit" => copy # None,
         answer = "invalid" => ui.out[i].kind = "submit",
         answer = "ok" /\ ui.out[i].kind = "commit" => ui.out[i].at = "saved",
         UNCHANGED <<edits, kept, racing, late>>, SiteKeeps'
  PROVE  KeptInv'
<1> DEFINE r == ui.out[i]
           o == [r EXCEPT !.at = "done", !.copy = copy, !.answer = answer]
<1>1. r \in Request  BY RequestOut
<1>2. /\ o \in Request /\ o.kind = r.kind /\ o.e = r.e
      /\ o.f = r.f /\ o.reset = r.reset /\ o.text = r.text /\ o.stale = r.stale
      /\ o.answer = answer
  BY <1>1 DEF Request, CopyFits, Stages
<1>3. ui' = [ui EXCEPT !.out[i] = o]  BY DEF Reply
<1> HIDE DEF o
<1>4. Onward(r, o)  BY <1>2 DEF Onward
<1>5. ASSUME NEW g \in Unsaved'  PROVE ~Spoils(Now', o, g)
  <2>1. ~Resets(o, EntityOf[g]) /\ ~Overwrites(Now', o, g)
    BY <1>2 DEF Resets, Overwrites
  <2>2. g \in Unsaved  BY DEF Unsaved
  <2>3. ~Committed(o, EntityOf[g])
    <3> SUFFICES ASSUME r.e = EntityOf[g], r.kind = "commit", answer = "ok"
                 PROVE  FALSE
      BY <1>2 DEF Committed
    <3>1. ~Committed(r, r.e)  BY <2>2, NotSpoiled
    <3> QED  BY <3>1 DEF Committed
  <2> QED  BY <2>1, <2>3 DEF Spoils
<1> QED  BY <1>2, <1>3, <1>4, <1>5, ServedKept

\* The temp store is given copy x of e, with all that is to be kept of e.
LEMMA CopyKeeps ==
  ASSUME Inv, KeptInv, NEW e \in Entities, NEW x \in [FieldsOf(e) -> Texts] \cup {None},
         temp' = [temp EXCEPT ![e] = x], UNCHANGED <<kept, racing, late>>,
         \A g \in Unsaved : EntityOf[g] = e => x # None /\ x[g] >= kept[g]
  PROVE  SiteKeeps'
<1>1. \A o \in Entities : temp'[o] = IF o = e THEN x ELSE temp[o]
  BY DEF Inv, SiteInv
<1> SUFFICES ASSUME NEW g \in Unsaved'
             PROVE  temp'[EntityOf[g]] # None /\ temp'[EntityOf[g]][g] >= kept[g]
  BY DEF SiteKeeps, StoredIn
<1>2. g \in Unsaved /\ g \in Fields  BY DEF Unsaved
<1>3. CASE EntityOf[g] = e  BY <1>1, <1>2, <1>3
<1>4. CASE EntityOf[g] # e
  <2>1. temp'[EntityOf[g]] = temp[EntityOf[g]]  BY <1>1, <1>2, <1>4, EntityOfType
  <2> QED  BY <1>2, <2>1 DEF KeptInv, SiteKeeps, StoredIn
<1> QED  BY <1>3, <1>4

LEMMA SameKeeps ==
  ASSUME KeptInv, UNCHANGED <<temp, kept, racing, late>>
  PROVE  SiteKeeps' /\ Unsaved' = Unsaved
<1>1. Unsaved' = Unsaved  BY DEF Unsaved
<1> QED  BY <1>1 DEF KeptInv, SiteKeeps, StoredIn

LEMMA ServeKept ==
  ASSUME Inv, Inv', KeptInv, NEW i \in DOMAIN ui.out, Serve(i)
  PROVE  KeptInv'
<1> DEFINE r == ui.out[i]
           e == r.e
<1>1. ui \in Sound(Now) /\ Now \in Context  BY NowType DEF KeptInv
<1>2. r \in Request  BY RequestOut
<1>3. /\ r.e = e /\ e \in Entities /\ r.text \in Texts /\ r.answer = "none"
      /\ r.kind \in {"edit", "load", "submit", "commit"}
      /\ r.kind # "commit" => r.f \in Fields /\ e = EntityOf[r.f]
      /\ UNCHANGED <<edits, racing, late>>
  BY <1>2 DEF Request, Serve
<1>4. /\ temp[e] \in [FieldsOf(e) -> Texts] \cup {None}
      /\ final \in [Fields -> Texts] /\ None \in Copies
  BY <1>3 DEF Inv, SiteInv, Copies
<1>5. r.at \in {"loaded", "missing", "got"} =>
        /\ r.copy \in [FieldsOf(e) -> Texts] /\ r.copy \in Copies /\ r.copy # None
        /\ r.at # "got" => r.kind # "commit"
  BY <1>3, CopyRead
<1>6. temp[e] # None => temp[e] \in Copies  BY <1>3, <1>4, CopyType
<1>7. /\ r.at \in {"loaded", "missing", "stored"} => r.kind # "commit"
      /\ r.at = "saved" => r.kind = "commit"
  BY <1>2 DEF Request, CopyFits
<1>8. ASSUME NEW g \in Unsaved, EntityOf[g] = e
      PROVE  /\ g \in Fields /\ g \in FieldsOf(e) /\ kept[g] # None
             /\ kept[g] \in Nat /\ temp[e] # None /\ temp[e][g] >= kept[g]
             /\ ~Resets(r, e) /\ ~Committed(r, e)
             /\ ToWrite(r) => r.copy[g] >= kept[g]
  BY <1>3, <1>8, NotSpoiled DEF StoredIn
<1>9. /\ "loaded" \in Stages /\ "missing" \in Stages /\ "got" \in Stages
      /\ "stored" \in Stages /\ "saved" \in Stages
  BY DEF Stages
<1> HIDE DEF r, e
<1>10. CASE LoadEntity(i)
  <2> DEFINE x == [f \in FieldsOf(e) |-> final[f]]
  <2>1. /\ At(i, "loaded", x) /\ UNCHANGED <<temp, kept>>
        /\ r.at = "sent" /\ r.kind # "commit"
    BY <1>10 DEF LoadEntity, r, e
  <2>2. x \in [FieldsOf(e) -> Texts]  BY <1>4 DEF FieldsOf
  <2> HIDE DEF x
  <2>3. x \in Copies /\ x # None  BY <1>3, <2>2, CopyType
  <2>4. SiteKeeps'  BY <1>3, <2>1, SameKeeps
  <2> QED  BY <1>3, <1>9, <2>1, <2>2, <2>3, <2>4, AtKept DEF r, e
<1>11. CASE GetCopy(i) /\ (temp[e] = None \/ r.reset)
  <2>1. At(i, "missing", r.copy) /\ UNCHANGED <<temp, kept>> /\ r.at = "loaded"
    BY <1>11 DEF GetCopy, r, e
  <2>2. SiteKeeps' /\ Unsaved' = Unsaved  BY <1>3, <2>1, SameKeeps
  <2>3. \A g \in Unsaved' : EntityOf[g] # e
    BY <1>3, <1>8, <1>11, <2>1, <2>2 DEF Resets
  <2> QED  BY <1>3, <1>5, <1>9, <2>1, <2>2, <2>3, AtKept DEF r, e
<1>12. CASE GetCopy(i) /\ ~(temp[e] = None \/ r.reset)
  <2> DEFINE x == temp[e]
  <2>1. /\ At(i, "got", x) /\ UNCHANGED <<temp, kept>> /\ r.at = "loaded"
        /\ x \in [FieldsOf(e) -> Texts] /\ x \in Copies /\ x # None
    BY <1>4, <1>6, <1>12 DEF GetCopy, r, e
  <2>2. SiteKeeps' /\ Unsaved' = Unsaved  BY <1>3, <2>1, SameKeeps
  <2>3. \A g \in Unsaved' : EntityOf[g] = e => x[g] >= kept[g]  BY <1>8, <2>2
  <2> HIDE DEF x
  <2> QED  BY <1>3, <1>5, <1>9, <2>1, <2>2, <2>3, AtKept DEF r, e
<1>13. CASE InitCopy(i)
  <2> DEFINE x == r.copy
  <2>1. /\ At(i, "got", x) /\ UNCHANGED kept /\ temp' = [temp EXCEPT ![e] = x]
        /\ r.at = "missing" /\ x \in [FieldsOf(e) -> Texts] /\ x \in Copies /\ x # None
    BY <1>5, <1>13 DEF InitCopy, r, e
  <2>2. \A g \in Unsaved : EntityOf[g] = e => x[g] >= kept[g]
    BY <1>8, <2>1 DEF ToWrite
  <2> HIDE DEF x
  <2>3. SiteKeeps'  BY <1>3, <2>1, <2>2, CopyKeeps
  <2>4. Unsaved' = Unsaved  BY <1>3, <2>1 DEF Unsaved
  <2> QED  BY <1>3, <1>9, <2>1, <2>2, <2>3, <2>4, AtKept DEF r, e
<1>14. CASE ServeForm(i) \/ Fail(i)
  <2>1. /\ UNCHANGED <<temp, kept>>
        /\ \/ Reply(i, "error", None)
           \/ Reply(i, "ok", None) /\ r.kind \in {"edit", "load"}
    BY <1>14 DEF ServeForm, Fail, r
  <2>2. SiteKeeps'  BY <1>3, <2>1, SameKeeps
  <2> QED  BY <1>3, <1>4, <2>1, <2>2, ReplyKept DEF r, e
<1>15. CASE Reject(i)
  <2>1. UNCHANGED <<temp, kept>> /\ Reply(i, "invalid", None) /\ r.kind = "submit"
    BY <1>15 DEF Reject, r
  <2>2. SiteKeeps'  BY <1>3, <2>1, SameKeeps
  <2> QED  BY <1>3, <1>4, <2>1, <2>2, ReplyKept DEF r, e
<1>16. CASE StoreCopy(i)
  <2> DEFINE c == r.copy
             x == [c EXCEPT ![r.f] = r.text]
  <2>1. /\ At(i, "stored", None) /\ UNCHANGED kept /\ temp' = [temp EXCEPT ![e] = x]
        /\ r.at = "got" /\ r.kind = "submit" /\ c \in [FieldsOf(e) -> Texts]
    BY <1>5, <1>16 DEF StoreCopy, r, e
  <2>2. \A g \in Unsaved : EntityOf[g] = e => c[g] >= kept[g]
    BY <1>8, <2>1 DEF ToWrite
  <2> HIDE DEF c
  <2>3. r.f \in FieldsOf(e) /\ r.f \in Fields  BY <1>3, <2>1 DEF FieldsOf
  <2>4. x \in [FieldsOf(e) -> Texts]  BY <1>3, <2>1
  <2>5. ASSUME NEW g \in Unsaved, EntityOf[g] = e  PROVE x[g] >= kept[g]
    <3>1. g \in FieldsOf(e) /\ kept[g] # None /\ kept[g] \in Nat /\ g \notin racing
      BY <1>8, <2>5 DEF Unsaved
    <3>2. CASE g = r.f
      <4>1. SubmitFits(Now, r)  BY <1>1 DEF Sound, SubmitsFit, r
      <4>2. kept[g] <= r.text
        BY <1>3, <2>1, <3>1, <3>2, <4>1, NowType DEF SubmitFits, NotOlder
      <4>3. r.text \in Nat  BY <1>3, TextsAre
      <4>4. r.text >= kept[g]  BY <3>1, <4>2, <4>3
      <4> QED  BY <2>1, <2>3, <3>2, <4>4
    <3>3. CASE g # r.f
      <4>1. x[g] = c[g]  BY <2>1, <3>1, <3>3
      <4> QED  BY <2>2, <2>5, <4>1
    <3> QED  BY <3>2, <3>3
  <2> HIDE DEF x
  <2>6. x # None  BY <1>3, <2>4, CopyType
  <2>7. SiteKeeps'  BY <1>3, <2>1, <2>4, <2>5, <2>6, CopyKeeps
  <2> QED  BY <1>3, <1>4, <1>9, <2>1, <2>7, AtKept DEF r, e
<1>17. CASE ServeSubmit(i)
  <2>1. /\ UNCHANGED <<temp, kept>> /\ r.at = "stored"
        /\ \/ Reply(i, "error", None)
           \/ temp[e] # None /\ Reply(i, "ok", temp[e])
    BY <1>17 DEF ServeSubmit, r, e
  <2>2. SiteKeeps'  BY <1>3, <2>1, SameKeeps
  <2>3. CASE Reply(i, "error", None)
    BY <1>3, <1>4, <2>1, <2>2, <2>3, ReplyKept DEF r, e
  <2>4. CASE temp[e] # None /\ Reply(i, "ok", temp[e])
    <3> DEFINE x == temp[e]
    <3>1. x \in Copies /\ x # None /\ x \in [FieldsOf(e) -> Texts] /\ Reply(i, "ok", x)
      BY <1>4, <1>6, <2>4
    <3> HIDE DEF x
    <3> QED  BY <1>3, <1>7, <2>1, <2>2, <3>1, ReplyKept DEF r, e
  <2> QED  BY <2>1, <2>3, <2>4
<1>18. CASE GetToSave(i)
  <2>1. /\ UNCHANGED <<temp, kept>> /\ r.at = "sent" /\ r.kind = "commit"
        /\ \/ Reply(i, "error", None)
           \/ temp[e] # None /\ At(i, "got", temp[e])
    BY <1>18 DEF GetToSave, r, e
  <2>2. SiteKeeps' /\ Unsaved' = Unsaved  BY <1>3, <2>1, SameKeeps
  <2>3. CASE Reply(i, "error", None)
    BY <1>3, <1>4, <2>1, <2>2, <2>3, ReplyKept DEF r, e
  <2>4. CASE temp[e] # None /\ At(i, "got", temp[e])
    <3> DEFINE x == temp[e]
    <3>1. x \in Copies /\ x # None /\ x \in [FieldsOf(e) -> Texts] /\ At(i, "got", x)
      BY <1>4, <1>6, <2>4
    <3>2. \A g \in Unsaved' : EntityOf[g] = e => x[g] >= kept[g]  BY <1>8, <2>2
    <3> HIDE DEF x
    <3> QED  BY <1>3, <1>9, <2>1, <2>2, <3>1, <3>2, AtKept DEF r, e
  <2> QED  BY <2>1, <2>3, <2>4
<1>19. CASE SaveEntity(i)
  <2>1. /\ At(i, "saved", None) /\ UNCHANGED temp /\ r.at = "got" /\ r.kind = "commit"
        /\ kept' = [f \in Fields |->
                      IF EntityOf[f] = e /\ kept[f] # None /\ r.copy[f] >= kept[f]
                      THEN None ELSE kept[f]]
    BY <1>19 DEF SaveEntity, r, e
  <2>2. \A f \in Fields : kept'[f] # None => kept'[f] = kept[f]  BY <2>1
  <2>3. \A g \in Unsaved' : g \in Unsaved /\ kept'[g] = kept[g]
    BY <1>3, <2>2 DEF Unsaved
  <2>4. \A g \in Unsaved' : EntityOf[g] # e
    <3> SUFFICES ASSUME NEW g \in Unsaved', EntityOf[g] = e  PROVE FALSE  OBVIOUS
    <3>1. g \in Unsaved /\ g \in Fields /\ kept'[g] # None  BY <2>3 DEF Unsaved
    <3>2. r.copy[g] >= kept[g] /\ kept[g] # None  BY <1>8, <2>1, <3>1 DEF ToWrite
    <3> QED  BY <2>1, <3>1, <3>2
  <2>5. SiteKeeps'  BY <2>1, <2>3 DEF KeptInv, SiteKeeps, StoredIn
  <2> QED  BY <1>3, <1>4, <1>9, <2>1, <2>2, <2>4, <2>5, AtKept DEF r, e
<1>20. CASE ServeCommit(i)
  <2>1. /\ temp' = [temp EXCEPT ![e] = None] /\ UNCHANGED kept /\ r.at = "saved"
        /\ Reply(i, "ok", None) \/ Reply(i, "error", None)
    BY <1>20 DEF ServeCommit, r, e
  <2>2. r.kind = "commit"  BY <1>7, <2>1
  <2>3. \A g \in Unsaved : EntityOf[g] # e
    BY <1>3, <1>8, <2>1, <2>2 DEF Committed
  <2>4. SiteKeeps'  BY <1>3, <2>1, <2>3, CopyKeeps
  <2> QED  BY <1>3, <1>4, <2>1, <2>2, <2>4, ReplyKept DEF r, e
<1> QED
  BY <1>10, <1>11, <1>12, <1>13, <1>14, <1>15, <1>16, <1>17, <1>18, <1>19, <1>20
  DEF Serve

-----------------------------------------------------------------------------
(* The page is loaded again.                                                 *)

LEMMA ReloadKept ==
  ASSUME Inv, Inv', KeptInv, Reload
  PROVE  KeptInv'
<1> DEFINE places == {i \in DOMAIN ui.out : ui.out[i].answer = "none"}
           out == Chosen(ui.out, places)
           q == [i \in DOMAIN out |-> [out[i] EXCEPT !.stale = TRUE]]
<1>1. ui \in Sound(Now) /\ ui.out \in Seq(Request)  BY SoundPage DEF KeptInv
<1>2. /\ ui' = [Fresh(final) EXCEPT !.out = q] /\ kept' = [f \in Fields |-> None]
      /\ late' = {} /\ edits' = edits
  BY DEF Reload
<1>3. out \in Seq(Request) /\ PartUpTo(out, ui.out, places, Len(ui.out))
  BY <1>1, ChosenType, ChosenParts
<1>4. \A i \in DOMAIN ui.out : ui.out[i].kind = "submit" => ui.out[i].text <= edits
  BY <1>1, NowType DEF Sound, SubmitsFit, SubmitFits
<1>5. DOMAIN ui.out = 1 .. Len(ui.out)  BY <1>1
<1>6. \A i \in DOMAIN out : out[i].kind = "submit" => out[i].text <= edits
  BY <1>3, <1>4, <1>5 DEF PartUpTo, EachFrom
<1> HIDE DEF out, places
<1>7. q \in Seq(Request) /\ DOMAIN q = DOMAIN out  BY <1>3, StaleRequests
<1>8. \A i \in DOMAIN q : q[i].stale /\ (q[i].kind = "submit" => q[i].text <= edits)
  <2> SUFFICES ASSUME NEW i \in DOMAIN out
               PROVE  q[i].stale /\ (q[i].kind = "submit" => q[i].text <= edits)
    BY <1>7
  <2>1. out[i] \in Request  BY <1>3
  <2>2. q[i] = [out[i] EXCEPT !.stale = TRUE]  OBVIOUS
  <2> HIDE DEF q
  <2>3. q[i].stale /\ q[i].kind = out[i].kind /\ q[i].text = out[i].text
    BY <2>1, <2>2 DEF Request
  <2> QED  BY <1>6, <2>3
<1> HIDE DEF q
<1>9. \A f \in Fields : kept'[f] = None  BY <1>2
<1>10. KeptFits' /\ SiteKeeps' /\ Unsaved' = {}
  BY <1>9 DEF KeptFits, SiteKeeps, Unsaved
<1>11. /\ Now' \in Context /\ Now'.unsafe = {} /\ Now'.edits = edits
       /\ \A f \in Fields : Now'.kept[f] = None
  BY <1>2, <1>9, <1>10, NextType
<1>12. final \in [Fields -> Texts]  BY DEF Inv, SiteInv
<1>13. [Fresh(final) EXCEPT !.out = q] \in Sound(Now')
  BY <1>7, <1>8, <1>11, <1>12, FreshSound
<1> QED  BY <1>2, <1>10, <1>13 DEF KeptInv

-----------------------------------------------------------------------------

LEMMA StutterKept == ASSUME KeptInv, UNCHANGED vars  PROVE KeptInv'
<1>1. Unsaved' = Unsaved  BY DEF vars, Unsaved
<1>2. Now' = Now  BY <1>1 DEF vars, Now
<1> QED  BY <1>1, <1>2 DEF vars, KeptInv, KeptFits, SiteKeeps, StoredIn

LEMMA KeptInvariance == Spec => []KeptInv
<1>1. Inv /\ Inv' /\ KeptInv /\ [Next]_vars => KeptInv'
  <2> SUFFICES ASSUME Inv, Inv', KeptInv, [Next]_vars  PROVE KeptInv'
    OBVIOUS
  <2>1. CASE User  BY <2>1, UserKept
  <2>2. CASE RunTask  BY <2>2, RunTaskKept
  <2>3. CASE \E i \in DOMAIN ui.out : Answer(i)  BY <2>3, AnswerKept
  <2>4. CASE \E i \in DOMAIN ui.out : Serve(i)  BY <2>4, ServeKept
  <2>5. CASE Reload  BY <2>5, ReloadKept
  <2>6. CASE UNCHANGED vars  BY <2>6, StutterKept
  <2> QED  BY <2>1, <2>2, <2>3, <2>4, <2>5, <2>6 DEF Next
<1>2. Init /\ Inv => KeptInv  BY InitKept
<1>3. Spec => []Inv  BY Invariance
<1> QED  BY <1>1, <1>2, <1>3, PTL DEF Spec

\* What the page was told is stored is in the temp store until a commit has saved
\* it: a form has the copy start over only as long as the entity does not know of
\* one (_updateInTempStoreAttributes(), EditorView.save()); a request that is to
\* write a copy read it when the text was in, or had read a later one of the field
\* when the answer came (fieldForm(), QuickEditFieldForm::submitForm()); and the
\* copy is deleted only after it was saved (entitySave()). Excepted are the fields
\* of racing, where something older was still to be written when the answer came,
\* and of late.
THEOREM KeptIsKept == Spec => []KeptIsStored
<1>1. KeptInv => KeptIsStored
  BY DEF KeptInv, SiteKeeps, Unsaved, KeptIsStored
<1> QED  BY <1>1, KeptInvariance, PTL

\* The fields of a closed entity are inactive, but for those of late: what is due
\* for a field of an entity that is left comes before the deferred tasks that
\* close the entity (EntityModel.stateChange(), fieldStateChange()).
THEOREM ClosedIsLeft == Spec => []ClosedIsInactive
<1>1. Inv /\ KeptInv => ClosedIsInactive
  BY NowType DEF KeptInv, Sound, Shut, ShutField, ClosedIsInactive
<1> QED  BY <1>1, Invariance, KeptInvariance, PTL

=============================================================================
