---------------------------- MODULE RenderingProofs ----------------------------
(***************************************************************************)
(* What is rendered, for any templates, values, services, groups, rules    *)
(* and bases: the text of a template is what its values make of all its    *)
(* tokens at once, and the configuration of a group is what its patches    *)
(* say, in any order they are merged in.                                   *)
(*                                                                         *)
(* The argument.  What is stored, held by a call and answered has a shape  *)
(* that every step keeps (TemplatesInv, RenderedFits, SourcesInv,          *)
(* DocumentsInv).  A fold over something of this shape passes through a    *)
(* row of values, each made from the one before (FoldExists); what is      *)
(* said of a rendering is said of every value of the row, for the part     *)
(* that was folded, and follows by induction up to a number                *)
(* (UpToInduction).                                                        *)
(***************************************************************************)
EXTENDS Renderings, FiniteSetTheorems, SequenceTheorems, TLAPS

(***************************************************************************)
(* Templates.  What a call that nobody disturbed has done to the templates *)
(* that were there before tells what taking it back leaves.                *)
(***************************************************************************)
TemplateDocs == [id : Nat, name : TemplateNames, body : TemplateBodies]

TemplateCallDocs ==
    [does : {"nothing", "create", "update", "delete"},
     phase : {"ended", "create", "get", "update", "delete", "audit", "undo"}, id : Nat,
     name : TemplateNames \cup {""}, body : TemplateBodies \cup {NoTemplate},
     previous : TemplateDocs \cup {NoTemplate}, before : SUBSET TemplateDocs, disturbed : BOOLEAN]

TemplateTypes ==
    /\ templates \in SUBSET TemplateDocs
    /\ lastTemplate \in Nat
    /\ templateCalls \in [TemplateCallers -> TemplateCallDocs]

OneOfEachID(set) == \A t, u \in set : t.id = u.id => t = u

WithID(set, id) == {t \in set : t.id = id}

Asked(q) == [id |-> q.id, name |-> q.name, body |-> q.body]

\* What a call is to write, and what its undo writes back.
TemplateCallFits(q) ==
    /\ q.phase = "create" => q.does = "create"
    /\ q.phase \in {"get", "update"} => q.does = "update"
    /\ q.phase = "delete" => q.does = "delete"
    /\ q.phase \in {"audit", "undo"} => q.does # "nothing"
    /\ q.phase \in {"create", "get", "update"} => q.name \in TemplateNames /\ q.body \in TemplateBodies
    /\ q.phase = "update" \/ (q.phase \in {"audit", "undo"} /\ q.does \in {"update", "delete"}) =>
           q.previous \in TemplateDocs /\ q.previous.id = q.id
    /\ OneOfEachID(q.before)

\* The templates a call finds, leaves when it has written, and leaves when it has ended.
TemplateCallKnows(q) == ~q.disturbed =>
    /\ q.phase = "ended" =>
           \/ templates = q.before
           \/ /\ q.does = "delete" /\ templates \subseteq q.before
              /\ \E t, u \in q.before : t.id # u.id /\ t.name = u.name
    /\ q.phase \in {"create", "get", "update", "delete"} => templates = q.before
    /\ q.phase = "update" => q.previous \in q.before
    /\ q.phase \in {"audit", "undo"} =>
           /\ q.does = "create" => templates = q.before \cup {Asked(q)} /\ WithID(q.before, q.id) = {}
           /\ q.does = "update" => /\ q.previous \in q.before
                                   /\ templates = (q.before \ WithID(q.before, q.id)) \cup {Asked(q)}
           /\ q.does = "delete" => q.previous \in q.before /\ templates = q.before \ WithID(q.before, q.id)

TemplatesInv ==
    /\ TemplateTypes
    /\ OneOfEachID(templates)
    /\ \A c \in TemplateCallers : TemplateCallFits(templateCalls[c]) /\ TemplateCallKnows(templateCalls[c])

LEMMA NoTemplateCallFits ==
    /\ NoTemplateCall \in TemplateCallDocs /\ TemplateCallFits(NoTemplateCall)
    /\ TemplateCallKnows(NoTemplateCall) /\ TemplateCallKnows(NoTemplateCall)'
BY DEF NoTemplateCall, TemplateCallDocs, TemplateCallFits, TemplateCallKnows, OneOfEachID

LEMMA TemplateCallFacts ==
    ASSUME TemplatesInv, NEW c \in TemplateCallers
    PROVE  /\ templateCalls[c] \in TemplateCallDocs
           /\ TemplateCallFits(templateCalls[c]) /\ TemplateCallKnows(templateCalls[c])
           /\ templates \in SUBSET TemplateDocs /\ OneOfEachID(templates)
BY DEF TemplatesInv, TemplateTypes

\* One call moves on.
LEMMA TemplateCallMoves ==
    ASSUME TemplatesInv, NEW c \in TemplateCallers, NEW q \in TemplateCallDocs, StepTo(c, q),
           lastTemplate' \in Nat, TemplateCallFits(q), TemplateCallKnows(q)
    PROVE  TemplatesInv'
<1>1. templateCalls \in [TemplateCallers -> TemplateCallDocs] /\ templates' = templates
      /\ templateCalls' = [templateCalls EXCEPT ![c] = q]
  BY DEF TemplatesInv, TemplateTypes, StepTo
<1>2. TemplateTypes' /\ OneOfEachID(templates)'
  BY <1>1 DEF TemplatesInv, TemplateTypes, OneOfEachID
<1>3. ASSUME NEW d \in TemplateCallers
      PROVE  TemplateCallFits(templateCalls[d])' /\ TemplateCallKnows(templateCalls[d])'
  <2>1. PICK p : p = templateCalls'[d] /\ TemplateCallFits(p) /\ TemplateCallKnows(p)
    BY <1>1 DEF TemplatesInv
  <2>2. TemplateCallFits(p)' /\ TemplateCallKnows(p)'
    BY <1>1, <2>1 DEF TemplateCallFits, TemplateCallKnows
  <2> QED
    BY <2>1, <2>2
<1> QED
  BY <1>2, <1>3 DEF TemplatesInv

\* One call writes: the others are disturbed, and say nothing any more.
LEMMA TemplateCallWrites ==
    ASSUME TemplatesInv, NEW c \in TemplateCallers, NEW q \in TemplateCallDocs, NEW set \in SUBSET TemplateDocs,
           Change(c, set, q), lastTemplate' \in Nat, OneOfEachID(set), TemplateCallFits(q), TemplateCallKnows(q)'
    PROVE  TemplatesInv'
<1>1. /\ templateCalls \in [TemplateCallers -> TemplateCallDocs] /\ templates' = set
      /\ templateCalls' = [d \in TemplateCallers |->
             IF d = c THEN q
             ELSE IF templateCalls[d].phase = "ended" THEN NoTemplateCall
             ELSE [templateCalls[d] EXCEPT !.disturbed = TRUE]]
  BY DEF TemplatesInv, TemplateTypes, Change
<1>2. ASSUME NEW d \in TemplateCallers
      PROVE  /\ templateCalls'[d] \in TemplateCallDocs
             /\ TemplateCallFits(templateCalls[d])' /\ TemplateCallKnows(templateCalls[d])'
  <2>1. CASE d = c
    <3>1. TemplateCallFits(q)'
      BY DEF TemplateCallFits
    <3> QED
      BY <1>1, <2>1, <3>1
  <2>2. CASE d # c /\ templateCalls[d].phase = "ended"
    <3>1. PICK p : p = NoTemplateCall
      OBVIOUS
    <3>2. p \in TemplateCallDocs /\ TemplateCallFits(p)' /\ TemplateCallKnows(p)'
      BY <3>1, NoTemplateCallFits DEF TemplateCallFits, TemplateCallKnows
    <3> QED
      BY <1>1, <2>2, <3>1, <3>2
  <2>3. CASE d # c /\ templateCalls[d].phase # "ended"
    <3>1. PICK o \in TemplateCallDocs : o = templateCalls[d] /\ TemplateCallFits(o)
      BY <1>1 DEF TemplatesInv
    <3>2. PICK p : p = [o EXCEPT !.disturbed = TRUE]
      OBVIOUS
    <3>3. /\ p \in TemplateCallDocs /\ p.disturbed = TRUE
          /\ p.does = o.does /\ p.phase = o.phase /\ p.id = o.id /\ p.name = o.name /\ p.body = o.body
          /\ p.previous = o.previous /\ p.before = o.before
      BY <3>2 DEF TemplateCallDocs
    <3>4. TemplateCallFits(p)'
      BY <3>1, <3>3 DEF TemplateCallFits
    <3>5. TemplateCallKnows(p)'
      BY <3>3 DEF TemplateCallKnows
    <3> QED
      BY <1>1, <2>3, <3>1, <3>2, <3>3, <3>4, <3>5
  <2> QED
    BY <2>1, <2>2, <2>3
<1>3. TemplateTypes'
  <2>1. DOMAIN templateCalls' = TemplateCallers /\ templateCalls' \in [TemplateCallers -> TemplateCallDocs]
    BY <1>1, <1>2
  <2> QED
    BY <1>1, <2>1 DEF TemplateTypes
<1>4. OneOfEachID(templates)'
  BY <1>1 DEF OneOfEachID
<1> QED
  BY <1>2, <1>3, <1>4 DEF TemplatesInv

\* A call that ends without an audit event.
LEMMA TemplateCallEnds ==
    ASSUME NEW q \in TemplateCallDocs, TemplateCallFits(q), NEW p, p = Fails(q)
    PROVE  /\ p \in TemplateCallDocs /\ TemplateCallFits(p) /\ p.phase = "ended"
           /\ ~p.disturbed => ~q.disturbed /\ p.does = q.does /\ p.before = q.before
<1>1. CASE q.disturbed
  BY <1>1, NoTemplateCallFits DEF Fails, NoTemplateCall
<1>2. CASE ~q.disturbed
  <2>1. p = [NoTemplateCall EXCEPT !.does = q.does, !.before = q.before, !.disturbed = FALSE]
    BY <1>2 DEF Fails
  <2>2. /\ p \in TemplateCallDocs /\ p.phase = "ended" /\ p.does = q.does /\ p.before = q.before
        /\ p.disturbed = FALSE
    BY <2>1, NoTemplateCallFits DEF NoTemplateCall, TemplateCallDocs
  <2>3. TemplateCallFits(p)
    BY <2>2 DEF TemplateCallFits
  <2> QED
    BY <1>2, <2>2, <2>3
<1> QED
  BY <1>1, <1>2

LEMMA TemplateCallBegins ==
    ASSUME TemplatesInv, NEW c \in TemplateCallers, NEW call, BeginTemplateCall(c, call), lastTemplate' \in Nat,
           call.id \in Nat,
           \/ /\ call.does = "create" /\ call.phase = "create" /\ call.name \in TemplateNames
              /\ call.body \in TemplateBodies
           \/ /\ call.does = "update" /\ call.phase = "get" /\ call.name \in TemplateNames
              /\ call.body \in TemplateBodies
           \/ call.does = "delete" /\ call.phase = "delete" /\ call.name = "" /\ call.body = NoTemplate
    PROVE  TemplatesInv'
<1>1. PICK q : q = [NoTemplateCall EXCEPT !.does = call.does, !.phase = call.phase, !.id = call.id,
                                          !.name = call.name, !.body = call.body,
                                          !.before = templates, !.disturbed = FALSE]
  OBVIOUS
<1>2. templates \in SUBSET TemplateDocs /\ OneOfEachID(templates)
  BY TemplateCallFacts
<1>3. /\ q \in TemplateCallDocs /\ q.does = call.does /\ q.phase = call.phase /\ q.id = call.id
      /\ q.name = call.name /\ q.body = call.body /\ q.before = templates /\ q.disturbed = FALSE
  BY <1>1, <1>2, NoTemplateCallFits DEF NoTemplateCall, TemplateCallDocs
<1>4. TemplateCallFits(q) /\ TemplateCallKnows(q)
  BY <1>2, <1>3 DEF TemplateCallFits, TemplateCallKnows
<1>5. StepTo(c, q)
  BY <1>1 DEF BeginTemplateCall
<1> QED
  BY <1>3, <1>4, <1>5, TemplateCallMoves

LEMMA CreateTemplateKeeps ==
    ASSUME TemplatesInv, NEW c \in TemplateCallers, NEW name \in TemplateNames, NEW body \in TemplateBodies,
           CreateTemplate(c, name, body)
    PROVE  TemplatesInv'
<1>1. lastTemplate \in Nat
  BY DEF TemplatesInv, TemplateTypes
<1>2. PICK call : call = [does |-> "create", phase |-> "create", id |-> lastTemplate + 1, name |-> name, body |-> body]
  OBVIOUS
<1>3. BeginTemplateCall(c, call) /\ lastTemplate' \in {lastTemplate, lastTemplate + 1}
  BY <1>2 DEF CreateTemplate
<1>4. call.does = "create" /\ call.phase = "create" /\ call.name = name /\ call.body = body /\ call.id \in Nat
  BY <1>1, <1>2
<1>5. lastTemplate' \in Nat
  BY <1>1, <1>3
<1> QED
  BY <1>3, <1>4, <1>5, TemplateCallBegins

LEMMA UpdateTemplateKeeps ==
    ASSUME TemplatesInv, NEW c \in TemplateCallers, NEW name \in TemplateNames, NEW body \in TemplateBodies, NEW id \in 1 .. lastTemplate,
           UpdateTemplate(c, id, name, body)
    PROVE  TemplatesInv'
<1>1. lastTemplate \in Nat
  BY DEF TemplatesInv, TemplateTypes
<1>2. PICK call : call = [does |-> "update", phase |-> "get", id |-> id, name |-> name, body |-> body]
  OBVIOUS
<1>3. BeginTemplateCall(c, call) /\ lastTemplate' \in {lastTemplate, lastTemplate + 1}
  BY <1>2 DEF UpdateTemplate
<1>4. call.does = "update" /\ call.phase = "get" /\ call.name = name /\ call.body = body /\ call.id \in Nat
  BY <1>1, <1>2
<1>5. lastTemplate' \in Nat
  BY <1>1, <1>3
<1> QED
  BY <1>3, <1>4, <1>5, TemplateCallBegins

LEMMA DeleteTemplateKeeps ==
    ASSUME TemplatesInv, NEW c \in TemplateCallers, NEW id \in 1 .. lastTemplate,
           DeleteTemplate(c, id)
    PROVE  TemplatesInv'
<1>1. lastTemplate \in Nat
  BY DEF TemplatesInv, TemplateTypes
<1>2. PICK call : call = [does |-> "delete", phase |-> "delete", id |-> id, name |-> "", body |-> NoTemplate]
  OBVIOUS
<1>3. BeginTemplateCall(c, call) /\ lastTemplate' \in {lastTemplate, lastTemplate + 1}
  BY <1>2 DEF DeleteTemplate
<1>4. call.does = "delete" /\ call.phase = "delete" /\ call.name = "" /\ call.body = NoTemplate /\ call.id \in Nat
  <2>1. id \in Nat
    BY <1>1
  <2>2. call.id = id
    BY <1>2
  <2>3. call.does = "delete" /\ call.phase = "delete" /\ call.name = "" /\ call.body = NoTemplate
    BY <1>2
  <2> QED
    BY <2>1, <2>2, <2>3
<1>5. lastTemplate' \in Nat
  BY <1>1, <1>3
<1> QED
  BY <1>3, <1>4, <1>5, TemplateCallBegins

LEMMA RenderKeeps ==
    ASSUME TemplatesInv, NEW c, NEW id, NEW values, RenderTemplate(c, id, values)
    PROVE  TemplatesInv'
<1>1. UNCHANGED <<templates, lastTemplate, templateCalls>>
  BY DEF RenderTemplate
<1>2. TemplateTypes' /\ OneOfEachID(templates)'
  BY <1>1 DEF TemplatesInv, TemplateTypes, OneOfEachID
<1>3. \A q : TemplateCallFits(q) /\ TemplateCallKnows(q) => TemplateCallFits(q)' /\ TemplateCallKnows(q)'
  BY <1>1 DEF TemplateCallFits, TemplateCallKnows
<1> QED
  BY <1>1, <1>2, <1>3 DEF TemplatesInv

LEMMA GetPreviousKeeps ==
    ASSUME TemplatesInv, NEW c \in TemplateCallers, GetPrevious(c)
    PROVE  TemplatesInv'
<1>1. PICK q \in TemplateCallDocs : q = templateCalls[c] /\ TemplateCallFits(q) /\ TemplateCallKnows(q)
  BY TemplateCallFacts
<1>2. q.phase = "get" /\ lastTemplate' = lastTemplate /\ lastTemplate' \in Nat
  BY <1>1 DEF GetPrevious, TemplatesInv, TemplateTypes
<1>3. CASE TemplateOf(q.id) = {}
  <2>1. PICK p : p = Fails(q)
    OBVIOUS
  <2>2. StepTo(c, p)
    BY <1>1, <1>3, <2>1 DEF GetPrevious
  <2>3. /\ p \in TemplateCallDocs /\ TemplateCallFits(p) /\ p.phase = "ended"
        /\ ~p.disturbed => ~q.disturbed /\ p.does = q.does /\ p.before = q.before
    BY <1>1, <2>1, TemplateCallEnds
  <2>4. TemplateCallKnows(p)
    BY <1>1, <1>2, <2>3 DEF TemplateCallKnows
  <2> QED
    BY <1>2, <2>2, <2>3, <2>4, TemplateCallMoves
<1>4. CASE TemplateOf(q.id) # {}
  <2>1. PICK t \in TemplateOf(q.id) : StepTo(c, [q EXCEPT !.previous = t, !.phase = "update"])
    BY <1>1, <1>4 DEF GetPrevious
  <2>2. t \in templates /\ t.id = q.id /\ t \in TemplateDocs
    BY <2>1, TemplateCallFacts DEF TemplateOf
  <2>3. PICK p : p = [q EXCEPT !.previous = t, !.phase = "update"]
    OBVIOUS
  <2>4. /\ p \in TemplateCallDocs /\ p.phase = "update" /\ p.previous = t /\ p.does = q.does /\ p.id = q.id
        /\ p.name = q.name /\ p.body = q.body /\ p.before = q.before /\ p.disturbed = q.disturbed
    BY <2>2, <2>3 DEF TemplateCallDocs
  <2>5. TemplateCallFits(p) /\ TemplateCallKnows(p)
    BY <1>1, <1>2, <2>2, <2>4 DEF TemplateCallFits, TemplateCallKnows
  <2> QED
    BY <1>2, <2>1, <2>3, <2>4, <2>5, TemplateCallMoves
<1> QED
  BY <1>3, <1>4

\* What the writes of the repository do.
LEMMA RepositoryWrites ==
    ASSUME TemplatesInv
    PROVE  /\ \A t \in TemplateDocs : ~(\E other \in templates : other.id = t.id \/ other.name = t.name)
                  => templates \cup {t} \in SUBSET TemplateDocs /\ OneOfEachID(templates \cup {t})
           /\ \A t \in TemplateDocs : /\ (templates \ TemplateOf(t.id)) \cup {t} \in SUBSET TemplateDocs
                                      /\ OneOfEachID((templates \ TemplateOf(t.id)) \cup {t})
           /\ \A id : /\ templates \ TemplateOf(id) \in SUBSET TemplateDocs
                      /\ OneOfEachID(templates \ TemplateOf(id))
           /\ \A id : TemplateOf(id) = WithID(templates, id)
BY DEF TemplatesInv, TemplateTypes, OneOfEachID, TemplateOf, WithID

LEMMA WriteTemplateKeeps ==
    ASSUME TemplatesInv, NEW c \in TemplateCallers, WriteTemplate(c)
    PROVE  TemplatesInv'
<1>1. PICK q \in TemplateCallDocs : q = templateCalls[c] /\ TemplateCallFits(q) /\ TemplateCallKnows(q)
  BY TemplateCallFacts
<1>2. lastTemplate' \in Nat
  BY DEF WriteTemplate, TemplatesInv, TemplateTypes
<1>3. PICK f : f = Fails(q)
  OBVIOUS
<1>4. /\ f \in TemplateCallDocs /\ TemplateCallFits(f) /\ f.phase = "ended"
      /\ ~f.disturbed => ~q.disturbed /\ f.does = q.does /\ f.before = q.before
  BY <1>1, <1>3, TemplateCallEnds
<1>5. q.phase \in {"create", "update", "delete"} => TemplateCallKnows(f)
  BY <1>1, <1>4 DEF TemplateCallKnows
<1>6. ASSUME q.phase \in {"create", "update", "delete"}, StepTo(c, f) PROVE TemplatesInv'
  BY <1>2, <1>4, <1>5, <1>6, TemplateCallMoves
<1>7. PICK asked, a : asked = Asked(q) /\ a = [q EXCEPT !.phase = "audit"]
  OBVIOUS
<1>8. /\ a \in TemplateCallDocs /\ a.phase = "audit" /\ a.previous = q.previous /\ a.does = q.does /\ a.id = q.id
      /\ a.name = q.name /\ a.body = q.body /\ a.before = q.before /\ a.disturbed = q.disturbed
  BY <1>7 DEF TemplateCallDocs
<1>9. asked.id = q.id /\ (q.phase \in {"create", "update"} => asked \in TemplateDocs)
  BY <1>1, <1>7 DEF Asked, TemplateDocs, TemplateCallFits, TemplateCallDocs
<1>10. Asked(a) = asked
  BY <1>7, <1>8 DEF Asked
<1>11. CASE q.phase = "create" /\ RepositoryCreate(c, asked, a)
  <2>1. CASE \E other \in templates : other.id = asked.id \/ other.name = asked.name
    BY <1>1, <1>3, <1>6, <1>8, <1>11, <2>1 DEF RepositoryCreate, Fails
  <2>2. CASE ~ \E other \in templates : other.id = asked.id \/ other.name = asked.name
    <3>1. Change(c, templates \cup {asked}, a)
      BY <1>11, <2>2 DEF RepositoryCreate
    <3>2. PICK set \in SUBSET TemplateDocs : set = templates \cup {asked} /\ OneOfEachID(set)
      BY <1>9, <1>11, <2>2, RepositoryWrites
    <3>3. Change(c, set, a) /\ templates' = set
      BY <3>1, <3>2 DEF Change
    <3>4. TemplateCallFits(a)
      BY <1>1, <1>8, <1>11 DEF TemplateCallFits
    <3>5. TemplateCallKnows(a)'
      BY <1>1, <1>8, <1>9, <1>10, <1>11, <2>2, <3>2, <3>3 DEF TemplateCallKnows, TemplateCallFits, WithID
    <3> QED
      BY <1>2, <1>8, <3>2, <3>3, <3>4, <3>5, TemplateCallWrites
  <2> QED
    BY <2>1, <2>2
<1>12. CASE q.phase = "update" /\ RepositoryUpdate(c, asked, a)
  <2>1. CASE TemplateOf(asked.id) = {}
    BY <1>1, <1>3, <1>6, <1>8, <1>12, <2>1 DEF RepositoryUpdate, Fails
  <2>2. CASE TemplateOf(asked.id) # {}
    <3>1. Change(c, (templates \ TemplateOf(asked.id)) \cup {asked}, a)
      BY <1>12, <2>2 DEF RepositoryUpdate
    <3>2. PICK set \in SUBSET TemplateDocs : set = (templates \ WithID(templates, q.id)) \cup {asked} /\ OneOfEachID(set)
      BY <1>9, <1>12, RepositoryWrites
    <3>3. Change(c, set, a) /\ templates' = set
      BY <1>9, <3>1, <3>2, RepositoryWrites DEF Change
    <3>4. TemplateCallFits(a)
      BY <1>1, <1>8, <1>12 DEF TemplateCallFits
    <3>5. TemplateCallKnows(a)'
      BY <1>1, <1>8, <1>9, <1>10, <1>12, <3>2, <3>3 DEF TemplateCallKnows, TemplateCallFits, WithID
    <3> QED
      BY <1>2, <1>8, <3>2, <3>3, <3>4, <3>5, TemplateCallWrites
  <2> QED
    BY <2>1, <2>2
<1>13. PICK d : d = [a EXCEPT !.previous = IF TemplateOf(q.id) = {} THEN NoTemplate
                                           ELSE CHOOSE t \in TemplateOf(q.id) : TRUE]
  OBVIOUS
<1>14. CASE q.phase = "delete" /\ RepositoryDelete(c, q.id, d)
  <2>1. CASE TemplateOf(q.id) = {}
    <3>1. StepTo(c, Fails(d))
      BY <1>14, <2>1 DEF RepositoryDelete
    <3>2. d.disturbed = q.disturbed /\ d.does = q.does /\ d.before = q.before
      BY <1>8, <1>13 DEF TemplateCallDocs
    <3>3. Fails(d) = f
      BY <1>3, <3>2 DEF Fails
    <3> QED
      BY <1>6, <1>14, <3>1, <3>3
  <2>2. CASE TemplateOf(q.id) # {}
    <3>1. PICK t : t = CHOOSE u \in TemplateOf(q.id) : TRUE
      OBVIOUS
    <3>2. t \in templates /\ t.id = q.id /\ t \in TemplateDocs
      BY <2>2, <3>1, TemplateCallFacts DEF TemplateOf
    <3>3. /\ d \in TemplateCallDocs /\ d.phase = "audit" /\ d.previous = t /\ d.does = q.does /\ d.id = q.id
          /\ d.name = q.name /\ d.body = q.body /\ d.before = q.before /\ d.disturbed = q.disturbed
      BY <1>8, <1>13, <2>2, <3>1, <3>2 DEF TemplateCallDocs
    <3>4. Change(c, templates \ TemplateOf(q.id), d)
      BY <1>14, <2>2 DEF RepositoryDelete
    <3>5. PICK set \in SUBSET TemplateDocs : set = templates \ WithID(templates, q.id) /\ OneOfEachID(set)
      BY RepositoryWrites
    <3>6. Change(c, set, d) /\ templates' = set
      BY <3>4, <3>5, RepositoryWrites DEF Change
    <3>7. TemplateCallFits(d)
      BY <1>1, <1>14, <3>2, <3>3 DEF TemplateCallFits
    <3>8. TemplateCallKnows(d)'
      BY <1>1, <1>14, <3>2, <3>3, <3>5, <3>6 DEF TemplateCallKnows, TemplateCallFits, WithID
    <3> QED
      BY <1>2, <3>3, <3>5, <3>6, <3>7, <3>8, TemplateCallWrites
  <2> QED
    BY <2>1, <2>2
<1> QED
  BY <1>1, <1>7, <1>11, <1>12, <1>13, <1>14 DEF WriteTemplate, Asked

LEMMA AuditTemplateKeeps ==
    ASSUME TemplatesInv, NEW c \in TemplateCallers, AuditTemplate(c)
    PROVE  TemplatesInv'
<1>1. PICK p : p = NoTemplateCall
  OBVIOUS
<1>2. StepTo(c, p) /\ lastTemplate' \in Nat
  BY <1>1 DEF AuditTemplate, TemplatesInv, TemplateTypes
<1> QED
  BY <1>1, <1>2, NoTemplateCallFits, TemplateCallMoves

LEMMA TemplateAuditFailsKeeps ==
    ASSUME TemplatesInv, NEW c \in TemplateCallers, TemplateAuditFails(c)
    PROVE  TemplatesInv'
<1>1. PICK q \in TemplateCallDocs : q = templateCalls[c] /\ TemplateCallFits(q) /\ TemplateCallKnows(q)
  BY TemplateCallFacts
<1>2. PICK p : p = [q EXCEPT !.phase = "undo"]
  OBVIOUS
<1>3. q.phase = "audit" /\ StepTo(c, p) /\ lastTemplate' \in Nat
  BY <1>1, <1>2 DEF TemplateAuditFails, TemplatesInv, TemplateTypes
<1>4. /\ p \in TemplateCallDocs /\ p.phase = "undo" /\ p.previous = q.previous /\ p.does = q.does /\ p.id = q.id
      /\ p.name = q.name /\ p.body = q.body /\ p.before = q.before /\ p.disturbed = q.disturbed
  BY <1>2 DEF TemplateCallDocs
<1>5. TemplateCallFits(p) /\ TemplateCallKnows(p)
  BY <1>1, <1>3, <1>4 DEF TemplateCallFits, TemplateCallKnows, Asked
<1> QED
  BY <1>3, <1>4, <1>5, TemplateCallMoves

LEMMA UndoTemplateKeeps ==
    ASSUME TemplatesInv, NEW c \in TemplateCallers, UndoTemplate(c)
    PROVE  TemplatesInv'
<1>1. PICK q \in TemplateCallDocs : q = templateCalls[c] /\ TemplateCallFits(q) /\ TemplateCallKnows(q)
  BY TemplateCallFacts
<1>2. q.phase = "undo" /\ lastTemplate' \in Nat /\ q.does \in {"create", "update", "delete"}
  BY <1>1 DEF UndoTemplate, TemplatesInv, TemplateTypes, TemplateCallFits, TemplateCallDocs
<1>3. PICK f : f = Fails(q)
  OBVIOUS
<1>4. /\ f \in TemplateCallDocs /\ TemplateCallFits(f) /\ f.phase = "ended"
      /\ ~f.disturbed => ~q.disturbed /\ f.does = q.does /\ f.before = q.before
  BY <1>1, <1>3, TemplateCallEnds
<1>5. OneOfEachID(q.before)
  BY <1>1 DEF TemplateCallFits
<1>6. CASE q.does = "create"
  <2>1. RepositoryDelete(c, q.id, f)
    BY <1>1, <1>3, <1>6 DEF UndoTemplate
  <2>2. ~q.disturbed => templates = q.before \cup {Asked(q)} /\ WithID(q.before, q.id) = {}
    BY <1>1, <1>2, <1>6 DEF TemplateCallKnows
  <2>3. Asked(q).id = q.id
    BY DEF Asked
  <2>4. CASE TemplateOf(q.id) = {}
    <3>1. q.disturbed
      BY <2>2, <2>3, <2>4 DEF TemplateOf
    <3>2. Fails(f) = NoTemplateCall
      BY <1>3, <3>1 DEF Fails, NoTemplateCall
    <3>3. PICK p : p = NoTemplateCall
      OBVIOUS
    <3>4. StepTo(c, p)
      BY <2>1, <2>4, <3>2, <3>3 DEF RepositoryDelete
    <3> QED
      BY <1>2, <3>3, <3>4, NoTemplateCallFits, TemplateCallMoves
  <2>5. CASE TemplateOf(q.id) # {}
    <3>1. PICK set \in SUBSET TemplateDocs : set = templates \ WithID(templates, q.id) /\ OneOfEachID(set)
      BY RepositoryWrites
    <3>2. Change(c, set, f) /\ templates' = set
      BY <2>1, <2>5, <3>1, RepositoryWrites DEF RepositoryDelete, Change
    <3>3. ~q.disturbed => set = q.before
      BY <2>2, <2>3, <3>1 DEF WithID
    <3>4. TemplateCallKnows(f)'
      BY <1>4, <3>2, <3>3 DEF TemplateCallKnows
    <3> QED
      BY <1>2, <1>4, <3>1, <3>2, <3>4, TemplateCallWrites
  <2> QED
    BY <2>4, <2>5
<1>7. CASE q.does = "update"
  <2>1. RepositoryUpdate(c, q.previous, f)
    BY <1>1, <1>3, <1>7 DEF UndoTemplate
  <2>2. q.previous \in TemplateDocs /\ q.previous.id = q.id
    BY <1>1, <1>2, <1>7 DEF TemplateCallFits
  <2>3. ~q.disturbed => /\ q.previous \in q.before
                        /\ templates = (q.before \ WithID(q.before, q.id)) \cup {Asked(q)}
    BY <1>1, <1>2, <1>7 DEF TemplateCallKnows
  <2>4. Asked(q).id = q.id
    BY DEF Asked
  <2>5. CASE TemplateOf(q.id) = {}
    <3>1. q.disturbed
      BY <2>3, <2>4, <2>5 DEF TemplateOf
    <3>2. Fails(f) = NoTemplateCall
      BY <1>3, <3>1 DEF Fails, NoTemplateCall
    <3>3. PICK p : p = NoTemplateCall
      OBVIOUS
    <3>4. StepTo(c, p)
      BY <2>1, <2>2, <2>5, <3>2, <3>3 DEF RepositoryUpdate
    <3> QED
      BY <1>2, <3>3, <3>4, NoTemplateCallFits, TemplateCallMoves
  <2>6. CASE TemplateOf(q.id) # {}
    <3>1. PICK set \in SUBSET TemplateDocs :
              set = (templates \ WithID(templates, q.id)) \cup {q.previous} /\ OneOfEachID(set)
      BY <2>2, RepositoryWrites
    <3>2. Change(c, set, f) /\ templates' = set
      BY <2>1, <2>2, <2>6, <3>1, RepositoryWrites DEF RepositoryUpdate, Change
    <3>3. ~q.disturbed => set = q.before
      BY <1>5, <2>2, <2>3, <2>4, <3>1 DEF WithID, OneOfEachID
    <3>4. TemplateCallKnows(f)'
      BY <1>4, <3>2, <3>3 DEF TemplateCallKnows
    <3> QED
      BY <1>2, <1>4, <3>1, <3>2, <3>4, TemplateCallWrites
  <2> QED
    BY <2>5, <2>6
<1>8. CASE q.does = "delete"
  <2>1. RepositoryCreate(c, q.previous, f)
    BY <1>1, <1>3, <1>8 DEF UndoTemplate
  <2>2. q.previous \in TemplateDocs /\ q.previous.id = q.id
    BY <1>1, <1>2, <1>8 DEF TemplateCallFits
  <2>3. ~q.disturbed => q.previous \in q.before /\ templates = q.before \ WithID(q.before, q.id)
    BY <1>1, <1>2, <1>8 DEF TemplateCallKnows
  <2>4. CASE \E other \in templates : other.id = q.previous.id \/ other.name = q.previous.name
    <3>1. PICK p : p = Fails(f)
      OBVIOUS
    <3>2. StepTo(c, p)
      BY <2>1, <2>4, <3>1 DEF RepositoryCreate
    <3>3. /\ p \in TemplateCallDocs /\ TemplateCallFits(p) /\ p.phase = "ended"
          /\ ~p.disturbed => ~f.disturbed /\ p.does = f.does /\ p.before = f.before
      BY <1>4, <3>1, TemplateCallEnds
    <3>4. PICK other \in templates : other.id = q.previous.id \/ other.name = q.previous.name
      BY <2>4
    <3>5. ~q.disturbed => templates \subseteq q.before /\ other \in q.before /\ other.id # q.previous.id
      BY <2>2, <2>3 DEF WithID
    <3>6. TemplateCallKnows(p)
      BY <1>4, <1>8, <2>3, <3>3, <3>4, <3>5 DEF TemplateCallKnows
    <3> QED
      BY <1>2, <3>2, <3>3, <3>6, TemplateCallMoves
  <2>5. CASE ~ \E other \in templates : other.id = q.previous.id \/ other.name = q.previous.name
    <3>1. PICK set \in SUBSET TemplateDocs : set = templates \cup {q.previous} /\ OneOfEachID(set)
      BY <2>2, <2>5, RepositoryWrites
    <3>2. Change(c, set, f) /\ templates' = set
      BY <2>1, <2>5, <3>1 DEF RepositoryCreate, Change
    <3>3. ~q.disturbed => set = q.before
      BY <1>5, <2>2, <2>3, <3>1 DEF WithID, OneOfEachID
    <3>4. TemplateCallKnows(f)'
      BY <1>4, <3>2, <3>3 DEF TemplateCallKnows
    <3> QED
      BY <1>2, <1>4, <3>1, <3>2, <3>4, TemplateCallWrites
  <2> QED
    BY <2>4, <2>5
<1> QED
  BY <1>2, <1>6, <1>7, <1>8

LEMMA TemplatesRestart ==
    ASSUME templates' = {}, lastTemplate' = 0, templateCalls' = [c \in TemplateCallers |-> NoTemplateCall]
    PROVE  TemplatesInv'
<1>1. PICK p : p = NoTemplateCall
  OBVIOUS
<1>2. p \in TemplateCallDocs /\ TemplateCallFits(p)' /\ TemplateCallKnows(p)'
  BY <1>1, NoTemplateCallFits DEF TemplateCallFits
<1>3. \A c \in TemplateCallers : templateCalls'[c] = p
  BY <1>1
<1>4. TemplateTypes' /\ OneOfEachID(templates)'
  BY <1>1, <1>2 DEF TemplateTypes, OneOfEachID
<1>5. ASSUME NEW c \in TemplateCallers
      PROVE  TemplateCallFits(templateCalls[c])' /\ TemplateCallKnows(templateCalls[c])'
  BY <1>2, <1>3
<1> QED
  BY <1>4, <1>5 DEF TemplatesInv

LEMMA TemplatesStep == TemplatesInv /\ [TemplatesNext]_templateVars => TemplatesInv'
<1> SUFFICES ASSUME TemplatesInv, [TemplatesNext]_templateVars PROVE TemplatesInv'
  OBVIOUS
<1>1. ASSUME NEW c \in TemplateCallers, NEW name \in TemplateNames, NEW body \in TemplateBodies,
             CreateTemplate(c, name, body)
      PROVE  TemplatesInv'
  BY <1>1, CreateTemplateKeeps
<1>2. ASSUME NEW c \in TemplateCallers, NEW name \in TemplateNames, NEW body \in TemplateBodies,
             NEW id \in 1 .. lastTemplate, UpdateTemplate(c, id, name, body)
      PROVE  TemplatesInv'
  BY <1>2, UpdateTemplateKeeps
<1>3. ASSUME NEW c \in TemplateCallers, NEW id \in 1 .. lastTemplate, DeleteTemplate(c, id)
      PROVE  TemplatesInv'
  BY <1>3, DeleteTemplateKeeps
<1>4. ASSUME NEW c \in TemplateCallers, NEW id \in 1 .. lastTemplate, NEW values \in Substitutions,
             RenderTemplate(c, id, values)
      PROVE  TemplatesInv'
  BY <1>4, RenderKeeps
<1>5. ASSUME NEW c \in TemplateCallers, GetPrevious(c) \/ WriteTemplate(c)
      PROVE  TemplatesInv'
  BY <1>5, GetPreviousKeeps, WriteTemplateKeeps
<1>6. ASSUME NEW c \in TemplateCallers, AuditTemplate(c) \/ TemplateAuditFails(c) \/ UndoTemplate(c)
      PROVE  TemplatesInv'
  BY <1>6, AuditTemplateKeeps, TemplateAuditFailsKeeps, UndoTemplateKeeps
<1>7. CASE RestartForgetsTemplates
  BY <1>7, TemplatesRestart DEF RestartForgetsTemplates
<1>8. CASE UNCHANGED templateVars
  <2>1. UNCHANGED <<templates, lastTemplate, templateCalls>>
    BY <1>8 DEF templateVars
  <2>2. TemplateTypes' /\ OneOfEachID(templates)'
    BY <2>1 DEF TemplatesInv, TemplateTypes, OneOfEachID
  <2>3. \A q : TemplateCallFits(q) /\ TemplateCallKnows(q) => TemplateCallFits(q)' /\ TemplateCallKnows(q)'
    BY <2>1 DEF TemplateCallFits, TemplateCallKnows
  <2> QED
    BY <2>1, <2>2, <2>3 DEF TemplatesInv
<1> QED
  BY <1>1, <1>2, <1>3, <1>4, <1>5, <1>6, <1>7, <1>8 DEF TemplatesNext

LEMMA TemplatesStart == TemplatesInit => TemplatesInv
<1> SUFFICES ASSUME TemplatesInit PROVE TemplatesInv
  OBVIOUS
<1>1. PICK p : p = NoTemplateCall
  OBVIOUS
<1>2. p \in TemplateCallDocs /\ TemplateCallFits(p) /\ TemplateCallKnows(p)
  BY <1>1, NoTemplateCallFits
<1>3. TemplateTypes /\ OneOfEachID(templates)
  BY <1>1, <1>2 DEF TemplatesInit, TemplateTypes, OneOfEachID
<1>4. ASSUME NEW c \in TemplateCallers
      PROVE  TemplateCallFits(templateCalls[c]) /\ TemplateCallKnows(templateCalls[c])
  BY <1>1, <1>2 DEF TemplatesInit
<1> QED
  BY <1>3, <1>4 DEF TemplatesInv

(******************************************************************************)
(* For any callers, templates and overlapping calls: a call that ended        *)
(* without an audit event, and met no other writer, has left the templates as *)
(* they were, except for a deleted template that had a namesake.              *)
(******************************************************************************)
THEOREM TemplatesAreKept == TemplatesSpec => []UnrecordedLeavesTemplates
<1>1. TemplatesInv => UnrecordedLeavesTemplates
  BY DEF TemplatesInv, TemplateCallKnows, UnrecordedLeavesTemplates
<1> QED
  BY <1>1, TemplatesStart, TemplatesStep, PTL DEF TemplatesSpec

-------------------------------------------------------------------------------
(*******************************************************************************)
(* Collector sources.  What was looked up of the service's group stays right   *)
(* until the service is moved; what was looked up of a rule, until the rule is *)
(* replaced.                                                                   *)
(*******************************************************************************)
GroupsOfPatches == ConfigGroups \cup {ConfigService}

EnrichmentPatches == {BuildEnrichmentPatch(group) : group \in GroupsOfPatches}

\* What a call that has looked up a group is to write.
SourceCallFits(q) ==
    /\ q.phase = "enrich" => q.patch \in EnrichmentPatches
    /\ q.phase = "rule" => /\ q = [phase |-> "rule", fresh |-> q.fresh, saved |-> q.saved]
                           /\ q.fresh \in BOOLEAN
                           /\ q.fresh => q.saved.group = GroupOfPatch
    /\ q.phase = "pipeline" => /\ q = [phase |-> "pipeline", patch |-> q.patch, fresh |-> q.fresh]
                               /\ q.fresh \in BOOLEAN
                               /\ q.fresh => q.patch.group = GroupOfPatch /\ follows # "no"

SourcesInv ==
    /\ enrichment \in EnrichmentPatches \cup {Absent}
    /\ sourceCalls = [c \in SourceCallers |-> sourceCalls[c]]
    /\ \A c \in SourceCallers : SourceCallFits(sourceCalls[c])
    /\ follows \in {"no", "rule", "pipeline"}
    /\ follows # "no" => parserRule.group = GroupOfPatch
    /\ follows = "pipeline" => pipelinePatch.group = GroupOfPatch

\* The group of a patch is the one it was built for, and a service has one at any time.
LEMMA GroupsAreLookedUp ==
    ASSUME SourcesInv
    PROVE  /\ GroupOfPatch \in GroupsOfPatches
           /\ \A group \in GroupsOfPatches : BuildEnrichmentPatch(group).group = group
           /\ \A p \in EnrichmentPatches : p # Absent
BY SourcesAssumption DEF SourcesInv, GroupOfPatch, GroupsOfPatches, EnrichmentPatches, BuildEnrichmentPatch

\* A call that looks something up, or ends without writing, disturbs nobody.
LEMMA ReadingsKeepSources ==
    ASSUME SourcesInv, NEW c \in SourceCallers, NEW q, SourceStep(c, q), SourceCallFits(q),
           UNCHANGED <<enrichment, parserRule, pipelinePatch, follows>>
    PROVE  SourcesInv'
<1>1. GroupOfPatch' = GroupOfPatch
  BY DEF GroupOfPatch
<1>2. sourceCalls' = [d \in SourceCallers |-> IF d = c THEN q ELSE sourceCalls[d]]
  BY DEF SourceStep, SourcesInv
<1>3. \A d \in SourceCallers : SourceCallFits(sourceCalls'[d])
  BY <1>2 DEF SourcesInv
<1>4. \A d \in SourceCallers : SourceCallFits(sourceCalls[d])'
  BY <1>1, <1>3 DEF SourceCallFits
<1> QED
  BY <1>1, <1>2, <1>4 DEF SourcesInv

LEMMA SourcesInitHolds == SourcesInit => SourcesInv
BY DEF SourcesInit, SourcesInv, SourceCallFits, NoSourceCall

\* A service is enriched where it is bound, or where it was.
LEMMA EnrichingKeepsSources ==
    ASSUME SourcesInv, NEW c \in SourceCallers,
           \/ \E group \in ConfigGroups : BindServiceToCollectorGroup(c, group)
           \/ RegenerateReadsService(c)
           \/ RegenerateEnrichmentPatch(c)
    PROVE  SourcesInv'
<1>1. CASE \E group \in ConfigGroups : BindServiceToCollectorGroup(c, group)
  <2>1. PICK group \in ConfigGroups : BindServiceToCollectorGroup(c, group)
    BY <1>1
  <2>2. SourceCallFits([phase |-> "enrich", patch |-> BuildEnrichmentPatch(group)])
    BY DEF SourceCallFits, EnrichmentPatches, GroupsOfPatches
  <2> QED
    BY <2>1, <2>2, ReadingsKeepSources DEF BindServiceToCollectorGroup, Documents
<1>2. CASE RegenerateReadsService(c)
  <2>1. SourceCallFits([phase |-> "existing"])
    BY DEF SourceCallFits
  <2> QED
    BY <1>2, <2>1, ReadingsKeepSources DEF RegenerateReadsService, Documents
<1>3. CASE RegenerateEnrichmentPatch(c)
  <2>1. SourceCallFits([phase |-> "enrich", patch |-> BuildEnrichmentPatch(GroupOfPatch)])
    BY GroupsAreLookedUp DEF SourceCallFits, EnrichmentPatches
  <2> QED
    BY <1>3, <2>1, ReadingsKeepSources DEF RegenerateEnrichmentPatch, Documents
<1> QED
  BY <1>1, <1>2, <1>3

\* A patch of the same group moves nothing; one of another makes what was looked up stale.
LEMMA UpsertEnrichmentKeepsSources ==
    ASSUME SourcesInv, NEW c \in SourceCallers, UpsertEnrichmentPatch(c)
    PROVE  SourcesInv'
<1> DEFINE patch == sourceCalls[c].patch
<1>1. patch \in EnrichmentPatches /\ enrichment' = patch /\ UNCHANGED <<parserRule, pipelinePatch>>
  BY DEF UpsertEnrichmentPatch, SourcesInv, SourceCallFits
<1>2. GroupOfPatch' = patch.group
  BY <1>1, GroupsAreLookedUp DEF GroupOfPatch
<1>3. CASE patch.group = GroupOfPatch
  <2>1. SourceStep(c, NoSourceCall) /\ UNCHANGED follows
    BY <1>1, <1>3 DEF UpsertEnrichmentPatch
  <2>2. sourceCalls' = [d \in SourceCallers |-> IF d = c THEN NoSourceCall ELSE sourceCalls[d]]
    BY <2>1 DEF SourceStep, SourcesInv
  <2>3. SourceCallFits(NoSourceCall)
    BY DEF SourceCallFits, NoSourceCall
  <2>4. \A d \in SourceCallers : SourceCallFits(sourceCalls'[d])
    BY <2>2, <2>3 DEF SourcesInv
  <2>5. \A d \in SourceCallers : SourceCallFits(sourceCalls[d])'
    BY <1>2, <1>3, <2>1, <2>4 DEF SourceCallFits
  <2> QED
    BY <1>1, <1>2, <1>3, <2>1, <2>2, <2>5 DEF SourcesInv
<1>4. CASE patch.group # GroupOfPatch
  <2>1. follows' = "no"
    BY <1>1, <1>4 DEF UpsertEnrichmentPatch
  <2>2. sourceCalls' = [d \in SourceCallers |->
                  CASE d = c -> NoSourceCall
                    [] d # c /\ sourceCalls[d].phase \in {"rule", "pipeline"} ->
                           [sourceCalls[d] EXCEPT !.fresh = FALSE]
                    [] OTHER -> sourceCalls[d]]
    BY <1>1, <1>4 DEF UpsertEnrichmentPatch
  <2>3. ASSUME NEW d \in SourceCallers PROVE SourceCallFits(sourceCalls[d])'
    <3> DEFINE q == sourceCalls[d]
    <3>1. SourceCallFits(q)
      BY DEF SourcesInv
    <3>2. CASE d = c
      BY <2>2, <3>2 DEF SourceCallFits, NoSourceCall
    <3>3. CASE d # c /\ q.phase = "rule"
      <4>1. sourceCalls'[d] = [phase |-> "rule", fresh |-> FALSE, saved |-> q.saved]
        BY <2>2, <3>1, <3>3 DEF SourceCallFits
      <4> QED
        BY <4>1 DEF SourceCallFits
    <3>4. CASE d # c /\ q.phase = "pipeline"
      <4>1. sourceCalls'[d] = [phase |-> "pipeline", patch |-> q.patch, fresh |-> FALSE]
        BY <2>2, <3>1, <3>4 DEF SourceCallFits
      <4> QED
        BY <4>1 DEF SourceCallFits
    <3>5. CASE d # c /\ q.phase \notin {"rule", "pipeline"}
      <4>1. sourceCalls'[d] = q
        BY <2>2, <3>5
      <4> QED
        BY <3>1, <3>5, <4>1 DEF SourceCallFits
    <3> QED
      BY <3>2, <3>3, <3>4, <3>5
  <2> QED
    BY <1>1, <2>1, <2>2, <2>3 DEF SourcesInv
<1> QED
  BY <1>3, <1>4

\* A rule goes where its request says, or where the service is.
LEMMA RuleReadsKeepSources ==
    ASSUME SourcesInv, NEW c \in SourceCallers, NEW rule, NEW group,
           UpsertParserRuleReads(c, rule, group)
    PROVE  SourcesInv'
<1> DEFINE q == [phase |-> "rule", fresh |-> group = Absent,
                 saved |-> [group |-> IF group = Absent THEN GroupOfPatch ELSE group, rule |-> rule]]
<1>1. SourceCallFits(q)
  BY DEF SourceCallFits
<1>2. SourceStep(c, q) /\ UNCHANGED <<enrichment, parserRule, pipelinePatch, follows>>
  BY DEF UpsertParserRuleReads, Documents
<1> HIDE DEF q
<1> QED
  BY <1>1, <1>2, ReadingsKeepSources

\* A new rule makes what was read of the old one stale.
LEMMA UpsertRuleKeepsSources ==
    ASSUME SourcesInv, NEW c \in SourceCallers, UpsertParserRule(c)
    PROVE  SourcesInv'
<1> DEFINE p == sourceCalls[c]
<1>1. /\ p.phase = "rule" /\ SourceCallFits(p)
      /\ parserRule' = p.saved
      /\ follows' = IF p.fresh THEN "rule" ELSE "no"
      /\ UNCHANGED <<enrichment, pipelinePatch>>
      /\ sourceCalls' = [d \in SourceCallers |->
             CASE d = c -> NoSourceCall
               [] d # c /\ sourceCalls[d].phase = "pipeline" -> [sourceCalls[d] EXCEPT !.fresh = FALSE]
               [] OTHER -> sourceCalls[d]]
  BY DEF UpsertParserRule, SourcesInv
<1>2. GroupOfPatch' = GroupOfPatch
  BY <1>1 DEF GroupOfPatch
<1>3. follows' \in {"no", "rule"} /\ (follows' # "no" => parserRule'.group = GroupOfPatch)
  BY <1>1 DEF SourceCallFits
<1>4. ASSUME NEW d \in SourceCallers PROVE SourceCallFits(sourceCalls[d])'
  <2> DEFINE q == sourceCalls[d]
  <2>1. SourceCallFits(q)
    BY DEF SourcesInv
  <2>2. CASE d = c
    BY <1>1, <2>2 DEF SourceCallFits, NoSourceCall
  <2>3. CASE d # c /\ q.phase = "pipeline"
    <3>1. sourceCalls'[d] = [phase |-> "pipeline", patch |-> q.patch, fresh |-> FALSE]
      BY <1>1, <2>1, <2>3 DEF SourceCallFits
    <3> QED
      BY <3>1 DEF SourceCallFits
  <2>4. CASE d # c /\ q.phase # "pipeline"
    <3>1. sourceCalls'[d] = q
      BY <1>1, <2>4
    <3> QED
      BY <1>2, <2>1, <2>4, <3>1 DEF SourceCallFits
  <2> QED
    BY <2>2, <2>3, <2>4
<1> QED
  BY <1>1, <1>2, <1>3, <1>4 DEF SourcesInv

\* A pipeline patch is generated from the rule that is stored, and written as it was read.
LEMMA GeneratingKeepsSources ==
    ASSUME SourcesInv, NEW c \in SourceCallers, GetParserRule(c) \/ GeneratePipelinePatch(c)
    PROVE  SourcesInv'
<1>1. CASE GetParserRule(c)
  <2> DEFINE q == [phase |-> "pipeline", patch |-> BuildPipelinePatch(parserRule), fresh |-> follows # "no"]
  <2>1. SourceCallFits(q)
    <3>1. BuildPipelinePatch(parserRule).group = parserRule.group
      BY DEF BuildPipelinePatch
    <3>2. follows # "no" => parserRule.group = GroupOfPatch
      BY DEF SourcesInv
    <3>3. q.phase = "pipeline" /\ q.fresh = (follows # "no") /\ q.patch = BuildPipelinePatch(parserRule)
      OBVIOUS
    <3> QED
      BY <3>1, <3>2, <3>3 DEF SourceCallFits
  <2>2. SourceStep(c, q) /\ UNCHANGED <<enrichment, parserRule, pipelinePatch, follows>>
    BY <1>1 DEF GetParserRule, Documents
  <2> HIDE DEF q
  <2> QED
    BY <2>1, <2>2, ReadingsKeepSources
<1>2. CASE GeneratePipelinePatch(c)
  <2> DEFINE p == sourceCalls[c]
  <2>1. /\ p.phase = "pipeline" /\ SourceCallFits(p)
        /\ pipelinePatch' = p.patch
        /\ follows' = IF p.fresh THEN "pipeline" ELSE IF follows = "pipeline" THEN "rule" ELSE follows
        /\ UNCHANGED <<enrichment, parserRule>>
        /\ SourceStep(c, NoSourceCall)
    BY <1>2 DEF GeneratePipelinePatch, SourcesInv
  <2>2. GroupOfPatch' = GroupOfPatch
    BY <2>1 DEF GroupOfPatch
  <2>3. sourceCalls' = [d \in SourceCallers |-> IF d = c THEN NoSourceCall ELSE sourceCalls[d]]
    BY <2>1 DEF SourceStep, SourcesInv
  <2>4. \A d \in SourceCallers : SourceCallFits(sourceCalls'[d])
    BY <2>3 DEF SourcesInv, SourceCallFits, NoSourceCall
  <2>5. follows # "no" => follows' # "no"
    BY <2>1 DEF SourceCallFits
  <2>6. \A d \in SourceCallers : SourceCallFits(sourceCalls[d])'
    BY <2>2, <2>4, <2>5 DEF SourceCallFits
  <2>7. /\ follows' \in {"no", "rule", "pipeline"}
        /\ follows' # "no" => parserRule'.group = GroupOfPatch
        /\ follows' = "pipeline" => pipelinePatch'.group = GroupOfPatch
    BY <2>1 DEF SourceCallFits, SourcesInv
  <2> QED
    BY <2>1, <2>2, <2>3, <2>6, <2>7 DEF SourcesInv
<1> QED
  BY <1>1, <1>2

\* The other calls read, answer, or write the base.
LEMMA OthersKeepSources ==
    ASSUME SourcesInv, NEW c \in SourceCallers,
           \/ \E document \in BaseDocuments : UpsertServiceBaseReads(c, document)
           \/ UpsertServiceBaseConfig(c)
           \/ \E group \in ConfigGroups : ConfigSourcesReads(c, group)
           \/ ConfigSources(c) \/ ServiceConfigReads(c) \/ ServiceConfigSources(c)
           \/ SourceCallFails(c)
    PROVE  SourcesInv'
<1>1. PICK q : /\ sourceCalls' = [sourceCalls EXCEPT ![c] = q]
               /\ q.phase \in {"base", "group", "service", "ended"}
               /\ UNCHANGED <<enrichment, parserRule, pipelinePatch, follows>>
  BY DEF UpsertServiceBaseReads, UpsertServiceBaseConfig, ConfigSourcesReads, ConfigSources,
         ServiceConfigReads, ServiceConfigSources, SourceCallFails, SourceStep, Answer,
         Documents, NoSourceCall
<1>2. SourceCallFits(q)
  BY <1>1 DEF SourceCallFits
<1>3. sourceCalls' = [d \in SourceCallers |-> IF d = c THEN q ELSE sourceCalls[d]]
  BY <1>1 DEF SourcesInv
<1>4. \A d \in SourceCallers : SourceCallFits(sourceCalls'[d])
  BY <1>2, <1>3 DEF SourcesInv
<1>5. GroupOfPatch' = GroupOfPatch
  BY <1>1 DEF GroupOfPatch
<1>6. \A d \in SourceCallers : SourceCallFits(sourceCalls[d])'
  BY <1>1, <1>4, <1>5 DEF SourceCallFits
<1> QED
  BY <1>1, <1>3, <1>5, <1>6 DEF SourcesInv

LEMMA SourcesStepsKeep == SourcesInv /\ [SourcesNext]_sourceVars => SourcesInv'
<1> SUFFICES ASSUME SourcesInv, [SourcesNext]_sourceVars PROVE SourcesInv'
  OBVIOUS
<1>1. CASE UNCHANGED <<enrichment, parserRule, pipelinePatch, sourceCalls, follows>>
  BY <1>1 DEF SourcesInv, SourceCallFits, GroupOfPatch
<1>2. CASE \E rule \in ParserRules : PreviewParserRule(rule)
  BY <1>1, <1>2 DEF PreviewParserRule, Documents
<1>3. CASE \E c \in SourceCallers :
              \/ \E group \in ConfigGroups : BindServiceToCollectorGroup(c, group)
              \/ RegenerateReadsService(c)
              \/ RegenerateEnrichmentPatch(c)
  BY <1>3, EnrichingKeepsSources
<1>4. CASE \E c \in SourceCallers : UpsertEnrichmentPatch(c) \/ UpsertParserRule(c)
  BY <1>4, UpsertEnrichmentKeepsSources, UpsertRuleKeepsSources
<1>5. CASE \E c \in SourceCallers : \E rule \in ParserRules, group \in ConfigGroups \cup {Absent} :
              UpsertParserRuleReads(c, rule, group)
  BY <1>5, RuleReadsKeepSources
<1>6. CASE \E c \in SourceCallers : GetParserRule(c) \/ GeneratePipelinePatch(c)
  BY <1>6, GeneratingKeepsSources
<1>7. CASE \E c \in SourceCallers :
              \/ \E document \in BaseDocuments : UpsertServiceBaseReads(c, document)
              \/ UpsertServiceBaseConfig(c)
              \/ \E group \in ConfigGroups : ConfigSourcesReads(c, group)
              \/ ConfigSources(c) \/ ServiceConfigReads(c) \/ ServiceConfigSources(c)
              \/ SourceCallFails(c)
  BY <1>7, OthersKeepSources
<1>8. CASE UNCHANGED sourceVars
  BY <1>1, <1>8 DEF sourceVars
<1> QED
  BY <1>2, <1>3, <1>4, <1>5, <1>6, <1>7, <1>8 DEF SourcesNext

\* For any services, groups and rules, however bindings, saves and generations overlap: a
\* pipeline patch generated from a rule that was saved without naming a group, when neither the
\* service was moved nor the rule replaced since the group was looked up, is rendered into the
\* group of the service's enrichment (internal/collectorconfig/service.go).
THEOREM ParserStaysWithService == SourcesSpec => []ParserFollowsService
<1>1. SourcesInv => ParserFollowsService
  BY DEF SourcesInv, ParserFollowsService
<1> QED
  BY <1>1, SourcesInitHolds, SourcesStepsKeep, PTL DEF SourcesSpec

-------------------------------------------------------------------------------
(*****************************************************************************)
(* Folds.  The folds of the library are functions on sets of numbers,        *)
(* chosen among those that satisfy an equation; there is one when a step     *)
(* does not leave a set of values.                                           *)
(*****************************************************************************)
\* Induction up to a number, without an operator.
LEMMA UpToInduction ==
    ASSUME NEW n \in Nat, NEW Q \in SUBSET (0..n), 0 \in Q, \A i \in Q : i < n => i + 1 \in Q
    PROVE  Q = 0..n
<1>1. SUFFICES ASSUME NEW m \in (0..n) \ Q PROVE FALSE
  OBVIOUS
<1>2. PICK least \in (0..n) \ Q : \A j \in (0..n) \ Q : <<j, least>> \notin OpToRel(<, Nat)
  <2>1. (0..n) \ Q \subseteq Nat /\ (0..n) \ Q # {}
    OBVIOUS
  <2> QED BY <2>1, NatLessThanWellFounded, WFMin
<1>3. least - 1 \in 0..n /\ least - 1 < least
  OBVIOUS
<1>4. <<least - 1, least>> \in OpToRel(<, Nat)
  BY <1>3 DEF OpToRel
<1>5. least - 1 \in Q
  BY <1>2, <1>3, <1>4
<1> QED BY <1>5

\* The folds take the largest number first: what is left of an interval is the shorter one.
LEMMA LargestIsLast ==
    \A i \in Nat \ {0} : Max(1..i) = i /\ (1..i) \ {i} = 1..(i - 1)
<1> SUFFICES ASSUME NEW i \in Nat \ {0} PROVE Max(1..i) = i /\ (1..i) \ {i} = 1..(i - 1)
  OBVIOUS
<1>1. i \in 1..i /\ \A y \in 1..i : i >= y
  OBVIOUS
<1>2. \A x \in 1..i : (\A y \in 1..i : x >= y) => x = i
  BY <1>1
<1>3. Max(1..i) = i
  BY <1>1, <1>2 DEF Max
<1> QED BY <1>3

LEMMA LargestOfNumbers ==
    ASSUME NEW n \in Nat, NEW s \in SUBSET (1..n), n \in s
    PROVE  Max(s) = n
<1>1. \A y \in s : n >= y
  OBVIOUS
<1>2. \A x \in s : (\A y \in s : x >= y) => x = n
  BY <1>1
<1> QED BY <1>1, <1>2 DEF Max

LEMMA SomeLargest ==
    ASSUME NEW n \in Nat, NEW s \in SUBSET (1..n), s # {}
    PROVE  Max(s) \in s
<1> DEFINE Holds(i) == \A t \in SUBSET (1..i) : t # {} => \E x \in t : \A y \in t : x >= y
           Q == {i \in 0..n : Holds(i)}
<1>1. Holds(0)
  <2>1. \A t \in SUBSET (1..0) : t = {}
    OBVIOUS
  <2> QED BY <2>1
<1>2. ASSUME NEW i \in 0..n, Holds(i) PROVE Holds(i + 1)
  <2> SUFFICES ASSUME NEW t \in SUBSET (1..(i + 1)), t # {} PROVE \E x \in t : \A y \in t : x >= y
    OBVIOUS
  <2>1. CASE i + 1 \in t
    BY <2>1
  <2>2. CASE i + 1 \notin t
    <3>1. t \in SUBSET (1..i)
      BY <2>2
    <3> QED BY <1>2, <3>1
  <2> QED BY <2>1, <2>2
<1>3. n \in Q
  <2> HIDE DEF Holds
  <2>1. 0 \in Q /\ \A i \in Q : i < n => i + 1 \in Q
    BY <1>1, <1>2
  <2>2. Q \in SUBSET (0..n)
    OBVIOUS
  <2> HIDE DEF Q
  <2> QED BY <2>1, <2>2, UpToInduction
<1>4. Holds(n)
  <2> HIDE DEF Holds
  <2> QED BY <1>3
<1>5. \E x \in s : \A y \in s : x >= y
  BY <1>4
<1> QED BY <1>5 DEF Max

LEMMA Prefix ==
    ASSUME NEW n \in Nat, NEW i \in 1..n
    PROVE  /\ 1..i \in SUBSET (1..n) /\ 1..i # {}
           /\ Max(1..i) = i /\ (1..i) \ {i} = 1..(i - 1)
<1>1. 1..i \subseteq 1..n /\ i \in 1..i /\ i \in Nat \ {0}
  OBVIOUS
<1> QED BY <1>1, LargestIsLast

\* A function on the subsets of 1..n that takes the largest number first, as the folds do.
Folds(f, n, base, step) ==
    \A s \in SUBSET (1..n) :
        f[s] = IF s = {} THEN base ELSE step[<<f[s \ {Max(s)}], Max(s)>>]

\* There is one when a step never leaves a set of values.
LEMMA FoldExists ==
    ASSUME NEW n \in Nat, NEW X, NEW base \in X, NEW step \in [X \X (1..n) -> X]
    PROVE  \E f \in [SUBSET (1..n) -> X] : Folds(f, n, base, step)
<1> DEFINE Solves(f, i) == \A s \in SUBSET (1..i) :
                   f[s] = IF s = {} THEN base ELSE step[<<f[s \ {Max(s)}], Max(s)>>]
           Holds(i) == \E f \in [SUBSET (1..i) -> X] : Solves(f, i)
           Q == {i \in 0..n : Holds(i)}
<1>1. Holds(0)
  <2>1. [s \in SUBSET (1..0) |-> base] \in [SUBSET (1..0) -> X]
    OBVIOUS
  <2>2. Solves([s \in SUBSET (1..0) |-> base], 0)
    OBVIOUS
  <2> HIDE DEF Solves
  <2> QED BY <2>1, <2>2
<1>2. ASSUME NEW i \in 0..n, Holds(i), i < n PROVE Holds(i + 1)
  <2>1. PICK f \in [SUBSET (1..i) -> X] : Solves(f, i)
    BY <1>2
  <2> DEFINE g == [s \in SUBSET (1..(i + 1)) |->
                     IF i + 1 \in s THEN step[<<f[s \ {i + 1}], i + 1>>] ELSE f[s]]
  <2>2. \A s \in SUBSET (1..(i + 1)) : s \ {i + 1} \in SUBSET (1..i)
    OBVIOUS
  <2>3. i + 1 \in 1..n
    BY <1>2
  <2>4. g \in [SUBSET (1..(i + 1)) -> X]
    <3> SUFFICES ASSUME NEW s \in SUBSET (1..(i + 1)) PROVE g[s] \in X
      OBVIOUS
    <3>1. f[s \ {i + 1}] \in X
      BY <2>1, <2>2
    <3>2. step[<<f[s \ {i + 1}], i + 1>>] \in X
      BY <3>1, <2>3
    <3>3. i + 1 \notin s => s \ {i + 1} = s
      OBVIOUS
    <3> QED BY <3>1, <3>2, <3>3
  <2>5. ASSUME NEW s \in SUBSET (1..(i + 1))
        PROVE  g[s] = IF s = {} THEN base ELSE step[<<g[s \ {Max(s)}], Max(s)>>]
    <3>1. CASE i + 1 \in s
      <4>1. Max(s) = i + 1
        BY <3>1, LargestOfNumbers
      <4>2. g[s \ {i + 1}] = f[s \ {i + 1}]
        BY <2>2
      <4> QED BY <3>1, <4>1, <4>2
    <3>2. CASE i + 1 \notin s
      <4>1. s \in SUBSET (1..i) /\ g[s] = f[s]
        BY <3>2
      <4>2. CASE s = {}
        BY <2>1, <4>1, <4>2
      <4>3. CASE s # {}
        <5>1. f[s] = step[<<f[s \ {Max(s)}], Max(s)>>]
          BY <2>1, <4>1, <4>3
        <5>2. s \ {Max(s)} \in SUBSET (1..(i + 1)) /\ i + 1 \notin s \ {Max(s)}
          BY <3>2
        <5>3. g[s \ {Max(s)}] = f[s \ {Max(s)}]
          BY <5>2
        <5> HIDE DEF g
        <5>4. g[s] = step[<<g[s \ {Max(s)}], Max(s)>>]
          BY <4>1, <5>1, <5>3
        <5> QED BY <4>3, <5>4
      <4> QED BY <4>2, <4>3
    <3> QED BY <3>1, <3>2
  <2>6. Solves(g, i + 1)
    BY <2>5
  <2> HIDE DEF Solves, g
  <2> QED BY <2>4, <2>6
<1>3. n \in Q
  <2> HIDE DEF Holds
  <2>1. 0 \in Q /\ \A i \in Q : i < n => i + 1 \in Q
    BY <1>1, <1>2
  <2>2. Q \in SUBSET (0..n)
    OBVIOUS
  <2> HIDE DEF Q
  <2> QED BY <2>1, <2>2, UpToInduction
<1>4. Holds(n)
  <2> HIDE DEF Holds
  <2> QED BY <1>3
<1> QED BY <1>4 DEF Folds

\* What the first value of a row has, and each takes over from the one before it, all have.
LEMMA AllValues ==
    ASSUME NEW n \in Nat, NEW acc, NEW X, acc[0] \in X,
           \A i \in 1..n : acc[i - 1] \in X => acc[i] \in X
    PROVE  \A i \in 0..n : acc[i] \in X
<1> DEFINE Q == {i \in 0..n : acc[i] \in X}
<1>1. 0 \in Q
  OBVIOUS
<1>2. ASSUME NEW i \in Q, i < n PROVE i + 1 \in Q
  <2>1. i + 1 \in 1..n /\ (i + 1) - 1 = i /\ acc[i] \in X
    BY <1>2
  <2> QED BY <2>1
<1>3. Q \in SUBSET (0..n)
  OBVIOUS
<1>4. Q = 0..n
  <2> HIDE DEF Q
  <2> QED BY <1>1, <1>2, <1>3, UpToInduction
<1> QED BY <1>4

LEMMA Wider ==
    ASSUME NEW S, NEW T, S \subseteq T, NEW s \in Seq(S)
    PROVE  s \in Seq(T)
<1>1. Len(s) \in Nat /\ DOMAIN s = 1 .. Len(s) /\ s \in [1 .. Len(s) -> S]
  OBVIOUS
<1>2. s \in [1 .. Len(s) -> T]
  BY <1>1
<1> QED
  BY <1>1, <1>2

-------------------------------------------------------------------------------
(*****************************************************************************)
(* Texts.  Replacing one key after the other, in any order, is one           *)
(* expansion, unless a value brings in a key.                                *)
(*****************************************************************************)
\* An expansion, token by token.
Expands(acc, text, value, X) ==
    /\ Len(text) \in Nat
    /\ acc[0] = <<>>
    /\ acc[Len(text)] = Expanded(text, value)
    /\ \A i \in 0..Len(text) : acc[i] \in Seq(X)
    /\ \A i \in 0..Len(text) : i < Len(text) =>
           acc[i + 1] = acc[i] \o value[text[i + 1]] /\ value[text[i + 1]] \in Seq(X)

LEMMA ExpandedFold ==
    ASSUME NEW T, NEW text \in Seq(T), NEW X, NEW value \in [T -> Seq(X)]
    PROVE  \E acc : Expands(acc, text, value, X)
<1> DEFINE n == Len(text)
           Solves(f) == f = [s \in SUBSET (DOMAIN text) |->
                                 IF s = {} THEN <<>> ELSE f[s \ {Max(s)}] \o value[text[Max(s)]]]
           iter == CHOOSE f : Solves(f)
           acc == [i \in 0..n |-> iter[1..i]]
<1>1. n \in Nat /\ DOMAIN text = 1..n /\ \A i \in 1..n : value[text[i]] \in Seq(X)
  OBVIOUS
<1>2. Expanded(text, value) = iter[DOMAIN text]
  BY DEF Expanded, FoldLeft, MapThenFoldSet
<1> HIDE DEF n
<1>3. Solves(iter)
  <2> DEFINE step == [p \in Seq(X) \X (1..n) |-> p[1] \o value[text[p[2]]]]
  <2>1. \A x \in Seq(X), i \in 1..n : step[<<x, i>>] = x \o value[text[i]]
    OBVIOUS
  <2>2. step \in [Seq(X) \X (1..n) -> Seq(X)] /\ <<>> \in Seq(X)
    BY <1>1
  <2> HIDE DEF step
  <2>3. PICK f \in [SUBSET (1..n) -> Seq(X)] : Folds(f, n, <<>>, step)
    BY <1>1, <2>2, FoldExists
  <2>4. ASSUME NEW s \in SUBSET (1..n), s # {}
        PROVE  f[s] = f[s \ {Max(s)}] \o value[text[Max(s)]]
    <3>1. Max(s) \in 1..n
      BY <1>1, <2>4, SomeLargest
    <3>2. f[s \ {Max(s)}] \in Seq(X)
      OBVIOUS
    <3>3. f[s] = step[<<f[s \ {Max(s)}], Max(s)>>]
      BY <2>3, <2>4 DEF Folds
    <3> QED BY <2>1, <3>1, <3>2, <3>3
  <2>5. f[{}] = <<>>
    BY <2>3 DEF Folds
  <2>6. Solves(f)
    BY <1>1, <2>4, <2>5
  <2> HIDE DEF Solves
  <2> QED BY <2>6
<1>4. iter[{}] = <<>>
  BY <1>3
<1>5. ASSUME NEW i \in 1..n PROVE iter[1..i] = iter[1..(i - 1)] \o value[text[i]]
  <2>1. 1..i \in SUBSET (1..n) /\ 1..i # {} /\ Max(1..i) = i /\ (1..i) \ {i} = 1..(i - 1)
    BY <1>1, Prefix
  <2> HIDE DEF iter
  <2> QED BY <1>1, <1>3, <2>1
<1>6. acc[0] = <<>> /\ \A i \in 1..n : acc[i] = acc[i - 1] \o value[text[i]]
  <2>1. 1..0 = {} /\ 0 \in 0..n /\ \A i \in 1..n : i \in 0..n /\ i - 1 \in 0..n
    BY <1>1
  <2> HIDE DEF iter
  <2>2. \A i \in 0..n : acc[i] = iter[1..i]
    OBVIOUS
  <2> HIDE DEF acc
  <2> QED BY <1>4, <1>5, <2>1, <2>2
<1>7. acc[n] = iter[DOMAIN text]
  <2> HIDE DEF iter
  <2> QED BY <1>1
<1>8. \A i \in 0..n : acc[i] \in Seq(X)
  <2> HIDE DEF acc, iter, Solves
  <2>2. \A i \in 1..n : acc[i - 1] \in Seq(X) => acc[i] \in Seq(X)
    <3> SUFFICES ASSUME NEW i \in 1..n, acc[i - 1] \in Seq(X) PROVE acc[i] \in Seq(X)
      OBVIOUS
    <3>1. acc[i] = acc[i - 1] \o value[text[i]] /\ value[text[i]] \in Seq(X)
      BY <1>1, <1>6
    <3> QED BY <3>1
  <2>3. n \in Nat /\ acc[0] \in Seq(X)
    BY <1>1, <1>6
  <2>4. \A i \in 0..n : acc[i] \in Seq(X)
    BY <2>2, <2>3, AllValues
  <2> QED BY <2>4
<1> HIDE DEF acc, iter
<1>9. ASSUME NEW i \in 0..n, i < n
      PROVE  acc[i + 1] = acc[i] \o value[text[i + 1]] /\ value[text[i + 1]] \in Seq(X)
  <2>1. i + 1 \in 1..n /\ (i + 1) - 1 = i
    BY <1>1, <1>9
  <2>2. acc[i + 1] = acc[(i + 1) - 1] \o value[text[i + 1]]
    BY <1>6, <2>1
  <2> QED BY <1>1, <2>1, <2>2
<1>10. Expands(acc, text, value, X)
  BY <1>1, <1>2, <1>6, <1>7, <1>8, <1>9 DEF n, Expands
<1> QED BY <1>10

\* A text is expanded token by token.
LEMMA ExpandedType ==
    ASSUME NEW T, NEW text \in Seq(T), NEW X, NEW value \in [T -> Seq(X)]
    PROVE  Expanded(text, value) \in Seq(X)
<1>1. PICK acc : Expands(acc, text, value, X)
  BY ExpandedFold
<1>2. Len(text) \in 0..Len(text)
  OBVIOUS
<1> QED BY <1>1, <1>2 DEF Expands

\* Of what tokens stand for, only what is in the text counts.
Within(text, value) == [t \in ToSet(text) |-> value[t]]

LEMMA ExpandedWithin ==
    ASSUME NEW T, NEW text \in Seq(T), NEW X, NEW value \in [T -> Seq(X)]
    PROVE  Expanded(text, Within(text, value)) = Expanded(text, value)
<1> DEFINE other == Within(text, value)
           U == ToSet(text)
<1>1. U \subseteq T /\ text \in Seq(U) /\ \A i \in 1..Len(text) : text[i] \in U
  BY DEF ToSet
<1>2. other \in [U -> Seq(X)] /\ \A t \in U : other[t] = value[t]
  BY <1>1 DEF Within
<1> HIDE DEF other, U
<1>3. PICK acc : Expands(acc, text, value, X)
  BY ExpandedFold
<1>4. PICK bcc : Expands(bcc, text, other, X)
  BY <1>1, <1>2, ExpandedFold
<1> DEFINE Agree(i) == acc[i] = bcc[i]
           Q == {i \in 0..Len(text) : Agree(i)}
<1>5. Len(text) \in Nat
  OBVIOUS
<1>6. Agree(0)
  BY <1>3, <1>4 DEF Expands
<1>7. ASSUME NEW i \in 0..Len(text), Agree(i), i < Len(text) PROVE Agree(i + 1)
  <2>1. i + 1 \in 1..Len(text)
    BY <1>5, <1>7
  <2>2. acc[i + 1] = acc[i] \o value[text[i + 1]] /\ bcc[i + 1] = bcc[i] \o other[text[i + 1]]
    BY <1>3, <1>4, <1>7 DEF Expands
  <2>3. value[text[i + 1]] = other[text[i + 1]]
    BY <1>1, <1>2, <2>1
  <2> QED BY <1>7, <2>2, <2>3
<1>8. Agree(Len(text))
  <2> HIDE DEF Agree
  <2>1. 0 \in Q /\ \A i \in Q : i < Len(text) => i + 1 \in Q
    BY <1>5, <1>6, <1>7
  <2>2. Q \in SUBSET (0..Len(text))
    OBVIOUS
  <2>3. Q = 0..Len(text)
    <3> HIDE DEF Q
    <3> QED BY <1>5, <2>1, <2>2, UpToInduction
  <2> QED BY <1>5, <2>3
<1>9. Expanded(text, value) = Expanded(text, other)
  BY <1>3, <1>4, <1>8 DEF Expands
<1> QED BY <1>9 DEF other

LEMMA OneMore ==
    ASSUME NEW X, NEW s \in Seq(X), NEW x \in X
    PROVE  /\ s \o <<x>> \in Seq(X) /\ Len(s \o <<x>>) = Len(s) + 1
           /\ (s \o <<x>>)[Len(s) + 1] = x
           /\ \A j \in 1..Len(s) : (s \o <<x>>)[j] = s[j]
OBVIOUS

\* A text is left as it is when every token stands for itself.
LEMMA ExpandedIdentity ==
    ASSUME NEW T, NEW text \in Seq(T), NEW X, NEW value \in [T -> Seq(X)],
           \A i \in 1..Len(text) : value[text[i]] = <<text[i]>>
    PROVE  Expanded(text, value) = text
<1>1. PICK acc : Expands(acc, text, value, X)
  BY ExpandedFold
<1> DEFINE Copies(i) == Len(acc[i]) = i /\ \A j \in 1..i : acc[i][j] = text[j]
           Q == {i \in 0..Len(text) : Copies(i)}
<1>2. Len(text) \in Nat
  OBVIOUS
<1>3. Copies(0)
  BY <1>1 DEF Expands
<1>4. ASSUME NEW i \in 0..Len(text), Copies(i), i < Len(text) PROVE Copies(i + 1)
  <2>1. i + 1 \in 1..Len(text) /\ (i + 1) - 1 = i /\ i \in Nat
    BY <1>2, <1>4
  <2>2. acc[i + 1] = acc[i] \o <<text[i + 1]>>
    BY <1>1, <1>4, <2>1 DEF Expands
  <2>3. acc[i] \in Seq(X) /\ value[text[i + 1]] \in Seq(X) /\ value[text[i + 1]] = <<text[i + 1]>>
    BY <1>1, <1>4, <2>1 DEF Expands
  <2>4. text[i + 1] \in X
    BY <2>3
  <2>5. Len(acc[i]) = i /\ \A j \in 1..i : acc[i][j] = text[j]
    BY <1>4
  <2> DEFINE before == acc[i]
             x == text[i + 1]
  <2>6. /\ Len(before \o <<x>>) = Len(before) + 1 /\ (before \o <<x>>)[Len(before) + 1] = x
        /\ \A j \in 1..Len(before) : (before \o <<x>>)[j] = before[j]
    <3>1. before \in Seq(X) /\ x \in X
      BY <2>3, <2>4
    <3> HIDE DEF before, x
    <3> QED BY <3>1, OneMore
  <2> QED BY <2>1, <2>2, <2>5, <2>6
<1>5. Copies(Len(text))
  <2> HIDE DEF Copies
  <2>1. 0 \in Q /\ \A i \in Q : i < Len(text) => i + 1 \in Q
    BY <1>2, <1>3, <1>4
  <2>2. Q \in SUBSET (0..Len(text))
    OBVIOUS
  <2>3. Q = 0..Len(text)
    <3> HIDE DEF Q
    <3> QED BY <1>2, <2>1, <2>2, UpToInduction
  <2> QED BY <1>2, <2>3
<1>6. Len(text) \in 0..Len(text)
  BY <1>2
<1>7. Expanded(text, value) \in Seq(X) /\ Len(Expanded(text, value)) = Len(text)
      /\ \A j \in 1..Len(text) : Expanded(text, value)[j] = text[j]
  BY <1>1, <1>5, <1>6 DEF Expands
<1> HIDE DEF Copies
<1> QED BY <1>7

\* Expansion goes piece by piece.
LEMMA ExpandedConcat ==
    ASSUME NEW T, NEW s \in Seq(T), NEW t \in Seq(T), NEW X, NEW value \in [T -> Seq(X)]
    PROVE  Expanded(s \o t, value) = Expanded(s, value) \o Expanded(t, value)
<1>1. /\ s \o t \in Seq(T) /\ Len(s) \in Nat /\ Len(t) \in Nat
      /\ Len(s \o t) = Len(s) + Len(t)
      /\ \A i \in 1..Len(s) : (s \o t)[i] = s[i]
      /\ \A i \in 1..Len(t) : (s \o t)[Len(s) + i] = t[i]
  OBVIOUS
<1>2. PICK whole : Expands(whole, s \o t, value, X)
  BY <1>1, ExpandedFold
<1>3. PICK left : Expands(left, s, value, X)
  BY ExpandedFold
<1>4. PICK right : Expands(right, t, value, X)
  BY ExpandedFold
<1>5. \A i \in 0..Len(s) : whole[i] = left[i]
  <2> DEFINE Agree(i) == whole[i] = left[i]
             Q == {i \in 0..Len(s) : Agree(i)}
  <2>1. Agree(0)
    BY <1>2, <1>3 DEF Expands
  <2>2. ASSUME NEW i \in 0..Len(s), Agree(i), i < Len(s) PROVE Agree(i + 1)
    <3>1. i + 1 \in 1..Len(s) /\ i \in 0..Len(s \o t) /\ i < Len(s \o t)
      BY <1>1, <2>2
    <3>2. whole[i + 1] = whole[i] \o value[(s \o t)[i + 1]]
      BY <1>1, <1>2, <3>1 DEF Expands
    <3>3. left[i + 1] = left[i] \o value[s[i + 1]]
      BY <1>3, <2>2 DEF Expands
    <3> QED BY <1>1, <2>2, <3>1, <3>2, <3>3
  <2> HIDE DEF Agree
  <2>3. 0 \in Q /\ \A i \in Q : i < Len(s) => i + 1 \in Q
    BY <1>1, <2>1, <2>2
  <2>4. Q \in SUBSET (0..Len(s))
    OBVIOUS
  <2>5. Q = 0..Len(s)
    <3> HIDE DEF Q
    <3> QED BY <1>1, <2>3, <2>4, UpToInduction
  <2> QED BY <2>5 DEF Agree
<1>6. \A i \in 0..Len(t) : whole[Len(s) + i] = left[Len(s)] \o right[i]
  <2> DEFINE Agree(i) == whole[Len(s) + i] = left[Len(s)] \o right[i]
             Q == {i \in 0..Len(t) : Agree(i)}
  <2>1. Agree(0)
    <3>1. whole[Len(s)] = left[Len(s)] /\ left[Len(s)] \in Seq(X) /\ right[0] = <<>>
      BY <1>1, <1>3, <1>4, <1>5 DEF Expands
    <3> QED BY <1>1, <3>1
  <2>2. ASSUME NEW i \in 0..Len(t), Agree(i), i < Len(t) PROVE Agree(i + 1)
    <3>1. /\ i + 1 \in 1..Len(t) /\ Len(s) + i \in 0..Len(s \o t) /\ Len(s) + i < Len(s \o t)
          /\ (Len(s) + i) + 1 = Len(s) + (i + 1)
      BY <1>1, <2>2
    <3>2. whole[(Len(s) + i) + 1] = whole[Len(s) + i] \o value[(s \o t)[(Len(s) + i) + 1]]
      BY <1>2, <3>1 DEF Expands
    <3>3. right[i + 1] = right[i] \o value[t[i + 1]] /\ value[t[i + 1]] \in Seq(X)
      BY <1>4, <2>2 DEF Expands
    <3>4. (s \o t)[Len(s) + (i + 1)] = t[i + 1]
      BY <1>1, <3>1
    <3>5. left[Len(s)] \in Seq(X) /\ right[i] \in Seq(X)
      BY <1>1, <1>3, <1>4 DEF Expands
    <3>6. \A a, b, c \in Seq(X) : (a \o b) \o c = a \o (b \o c)
      BY ConcatAssociative
    <3>7. whole[Len(s) + (i + 1)] = whole[Len(s) + i] \o value[t[i + 1]]
      BY <3>1, <3>2, <3>4
    <3>8. (left[Len(s)] \o right[i]) \o value[t[i + 1]] = left[Len(s)] \o (right[i] \o value[t[i + 1]])
      BY <3>3, <3>5, <3>6
    <3> QED BY <2>2, <3>3, <3>7, <3>8
  <2> HIDE DEF Agree
  <2>3. 0 \in Q /\ \A i \in Q : i < Len(t) => i + 1 \in Q
    BY <1>1, <2>1, <2>2
  <2>4. Q \in SUBSET (0..Len(t))
    OBVIOUS
  <2>5. Q = 0..Len(t)
    <3> HIDE DEF Q
    <3> QED BY <1>1, <2>3, <2>4, UpToInduction
  <2> QED BY <2>5 DEF Agree
<1>7. whole[Len(s) + Len(t)] = left[Len(s)] \o right[Len(t)]
  <2>1. Len(t) \in 0..Len(t)
    BY <1>1
  <2> QED BY <1>6, <2>1
<1> QED BY <1>1, <1>2, <1>3, <1>4, <1>7 DEF Expands

LEMMA ExpandedSingle ==
    ASSUME NEW T, NEW x \in T, NEW X, NEW value \in [T -> Seq(X)]
    PROVE  Expanded(<<x>>, value) = value[x]
<1>1. <<x>> \in Seq(T) /\ Len(<<x>>) = 1 /\ <<x>>[1] = x
  OBVIOUS
<1>2. PICK acc : Expands(acc, <<x>>, value, X)
  BY <1>1, ExpandedFold
<1>3. acc[0] = <<>> /\ acc[0 + 1] = acc[0] \o value[<<x>>[0 + 1]]
  <2>1. 0 \in 0..Len(<<x>>) /\ 0 < Len(<<x>>)
    BY <1>1
  <2> QED BY <1>1, <1>2, <2>1 DEF Expands
<1>4. acc[1] = value[x]
  BY <1>1, <1>3
<1> QED BY <1>1, <1>2, <1>4 DEF Expands

\* One expansion after the other is one: of every token, what the second makes of what the
\* first makes of it.
After(first, second, T) == [t \in T |-> Expanded(first[t], second)]

LEMMA ExpandedTwice ==
    ASSUME NEW T, NEW text \in Seq(T), NEW first \in [T -> Seq(T)], NEW second \in [T -> Seq(T)]
    PROVE  Expanded(Expanded(text, first), second) = Expanded(text, After(first, second, T))
<1> DEFINE both == After(first, second, T)
<1>0. both \in [T -> Seq(T)] /\ \A t \in T : both[t] = Expanded(first[t], second)
  <2>1. ASSUME NEW t \in T PROVE Expanded(first[t], second) \in Seq(T)
    <3> DEFINE b == first[t]
    <3>1. b \in Seq(T)
      OBVIOUS
    <3> HIDE DEF b
    <3>2. Expanded(b, second) \in Seq(T)
      BY <3>1, ExpandedType
    <3> QED BY <3>2 DEF b
  <2> QED BY <2>1 DEF After
<1> HIDE DEF both
<1>1. PICK inner : Expands(inner, text, first, T)
  BY ExpandedFold
<1>2. PICK outer : Expands(outer, text, both, T)
  BY <1>0, ExpandedFold
<1> DEFINE Agree(i) == Expanded(inner[i], second) = outer[i]
           Q == {i \in 0..Len(text) : Agree(i)}
<1>3. Len(text) \in Nat
  OBVIOUS
<1>4. Agree(0)
  <2>1. <<>> \in Seq(T) /\ Len(<<>>) = 0
    OBVIOUS
  <2>2. PICK acc : Expands(acc, <<>>, second, T)
    BY <2>1, ExpandedFold
  <2> QED BY <1>1, <1>2, <2>1, <2>2 DEF Expands
<1>5. ASSUME NEW i \in 0..Len(text), Agree(i), i < Len(text) PROVE Agree(i + 1)
  <2> DEFINE a == inner[i]
             b == first[text[i + 1]]
  <2>1. inner[i + 1] = a \o b /\ a \in Seq(T) /\ b \in Seq(T)
    BY <1>1, <1>5 DEF Expands
  <2>2. text[i + 1] \in T
    <3>1. i + 1 \in 1..Len(text)
      BY <1>3, <1>5
    <3> QED BY <3>1
  <2>3. outer[i + 1] = outer[i] \o both[text[i + 1]]
    BY <1>2, <1>5 DEF Expands
  <2>4. Expanded(a \o b, second) = Expanded(a, second) \o Expanded(b, second)
    <3> HIDE DEF a, b
    <3> QED BY <2>1, ExpandedConcat
  <2>5. Expanded(inner[i + 1], second) = Expanded(inner[i], second) \o Expanded(first[text[i + 1]], second)
    BY <2>1, <2>4
  <2>6. both[text[i + 1]] = Expanded(first[text[i + 1]], second)
    BY <1>0, <2>2
  <2> QED BY <1>5, <2>3, <2>5, <2>6
<1>6. Agree(Len(text))
  <2> HIDE DEF Agree
  <2>1. 0 \in Q /\ \A i \in Q : i < Len(text) => i + 1 \in Q
    BY <1>3, <1>4, <1>5
  <2>2. Q \in SUBSET (0..Len(text))
    OBVIOUS
  <2>3. Q = 0..Len(text)
    <3> HIDE DEF Q
    <3> QED BY <1>3, <2>1, <2>2, UpToInduction
  <2>4. Len(text) \in 0..Len(text)
    BY <1>3
  <2> QED BY <2>3, <2>4
<1>7. inner[Len(text)] = Expanded(text, first) /\ outer[Len(text)] = Expanded(text, both)
  BY <1>1, <1>2 DEF Expands
<1> QED BY <1>6, <1>7 DEF both

\* What replacing some of the keys makes of a token.
Meaning(values, keys, T) == [t \in T |-> IF t \in keys THEN values[t] ELSE <<t>>]

\* No value brings in a key.
WithoutKey(values, keys, k, T) ==
    \A key \in keys \cup {k} :
        values[key] \in Seq(T) /\ \A i \in 1..Len(values[key]) : values[key][i] # k

\* Replacing one key more.
LEMMA OneKeyMore ==
    ASSUME NEW T, NEW values, NEW keys \in SUBSET T, NEW k \in T, NEW text \in Seq(T),
           WithoutKey(values, keys, k, T)
    PROVE  /\ Meaning(values, keys, T) \in [T -> Seq(T)]
           /\ Replaced(Expanded(text, Meaning(values, keys, T)), k, values[k])
                  = Expanded(text, Meaning(values, keys \cup {k}, T))
<1> DEFINE first == Meaning(values, keys, T)
           second == Meaning(values, {k}, T)
           both == Meaning(values, keys \cup {k}, T)
           done == Expanded(text, first)
<1>0. \A key \in keys \cup {k} :
          values[key] \in Seq(T) /\ \A i \in 1..Len(values[key]) : values[key][i] # k
  BY DEF WithoutKey
<1>1. first \in [T -> Seq(T)] /\ second \in [T -> Seq(T)] /\ both \in [T -> Seq(T)]
  BY <1>0 DEF Meaning
<1>2. done \in Seq(T)
  BY <1>1, ExpandedType
<1>3. Replaced(done, k, values[k]) = Expanded(done, second)
  <2> DEFINE found == [t \in ToSet(done) |-> IF t = k THEN values[k] ELSE <<t>>]
  <2> HIDE DEF done
  <2>1. ToSet(done) \subseteq T
    BY <1>2 DEF ToSet
  <2>2. found = Within(done, second)
    BY <2>1 DEF Within, Meaning
  <2>3. Replaced(done, k, values[k]) = Expanded(done, found)
    BY DEF Replaced
  <2> HIDE DEF found, second
  <2>4. Expanded(done, Within(done, second)) = Expanded(done, second)
    BY <1>1, <1>2, ExpandedWithin
  <2> QED BY <2>2, <2>3, <2>4
<1>5. ASSUME NEW t \in T PROVE Expanded(first[t], second) = both[t]
  <2>1. CASE t \in keys
    <3>1. first[t] = values[t] /\ both[t] = values[t] /\ values[t] \in Seq(T)
      BY <1>0, <2>1 DEF Meaning
    <3>2. \A i \in 1..Len(values[t]) : second[values[t][i]] = <<values[t][i]>>
      <4>1. \A i \in 1..Len(values[t]) : values[t][i] \in T /\ values[t][i] # k
        BY <1>0, <2>1, <3>1
      <4> QED BY <4>1 DEF Meaning
    <3> DEFINE v == values[t]
    <3>3. v \in Seq(T) /\ second \in [T -> Seq(T)] /\ \A i \in 1..Len(v) : second[v[i]] = <<v[i]>>
      BY <1>1, <3>1, <3>2
    <3> HIDE DEF second, first, both, done, v
    <3>4. Expanded(v, second) = v
      BY <3>3, ExpandedIdentity
    <3> QED BY <3>1, <3>4 DEF v
  <2>2. CASE t \notin keys
    <3>1. first[t] = <<t>> /\ both[t] = second[t]
      BY <2>2 DEF Meaning
    <3> HIDE DEF second, first, both, done
    <3>2. t \in T /\ second \in [T -> Seq(T)]
      BY <1>1
    <3>3. Expanded(<<t>>, second) = second[t]
      BY <3>2, ExpandedSingle
    <3> QED BY <3>1, <3>3
  <2> QED BY <2>1, <2>2
<1>6. Expanded(done, second) = Expanded(text, both)
  <2>1. both = After(first, second, T)
    <3> HIDE DEF first, second
    <3>1. both = [t \in T |-> both[t]]
      BY DEF Meaning
    <3> HIDE DEF both
    <3> QED BY <1>5, <3>1 DEF After
  <2> HIDE DEF first, second, both
  <2>2. text \in Seq(T) /\ first \in [T -> Seq(T)] /\ second \in [T -> Seq(T)]
    BY <1>1
  <2>3. Expanded(Expanded(text, first), second) = Expanded(text, After(first, second, T))
    BY <2>2, ExpandedTwice
  <2> QED BY <2>1, <2>3 DEF done
<1> HIDE DEF second
<1> QED BY <1>1, <1>3, <1>6

LEMMA ReplacedType ==
    ASSUME NEW T, NEW text \in Seq(T), NEW k, NEW value \in Seq(T)
    PROVE  Replaced(text, k, value) \in Seq(T)
<1> DEFINE found == [t \in ToSet(text) |-> IF t = k THEN value ELSE <<t>>]
           U == ToSet(text)
<1>1. U \subseteq T /\ text \in Seq(U)
  BY DEF ToSet
<1>2. found \in [U -> Seq(T)]
  <2>1. \A t \in U : <<t>> \in Seq(T)
    BY <1>1
  <2> QED BY <2>1
<1>3. Replaced(text, k, value) = Expanded(text, found)
  BY DEF Replaced
<1> HIDE DEF found, U
<1> QED BY <1>1, <1>2, <1>3, ExpandedType

\* What a rendering makes of a text, when it replaces the keys in an order.
InTheOrder(text, values, order) ==
    FoldLeft(LAMBDA done, key : Replaced(done, key, values[key]), text, order)

Replaces(acc, text, values, order, n, T) ==
    /\ acc[0] = text
    /\ acc[n] = InTheOrder(text, values, order)
    /\ \A i \in 0..n : acc[i] \in Seq(T)
    /\ \A i \in 0..n : i < n =>
           acc[i + 1] = Replaced(acc[i], order[i + 1], values[order[i + 1]])

LEMMA ReplacedFold ==
    ASSUME NEW T, NEW text \in Seq(T), NEW n \in Nat, NEW K, NEW order \in [1..n -> K],
           NEW values \in [K -> Seq(T)]
    PROVE  \E acc : Replaces(acc, text, values, order, n, T)
<1> DEFINE Step(done, i) == Replaced(done, order[i], values[order[i]])
           Solves(f) == f = [s \in SUBSET (DOMAIN order) |->
                                 IF s = {} THEN text
                                 ELSE Replaced(f[s \ {Max(s)}], order[Max(s)], values[order[Max(s)]])]
           iter == CHOOSE f : Solves(f)
           acc == [i \in 0..n |-> iter[1..i]]
<1>1. DOMAIN order = 1..n /\ \A i \in 1..n : values[order[i]] \in Seq(T)
  OBVIOUS
<1>2. InTheOrder(text, values, order) = iter[DOMAIN order]
  BY DEF InTheOrder, FoldLeft, MapThenFoldSet
<1>S. ASSUME NEW done \in Seq(T), NEW i \in 1..n PROVE Step(done, i) \in Seq(T)
  <2> DEFINE v == values[order[i]]
  <2>1. v \in Seq(T)
    BY <1>1
  <2> HIDE DEF v
  <2>2. Replaced(done, order[i], v) \in Seq(T)
    BY <2>1, ReplacedType
  <2> QED BY <2>2 DEF v
<1>3. Solves(iter)
  <2> DEFINE step == [p \in Seq(T) \X (1..n) |-> Step(p[1], p[2])]
  <2>1. \A x \in Seq(T), i \in 1..n : step[<<x, i>>] = Step(x, i)
    OBVIOUS
  <2>2. step \in [Seq(T) \X (1..n) -> Seq(T)]
    <3> HIDE DEF Step
    <3> QED BY <1>S
  <2> HIDE DEF step
  <2>3. PICK f \in [SUBSET (1..n) -> Seq(T)] : Folds(f, n, text, step)
    BY <2>2, FoldExists
  <2>4. ASSUME NEW s \in SUBSET (1..n), s # {}
        PROVE  f[s] = Step(f[s \ {Max(s)}], Max(s))
    <3>1. Max(s) \in 1..n
      BY <2>4, SomeLargest
    <3>2. f[s \ {Max(s)}] \in Seq(T)
      OBVIOUS
    <3>3. f[s] = step[<<f[s \ {Max(s)}], Max(s)>>]
      BY <2>3, <2>4 DEF Folds
    <3> HIDE DEF Step
    <3> QED BY <2>1, <3>1, <3>2, <3>3
  <2>5. f[{}] = text
    BY <2>3 DEF Folds
  <2>6. Solves(f)
    BY <1>1, <2>4, <2>5
  <2> HIDE DEF Solves
  <2> QED BY <2>6
<1>4. iter[{}] = text
  BY <1>3
<1>5. ASSUME NEW i \in 1..n PROVE iter[1..i] = Step(iter[1..(i - 1)], i)
  <2>1. 1..i \in SUBSET (1..n) /\ 1..i # {} /\ Max(1..i) = i /\ (1..i) \ {i} = 1..(i - 1)
    BY Prefix
  <2> HIDE DEF iter
  <2> QED BY <1>1, <1>3, <2>1
<1> HIDE DEF Solves
<1>6. acc[0] = text /\ \A i \in 1..n : acc[i] = Step(acc[i - 1], i)
  <2>1. 1..0 = {} /\ 0 \in 0..n /\ \A i \in 1..n : i \in 0..n /\ i - 1 \in 0..n
    OBVIOUS
  <2> HIDE DEF iter
  <2>2. \A i \in 0..n : acc[i] = iter[1..i]
    OBVIOUS
  <2> HIDE DEF acc, Step
  <2> QED BY <1>4, <1>5, <2>1, <2>2
<1>7. acc[n] = iter[DOMAIN order]
  <2> HIDE DEF iter
  <2> QED BY <1>1
<1>8. \A i \in 0..n : acc[i] \in Seq(T)
  <2> HIDE DEF acc, iter, Step
  <2>1. \A i \in 1..n : acc[i - 1] \in Seq(T) => acc[i] \in Seq(T)
    BY <1>6, <1>S
  <2>2. acc[0] \in Seq(T)
    BY <1>6
  <2>3. \A i \in 0..n : acc[i] \in Seq(T)
    BY <2>1, <2>2, AllValues
  <2> QED BY <2>3
<1> HIDE DEF acc, iter
<1>9. ASSUME NEW i \in 0..n, i < n
      PROVE  acc[i + 1] = Replaced(acc[i], order[i + 1], values[order[i + 1]])
  <2>1. i + 1 \in 1..n /\ (i + 1) - 1 = i
    BY <1>9
  <2>2. acc[i + 1] = Step(acc[(i + 1) - 1], i + 1)
    BY <1>6, <2>1
  <2> QED BY <2>1, <2>2
<1>10. Replaces(acc, text, values, order, n, T)
  BY <1>2, <1>6, <1>7, <1>8, <1>9 DEF Replaces
<1> QED BY <1>10

\* Nothing is left to be replaced in a value.
NoKeyIn(values, K) == \A k \in K : ToSet(values[k]) \cap K = {}

\* Whatever the order, the keys are replaced in one go.
LEMMA OrderDoesNotMatter ==
    ASSUME NEW T, NEW text \in Seq(T), NEW K \in SUBSET T, NEW values \in [K -> Seq(T)],
           NEW order \in Orders(K), IsFiniteSet(K), NoKeyIn(values, K)
    PROVE  InTheOrder(text, values, order) = Expanded(text, Meaning(values, K, T))
<1> DEFINE n == Cardinality(K)
           Keys(i) == {order[j] : j \in 1..i}
<1>1. n \in Nat
  BY FS_CardinalityType
<1>2. order \in [1..n -> K] /\ \A k \in K : \E i \in 1..n : order[i] = k
  BY DEF Orders
<1> HIDE DEF n
<1>3. PICK acc : Replaces(acc, text, values, order, n, T)
  BY <1>1, <1>2, ReplacedFold
<1> DEFINE Agree(i) == acc[i] = Expanded(text, Meaning(values, Keys(i), T))
           Q == {i \in 0..n : Agree(i)}
<1>4. Agree(0)
  <2> DEFINE id == Meaning(values, Keys(0), T)
  <2>1. id = [t \in T |-> <<t>>]
    <3>1. Keys(0) = {}
      OBVIOUS
    <3> QED BY <3>1 DEF Meaning
  <2>2. id \in [T -> Seq(T)] /\ \A i \in 1..Len(text) : id[text[i]] = <<text[i]>>
    <3>1. \A t \in T : <<t>> \in Seq(T)
      OBVIOUS
    <3>2. \A i \in 1..Len(text) : text[i] \in T
      OBVIOUS
    <3> QED BY <2>1, <3>1, <3>2
  <2> HIDE DEF id
  <2>3. Expanded(text, id) = text
    BY <2>2, ExpandedIdentity
  <2> QED BY <1>3, <2>3 DEF Replaces, id
<1>5. ASSUME NEW i \in 0..n, Agree(i), i < n PROVE Agree(i + 1)
  <2> DEFINE k == order[i + 1]
             before == Keys(i)
  <2>1. k \in K /\ before \subseteq K /\ Keys(i + 1) = before \cup {k}
    <3>1. i \in Nat /\ 1..(i + 1) = (1..i) \cup {i + 1} /\ 1..(i + 1) \subseteq 1..n
      BY <1>1, <1>5
    <3> HIDE DEF n
    <3>2. \A j \in 1..i : order[j] \in K
      BY <1>2, <3>1
    <3>3. k \in K
      BY <1>2, <3>1
    <3> QED BY <3>1, <3>2, <3>3
  <2> HIDE DEF before, k
  <2>2. WithoutKey(values, before, k, T)
    <3> SUFFICES ASSUME NEW key \in before \cup {k}
                 PROVE  values[key] \in Seq(T)
                        /\ \A j \in 1..Len(values[key]) : values[key][j] # k
      BY DEF WithoutKey
    <3>1. key \in K
      BY <2>1
    <3>2. values[key] \in Seq(T)
      BY <3>1
    <3>3. ToSet(values[key]) \cap K = {}
      BY <3>1 DEF NoKeyIn
    <3>4. \A j \in 1..Len(values[key]) : values[key][j] \in ToSet(values[key])
      BY <3>2 DEF ToSet
    <3> QED BY <2>1, <3>2, <3>3, <3>4
  <2>3. Replaced(Expanded(text, Meaning(values, before, T)), k, values[k])
            = Expanded(text, Meaning(values, before \cup {k}, T))
    <3>1. k \in T /\ before \in SUBSET T
      BY <2>1
    <3> QED BY <2>2, <3>1, OneKeyMore
  <2>4. acc[i + 1] = Replaced(acc[i], k, values[k])
    BY <1>3, <1>5 DEF Replaces, k
  <2>5. acc[i] = Expanded(text, Meaning(values, before, T))
    BY <1>5 DEF before
  <2>6. Agree(i + 1) <=> acc[i + 1] = Expanded(text, Meaning(values, before \cup {k}, T))
    BY <2>1
  <2> QED BY <2>3, <2>4, <2>5, <2>6
<1>6. Agree(n)
  <2> HIDE DEF Agree
  <2>1. 0 \in Q /\ \A i \in Q : i < n => i + 1 \in Q
    BY <1>1, <1>4, <1>5
  <2>2. Q \in SUBSET (0..n)
    OBVIOUS
  <2>3. Q = 0..n
    <3> HIDE DEF Q
    <3> QED BY <1>1, <2>1, <2>2, UpToInduction
  <2>4. n \in 0..n
    BY <1>1
  <2> QED BY <2>3, <2>4
<1>7. Keys(n) = K
  BY <1>2
<1> HIDE DEF Keys
<1> QED BY <1>3, <1>6, <1>7 DEF Replaces

\* What is left of a rendering that is answered.
RenderedFits ==
    rendered # NoRendering =>
        /\ rendered.body \in TemplateBodies /\ rendered.values \in Substitutions
        /\ rendered.text \in renderYAML(rendered.body, rendered.values)

LEMMA RenderedIsRight == RenderedFits => RenderingIsSubstitution
<1> SUFFICES ASSUME RenderedFits, rendered # NoRendering PROVE RenderingIsSubstitution
  BY DEF RenderingIsSubstitution
<1> DEFINE body == rendered.body
           values == rendered.values
           text == body.text
           K == DOMAIN values
           T == ToSet(text) \cup K \cup UNION {ToSet(values[k]) : k \in K}
           meaning == [token \in ToSet(text) |->
                          IF token \in K THEN values[token] ELSE <<token>>]
<1>1. /\ body \in TemplateBodies /\ values \in Substitutions
      /\ rendered.text \in renderYAML(body, values)
  BY DEF RenderedFits
<1>2. ToSet(rendered.text) \cap body.required = {}
  BY <1>1 DEF renderYAML
<1>3. PICK order \in Orders(K) : rendered.text = InTheOrder(text, values, order)
  BY <1>1 DEF renderYAML, InTheOrder
<1>4. text \in Seq(ToSet(text)) /\ IsFiniteSet(K) /\ values = [k \in K |-> values[k]]
      /\ \A k \in K : values[k] \in Seq(ToSet(values[k]))
  BY <1>1, TextsAssumption
<1>5. ASSUME {k \in K : ToSet(values[k]) \cap K # {}} = {}
      PROVE  rendered.text = Expanded(text, meaning)
  <2>1. NoKeyIn(values, K)
    BY <1>5 DEF NoKeyIn
  <2> HIDE DEF text, values
  <2>2. K \subseteq T /\ ToSet(text) \subseteq T /\ \A k \in K : ToSet(values[k]) \subseteq T
    OBVIOUS
  <2> HIDE DEF T, K
  <2>3. text \in Seq(T)
    BY <1>4, <2>2, Wider
  <2>4. values \in [K -> Seq(T)]
    <3>1. ASSUME NEW k \in K PROVE values[k] \in Seq(T)
      <4> DEFINE v == values[k]
      <4>1. v \in Seq(ToSet(v)) /\ ToSet(v) \subseteq T
        BY <1>4, <2>2
      <4> HIDE DEF v
      <4>2. v \in Seq(T)
        BY <4>1, Wider
      <4> QED BY <4>2 DEF v
    <3>2. [k \in K |-> values[k]] \in [K -> Seq(T)]
      BY <3>1
    <3> QED BY <1>4, <3>2
  <2>5. InTheOrder(text, values, order) = Expanded(text, Meaning(values, K, T))
    BY <1>3, <1>4, <2>1, <2>2, <2>3, <2>4, OrderDoesNotMatter
  <2>6. Meaning(values, K, T) \in [T -> Seq(T)]
    BY <2>4 DEF Meaning
  <2>7. Expanded(text, Within(text, Meaning(values, K, T))) = Expanded(text, Meaning(values, K, T))
    BY <2>3, <2>6, ExpandedWithin
  <2>8. Within(text, Meaning(values, K, T)) = meaning
    BY <2>2 DEF Within, Meaning
  <2> QED BY <1>3, <2>5, <2>7, <2>8 DEF text, values
<1> QED BY <1>2, <1>5 DEF RenderingIsSubstitution

LEMMA RenderedStarts == TemplatesInit => RenderedFits
BY DEF TemplatesInit, RenderedFits

LEMMA RenderedStaysFit == TemplatesInv /\ RenderedFits /\ [TemplatesNext]_templateVars => RenderedFits'
<1> SUFFICES ASSUME TemplatesInv, RenderedFits, [TemplatesNext]_templateVars PROVE RenderedFits'
  OBVIOUS
<1>1. CASE rendered' = NoRendering
  BY <1>1 DEF RenderedFits, NoRendering
<1>2. CASE UNCHANGED rendered
  BY <1>2 DEF RenderedFits
<1>3. ASSUME NEW c \in TemplateCallers, NEW id \in 1 .. lastTemplate, NEW values \in Substitutions,
             RenderTemplate(c, id, values)
      PROVE  RenderedFits'
  <2>1. PICK t \in TemplateOf(id) : \E text \in renderYAML(t.body, values) :
            rendered' = [body |-> t.body, values |-> values, text |-> text]
    BY <1>3 DEF RenderTemplate
  <2>2. PICK text \in renderYAML(t.body, values) :
            rendered' = [body |-> t.body, values |-> values, text |-> text]
    BY <2>1
  <2>3. t.body \in TemplateBodies
    BY <2>1 DEF TemplateOf, TemplatesInv, TemplateTypes, TemplateDocs
  <2>4. rendered'.body = t.body /\ rendered'.values = values /\ rendered'.text = text
    BY <2>2
  <2> QED BY <2>2, <2>3, <2>4 DEF RenderedFits
<1>4. ASSUME NEW c \in TemplateCallers, NEW q, StepTo(c, q) PROVE rendered' = NoRendering
  BY <1>4 DEF StepTo
<1>5. ASSUME NEW c \in TemplateCallers, NEW set, NEW q, Change(c, set, q) PROVE rendered' = NoRendering
  BY <1>5 DEF Change
<1>6. ASSUME NEW c \in TemplateCallers, NEW q,
             \/ \E t : RepositoryCreate(c, t, q) \/ RepositoryUpdate(c, t, q)
             \/ \E id : RepositoryDelete(c, id, q)
      PROVE  rendered' = NoRendering
  BY <1>4, <1>5, <1>6 DEF RepositoryCreate, RepositoryUpdate, RepositoryDelete
<1>7. ASSUME NEW c \in TemplateCallers, NEW q, BeginTemplateCall(c, q) PROVE rendered' = NoRendering
  BY <1>4, <1>7 DEF BeginTemplateCall
<1>8. ASSUME NEW c \in TemplateCallers,
             \/ \E name \in TemplateNames, body \in TemplateBodies :
                    \/ CreateTemplate(c, name, body)
                    \/ \E id \in 1 .. lastTemplate : UpdateTemplate(c, id, name, body)
             \/ \E id \in 1 .. lastTemplate : DeleteTemplate(c, id)
      PROVE  rendered' = NoRendering
  BY <1>7, <1>8 DEF CreateTemplate, UpdateTemplate, DeleteTemplate
<1>9. ASSUME NEW c \in TemplateCallers, GetPrevious(c) \/ AuditTemplate(c) \/ TemplateAuditFails(c)
      PROVE  rendered' = NoRendering
  BY <1>4, <1>9 DEF GetPrevious, AuditTemplate, TemplateAuditFails
<1>10. ASSUME NEW c \in TemplateCallers, WriteTemplate(c) PROVE rendered' = NoRendering
  BY <1>6, <1>10 DEF WriteTemplate
<1>11. ASSUME NEW c \in TemplateCallers, UndoTemplate(c) PROVE rendered' = NoRendering
  <2> DEFINE call == templateCalls[c]
  <2>1. call.does \in {"create", "update", "delete"}
    BY <1>11, TemplateCallFacts DEF UndoTemplate, TemplateCallFits, TemplateCallDocs
  <2>2. \/ RepositoryDelete(c, call.id, Fails(call)) \/ RepositoryUpdate(c, call.previous, Fails(call))
        \/ RepositoryCreate(c, call.previous, Fails(call))
    BY <1>11, <2>1 DEF UndoTemplate
  <2> QED BY <1>6, <2>2
<1>12. CASE RestartForgetsTemplates
  BY <1>1, <1>12 DEF RestartForgetsTemplates
<1>13. CASE UNCHANGED templateVars
  BY <1>2, <1>13 DEF templateVars
<1> QED
  BY <1>1, <1>3, <1>8, <1>9, <1>10, <1>11, <1>12, <1>13 DEF TemplatesNext

\* For any templates, values and overlapping calls: a rendering is the simultaneous replacement
\* of all occurrences of all variables given, although Go visits them in any order and replaces
\* one after the other (internal/modules/k8sops/template/service.go).
THEOREM RenderingsSubstitute == TemplatesSpec => []RenderingIsSubstitution
BY TemplatesStart, TemplatesStep, RenderedStarts, RenderedStaysFit, RenderedIsRight, PTL DEF TemplatesSpec

-------------------------------------------------------------------------------
(*****************************************************************************)
(* Chains.  Every name is kept once, and a chain is sorted by the ranks of   *)
(* its processors.                                                           *)
(*****************************************************************************)
\* A finite set in a strict order, each element in the place of the number of those before it.
TotalOrder(R, S) ==
    /\ R \in SUBSET (S \X S)
    /\ \A x \in S : <<x, x>> \notin R
    /\ \A x, y, z \in S : <<x, y>> \in R /\ <<y, z>> \in R => <<x, z>> \in R
    /\ \A x, y \in S : x # y => <<x, y>> \in R \/ <<y, x>> \in R

Below(R, S, x) == {y \in S : <<y, x>> \in R}

LEMMA MoreAreBelow ==
    ASSUME NEW S, IsFiniteSet(S), NEW R, TotalOrder(R, S), NEW x \in S, NEW z \in S, <<x, z>> \in R
    PROVE  /\ Cardinality(Below(R, S, x)) \in Nat /\ Cardinality(Below(R, S, z)) \in Nat
           /\ Cardinality(Below(R, S, x)) < Cardinality(Below(R, S, z))
<1> DEFINE A == Below(R, S, x)
           B == Below(R, S, z)
<1>1. A \in SUBSET B /\ x \in B /\ x \notin A /\ B \in SUBSET S
  BY DEF TotalOrder, Below
<1> HIDE DEF A, B
<1>2. IsFiniteSet(B)
  BY <1>1, FS_Subset
<1>3. IsFiniteSet(A) /\ Cardinality(A) <= Cardinality(B) /\ (Cardinality(B) = Cardinality(A) => B = A)
  BY <1>1, <1>2, FS_Subset
<1>4. Cardinality(A) \in Nat /\ Cardinality(B) \in Nat
  BY <1>2, <1>3, FS_CardinalityType
<1>5. Cardinality(A) < Cardinality(B)
  BY <1>1, <1>3, <1>4
<1> QED BY <1>4, <1>5 DEF A, B

LEMMA EveryPlaceIsTaken ==
    ASSUME NEW S, IsFiniteSet(S), NEW R, TotalOrder(R, S)
    PROVE  \A k \in 1..Cardinality(S) : \E x \in S : Cardinality(Below(R, S, x)) = k - 1
<1> DEFINE n == Cardinality(S)
           place == [x \in S |-> Cardinality(Below(R, S, x))]
<1>1. n \in Nat
  BY FS_CardinalityType
<1>2. ASSUME NEW x \in S PROVE Cardinality(Below(R, S, x)) \in 0..(n - 1)
  <2> DEFINE A == Below(R, S, x)
             Rest == S \ {x}
  <2>1. A \in SUBSET Rest
    BY DEF Below, TotalOrder
  <2> HIDE DEF A
  <2>2. IsFiniteSet(Rest) /\ Cardinality(Rest) = n - 1
    BY FS_RemoveElement
  <2> HIDE DEF Rest
  <2>3. IsFiniteSet(A) /\ Cardinality(A) <= n - 1
    BY <2>1, <2>2, FS_Subset
  <2>4. Cardinality(A) \in Nat
    BY <2>3, FS_CardinalityType
  <2> HIDE DEF n
  <2>5. Cardinality(A) \in 0..(n - 1)
    BY <1>1, <2>3, <2>4
  <2> QED BY <2>5 DEF A
<1>3. ASSUME NEW x \in S, NEW z \in S, x # z PROVE place[x] # place[z]
  <2>1. CASE <<x, z>> \in R
    BY <2>1, MoreAreBelow
  <2>2. CASE <<z, x>> \in R
    BY <2>2, MoreAreBelow
  <2> QED BY <1>3, <2>1, <2>2 DEF TotalOrder
<1> SUFFICES ASSUME NEW k \in 1..n, \A x \in S : place[x] # k - 1 PROVE FALSE
  OBVIOUS
<1> DEFINE Places == (0..(n - 1)) \ {k - 1}
<1>4. place \in [S -> Places]
  BY <1>2
<1>5. IsFiniteSet(Places) /\ Cardinality(Places) < n
  <2> HIDE DEF n
  <2>1. IsFiniteSet(0..(n - 1)) /\ Cardinality(0..(n - 1)) = n /\ k - 1 \in 0..(n - 1)
    BY <1>1, FS_Interval
  <2>2. IsFiniteSet(Places) /\ Cardinality(Places) = n - 1
    BY <2>1, FS_RemoveElement
  <2> QED BY <1>1, <2>2
<1> HIDE DEF place, Places
<1>6. \E x, z \in S : x # z /\ place[x] = place[z]
  BY <1>4, <1>5, FS_PigeonHole
<1> QED BY <1>3, <1>6

\* Every element is in one place, those before it in earlier ones.
Sorts(order, R, S) ==
    /\ Cardinality(S) \in Nat
    /\ order \in [1..Cardinality(S) -> S]
    /\ \A x \in S : \E k \in 1..Cardinality(S) : order[k] = x
    /\ \A i, j \in 1..Cardinality(S) : i < j => <<order[i], order[j]>> \in R

LEMMA PlacesSort ==
    ASSUME NEW S, IsFiniteSet(S), NEW R, TotalOrder(R, S),
           NEW order \in [1..Cardinality(S) -> S],
           \A k \in 1..Cardinality(S) : Cardinality(Below(R, S, order[k])) = k - 1
    PROVE  Sorts(order, R, S)
<1> DEFINE n == Cardinality(S)
<1>1. n \in Nat
  BY FS_CardinalityType
<1>2. ASSUME NEW i \in 1..n, NEW j \in 1..n, i < j PROVE <<order[i], order[j]>> \in R
  <2>1. order[i] \in S /\ order[j] \in S
    OBVIOUS
  <2>2. Cardinality(Below(R, S, order[i])) = i - 1 /\ Cardinality(Below(R, S, order[j])) = j - 1
    OBVIOUS
  <2> HIDE DEF n
  <2>3. order[i] # order[j]
    BY <1>1, <1>2, <2>2
  <2>4. CASE <<order[j], order[i]>> \in R
    <3>1. Cardinality(Below(R, S, order[j])) < Cardinality(Below(R, S, order[i]))
      BY <2>1, <2>4, MoreAreBelow
    <3> QED BY <1>1, <1>2, <2>2, <3>1
  <2> QED BY <2>1, <2>3, <2>4 DEF TotalOrder
<1>3. ASSUME NEW x \in S PROVE \E k \in 1..n : order[k] = x
  <2>1. SUFFICES ASSUME \A k \in 1..n : order[k] # x PROVE FALSE
    OBVIOUS
  <2> DEFINE Rest == S \ {x}
  <2>2. order \in [1..n -> Rest]
    BY <2>1
  <2>3. IsFiniteSet(Rest) /\ Cardinality(Rest) < Cardinality(1..n) /\ IsFiniteSet(1..n)
    <3>1. IsFiniteSet(Rest) /\ Cardinality(Rest) = n - 1
      BY FS_RemoveElement
    <3> HIDE DEF n, Rest
    <3>2. IsFiniteSet(1..n) /\ Cardinality(1..n) = n
      BY <1>1, FS_Interval
    <3> QED BY <1>1, <3>1, <3>2
  <2> HIDE DEF Rest, n
  <2>4. \E i, j \in 1..n : i # j /\ order[i] = order[j]
    BY <2>2, <2>3, FS_PigeonHole
  <2>5. PICK i \in 1..n, j \in 1..n : i < j /\ order[i] = order[j]
    BY <1>1, <2>4
  <2>6. order[i] \in S
    BY DEF n
  <2> QED BY <1>2, <2>5, <2>6 DEF TotalOrder
<1> QED BY <1>1, <1>2, <1>3 DEF Sorts

\* The names that were seen, one after the other.
Sees(acc, names, X) ==
    /\ acc[0] = <<>>
    /\ acc[Len(names)] = uniqueScalarNames(names)
    /\ \A i \in 0..Len(names) : acc[i] \in Seq(X)
    /\ \A i \in 1..Len(names) :
           acc[i] = IF Contains(acc[i - 1], names[i]) THEN acc[i - 1] ELSE Append(acc[i - 1], names[i])

LEMMA UniqueFold ==
    ASSUME NEW X, NEW names \in Seq(X)
    PROVE  \E acc : Sees(acc, names, X)
<1> DEFINE n == Len(names)
           Step(seen, i) == IF Contains(seen, names[i]) THEN seen ELSE Append(seen, names[i])
           Solves(f) == f = [s \in SUBSET (DOMAIN names) |->
                                 IF s = {} THEN <<>>
                                 ELSE IF Contains(f[s \ {Max(s)}], names[Max(s)]) THEN f[s \ {Max(s)}]
                                      ELSE Append(f[s \ {Max(s)}], names[Max(s)])]
           iter == CHOOSE f : Solves(f)
           acc == [i \in 0..n |-> iter[1..i]]
<1>1. n \in Nat /\ DOMAIN names = 1..n /\ \A i \in 1..n : names[i] \in X
  OBVIOUS
<1>2. uniqueScalarNames(names) = iter[DOMAIN names]
  BY DEF uniqueScalarNames, FoldLeft, MapThenFoldSet
<1> HIDE DEF n
<1>S. ASSUME NEW seen \in Seq(X), NEW i \in 1..n PROVE Step(seen, i) \in Seq(X)
  BY <1>1
<1>3. Solves(iter)
  <2> DEFINE step == [p \in Seq(X) \X (1..n) |-> Step(p[1], p[2])]
  <2>1. \A x \in Seq(X), i \in 1..n : step[<<x, i>>] = Step(x, i)
    OBVIOUS
  <2>2. step \in [Seq(X) \X (1..n) -> Seq(X)] /\ <<>> \in Seq(X)
    <3> HIDE DEF Step
    <3> QED BY <1>S
  <2> HIDE DEF step
  <2>3. PICK f \in [SUBSET (1..n) -> Seq(X)] : Folds(f, n, <<>>, step)
    BY <1>1, <2>2, FoldExists
  <2>4. ASSUME NEW s \in SUBSET (1..n), s # {}
        PROVE  f[s] = Step(f[s \ {Max(s)}], Max(s))
    <3>1. Max(s) \in 1..n
      BY <1>1, <2>4, SomeLargest
    <3>2. f[s \ {Max(s)}] \in Seq(X)
      OBVIOUS
    <3>3. f[s] = step[<<f[s \ {Max(s)}], Max(s)>>]
      BY <2>3, <2>4 DEF Folds
    <3> HIDE DEF Step
    <3> QED BY <2>1, <3>1, <3>2, <3>3
  <2>5. f[{}] = <<>>
    BY <2>3 DEF Folds
  <2>6. Solves(f)
    BY <1>1, <2>4, <2>5
  <2> HIDE DEF Solves
  <2> QED BY <2>6
<1>4. iter[{}] = <<>>
  BY <1>3
<1>5. ASSUME NEW i \in 1..n PROVE iter[1..i] = Step(iter[1..(i - 1)], i)
  <2>1. 1..i \in SUBSET (1..n) /\ 1..i # {} /\ Max(1..i) = i /\ (1..i) \ {i} = 1..(i - 1)
    BY <1>1, Prefix
  <2> HIDE DEF iter
  <2> QED BY <1>1, <1>3, <2>1
<1> HIDE DEF Solves
<1>6. acc[0] = <<>> /\ \A i \in 1..n : acc[i] = Step(acc[i - 1], i)
  <2>1. 1..0 = {} /\ 0 \in 0..n /\ \A i \in 1..n : i \in 0..n /\ i - 1 \in 0..n
    BY <1>1
  <2> HIDE DEF iter
  <2>2. \A i \in 0..n : acc[i] = iter[1..i]
    OBVIOUS
  <2> HIDE DEF acc, Step
  <2> QED BY <1>4, <1>5, <2>1, <2>2
<1>7. acc[n] = iter[DOMAIN names]
  <2> HIDE DEF iter
  <2> QED BY <1>1
<1>8. \A i \in 0..n : acc[i] \in Seq(X)
  <2> HIDE DEF acc, iter, Step
  <2>1. \A i \in 1..n : acc[i - 1] \in Seq(X) => acc[i] \in Seq(X)
    BY <1>6, <1>S
  <2>2. acc[0] \in Seq(X)
    BY <1>6
  <2>3. \A i \in 0..n : acc[i] \in Seq(X)
    BY <1>1, <2>1, <2>2, AllValues
  <2> QED BY <2>3
<1> HIDE DEF acc, iter
<1> QED BY <1>2, <1>6, <1>7, <1>8 DEF n, Sees

\* Every name once.
Once(s) == \A i, j \in 1..Len(s) : s[i] = s[j] => i = j

LEMMA UniqueNames ==
    ASSUME NEW X, NEW names \in Seq(X)
    PROVE  /\ uniqueScalarNames(names) \in Seq(X)
           /\ Once(uniqueScalarNames(names))
           /\ ToSet(uniqueScalarNames(names)) = ToSet(names)
<1>1. PICK acc : Sees(acc, names, X)
  BY UniqueFold
<1> DEFINE n == Len(names)
           Fits(i) == Once(acc[i]) /\ ToSet(acc[i]) = {names[j] : j \in 1..i}
           Q == {i \in 0..n : Fits(i)}
<1>2. n \in Nat
  OBVIOUS
<1>3. Fits(0)
  <2>1. acc[0] = <<>>
    BY <1>1 DEF Sees
  <2> QED BY <2>1 DEF Once, ToSet
<1>4. ASSUME NEW i \in 0..n, Fits(i), i < n PROVE Fits(i + 1)
  <2> DEFINE s == acc[i]
             x == names[i + 1]
  <2>1. i + 1 \in 1..n /\ (i + 1) - 1 = i
    BY <1>2, <1>4
  <2>2. /\ acc[i + 1] = IF Contains(s, x) THEN s ELSE Append(s, x)
        /\ s \in Seq(X) /\ x \in X
    <3>1. acc[i + 1] = IF Contains(acc[(i + 1) - 1], names[i + 1]) THEN acc[(i + 1) - 1]
                       ELSE Append(acc[(i + 1) - 1], names[i + 1])
      BY <1>1, <2>1 DEF Sees
    <3>2. acc[i] \in Seq(X) /\ names[i + 1] \in X
      BY <1>1, <1>4, <2>1 DEF Sees
    <3> QED BY <2>1, <3>1, <3>2
  <2>3. {names[j] : j \in 1..(i + 1)} = {names[j] : j \in 1..i} \cup {x}
    <3>1. 1..(i + 1) = (1..i) \cup {i + 1}
      BY <1>2, <1>4
    <3> QED BY <3>1
  <2>4. Once(s) /\ ToSet(s) = {names[j] : j \in 1..i}
    BY <1>4
  <2> HIDE DEF s, x
  <2>5. CASE Contains(s, x)
    <3>1. x \in ToSet(s)
      BY <2>2, <2>5 DEF Contains, ToSet
    <3> QED BY <2>2, <2>3, <2>4, <2>5, <3>1
  <2>6. CASE ~Contains(s, x)
    <3> DEFINE t == Append(s, x)
    <3>1. /\ t \in Seq(X) /\ Len(t) = Len(s) + 1 /\ Len(s) \in Nat /\ t[Len(s) + 1] = x
          /\ \A j \in 1..Len(s) : t[j] = s[j]
      BY <2>2
    <3> HIDE DEF t
    <3>2. \A j \in 1..Len(s) : s[j] # x
      BY <2>6 DEF Contains
    <3>3. Once(t)
      BY <2>4, <3>1, <3>2 DEF Once
    <3>4. ToSet(t) = ToSet(s) \cup {x}
      <4>1. DOMAIN t = (1..Len(s)) \cup {Len(s) + 1} /\ DOMAIN s = 1..Len(s)
        BY <2>2, <3>1
      <4> QED BY <3>1, <4>1 DEF ToSet
    <3>5. acc[i + 1] = t
      BY <2>2, <2>6 DEF t
    <3> QED BY <2>3, <2>4, <3>3, <3>4, <3>5
  <2> QED BY <2>5, <2>6
<1>5. Fits(n)
  <2> HIDE DEF Fits
  <2>1. 0 \in Q /\ \A i \in Q : i < n => i + 1 \in Q
    BY <1>2, <1>3, <1>4
  <2>2. Q \in SUBSET (0..n)
    OBVIOUS
  <2>3. Q = 0..n
    <3> HIDE DEF Q
    <3> QED BY <1>2, <2>1, <2>2, UpToInduction
  <2>4. n \in 0..n
    BY <1>2
  <2> QED BY <2>3, <2>4
<1>6. acc[n] = uniqueScalarNames(names) /\ acc[n] \in Seq(X)
  BY <1>1, <1>2 DEF Sees
<1>7. ToSet(names) = {names[j] : j \in 1..n}
  BY DEF ToSet
<1> QED BY <1>5, <1>6, <1>7

LEMMA SortedNames ==
    ASSUME NEW X, NEW names \in Seq(X), Once(names)
    PROVE  LET chain == sortProcessors(names)
           IN  /\ chain \in Seq(X) /\ ToSet(chain) = ToSet(names) /\ Once(chain)
               /\ \A i, j \in 1..Len(chain) :
                      i < j => processorRank(chain[i]) <= processorRank(chain[j])
<1> DEFINE S == DOMAIN names
           rank == [i \in S |-> processorRank(names[i])]
           Before(i, j) == \/ processorRank(names[i]) < processorRank(names[j])
                           \/ processorRank(names[i]) = processorRank(names[j]) /\ i < j
           R == {p \in S \X S : Before(p[1], p[2])}
           Place(k) == CHOOSE x \in S : Cardinality({y \in S : Before(y, x)}) = k - 1
           order == [k \in 1..Cardinality(S) |-> Place(k)]
           chain == [i \in DOMAIN order |-> names[order[i]]]
<1>1. S = 1..Len(names) /\ Len(names) \in Nat /\ rank \in [S -> Nat]
  BY DEF processorRank
<1>2. sortProcessors(names) = chain
  BY DEF sortProcessors, InOrder
<1> HIDE DEF order, chain, Place
<1>3. IsFiniteSet(S) /\ Cardinality(S) = Len(names)
  <2> HIDE DEF S
  <2>1. IsFiniteSet(1..Len(names)) /\ Cardinality(1..Len(names)) = Len(names)
    BY <1>1, FS_Interval
  <2> QED BY <1>1, <2>1
<1>4. \A x, y \in S : <<x, y>> \in R <=> Before(x, y)
  OBVIOUS
<1>R. \A x, y \in S : Before(x, y) <=> rank[x] < rank[y] \/ (rank[x] = rank[y] /\ x < y)
  OBVIOUS
<1> HIDE DEF rank, Before
<1>5. TotalOrder(R, S)
  <2>1. \A x \in S : ~Before(x, x)
    BY <1>1, <1>R
  <2>2. \A x, y, z \in S : Before(x, y) /\ Before(y, z) => Before(x, z)
    BY <1>1, <1>R
  <2>3. \A x, y \in S : x # y => Before(x, y) \/ Before(y, x)
    BY <1>1, <1>R
  <2>4. R \in SUBSET (S \X S)
    OBVIOUS
  <2> HIDE DEF R, S
  <2> QED BY <1>4, <2>1, <2>2, <2>3, <2>4 DEF TotalOrder
<1>6. \A x \in S : {y \in S : Before(y, x)} = Below(R, S, x)
  BY <1>4 DEF Below
<1>7. ASSUME NEW k \in 1..Cardinality(S)
      PROVE  Place(k) \in S /\ Cardinality(Below(R, S, Place(k))) = k - 1
  <2> HIDE DEF R, S
  <2>1. \E x \in S : Cardinality(Below(R, S, x)) = k - 1
    BY <1>3, <1>5, EveryPlaceIsTaken
  <2>2. \E x \in S : Cardinality({y \in S : Before(y, x)}) = k - 1
    BY <1>6, <2>1
  <2>3. Place(k) \in S /\ Cardinality({y \in S : Before(y, Place(k))}) = k - 1
    BY <2>2 DEF Place
  <2> QED BY <1>6, <2>3
<1>8. /\ order \in [1..Cardinality(S) -> S]
      /\ \A k \in 1..Cardinality(S) : Cardinality(Below(R, S, order[k])) = k - 1
  <2> HIDE DEF R, S
  <2> QED BY <1>7 DEF order
<1>9. Sorts(order, R, S)
  <2> HIDE DEF order, R, S
  <2> QED BY <1>3, <1>5, <1>8, PlacesSort
<1>10. /\ order \in [1..Len(names) -> 1..Len(names)]
       /\ \A x \in 1..Len(names) : \E k \in 1..Len(names) : order[k] = x
       /\ \A i, j \in 1..Len(names) : i < j => <<order[i], order[j]>> \in R
  <2> HIDE DEF order, R
  <2> QED BY <1>1, <1>3, <1>9 DEF Sorts
<1>11. /\ chain \in Seq(X) /\ Len(chain) = Len(names) /\ DOMAIN chain = 1..Len(names)
       /\ \A i \in 1..Len(names) : chain[i] = names[order[i]]
  <2>1. \A i \in 1..Len(names) : names[order[i]] \in X
    BY <1>10
  <2> HIDE DEF R, S
  <2>2. DOMAIN order = 1..Len(names)
    BY <1>10
  <2>3. chain = [i \in 1..Len(names) |-> names[order[i]]]
    BY <2>2 DEF chain
  <2>4. chain \in [1..Len(names) -> X]
    BY <2>1, <2>3
  <2>5. chain \in Seq(X) /\ Len(chain) = Len(names)
    BY <1>1, <2>4
  <2> QED BY <2>3, <2>5
<1>12. ToSet(chain) = ToSet(names)
  <2>1. DOMAIN names = 1..Len(names)
    OBVIOUS
  <2>2. ASSUME NEW i \in 1..Len(names) PROVE chain[i] \in ToSet(names) /\ names[i] \in ToSet(chain)
    <3>1. chain[i] = names[order[i]] /\ order[i] \in DOMAIN names
      BY <1>10, <1>11, <2>1
    <3>2. PICK k \in 1..Len(names) : order[k] = i
      BY <1>10
    <3>3. names[i] = chain[k] /\ k \in DOMAIN chain
      BY <1>11, <3>2
    <3> QED BY <3>1, <3>3 DEF ToSet
  <2> HIDE DEF R, S
  <2> QED BY <1>11, <2>1, <2>2 DEF ToSet
<1>13. Once(chain)
  <2> SUFFICES ASSUME NEW i \in 1..Len(names), NEW j \in 1..Len(names), chain[i] = chain[j]
               PROVE  i = j
    BY <1>11 DEF Once
  <2>1. /\ names[order[i]] = names[order[j]]
        /\ order[i] \in 1..Len(names) /\ order[j] \in 1..Len(names)
    BY <1>10, <1>11
  <2>2. order[i] = order[j]
    BY <2>1 DEF Once
  <2>3. <<order[i], order[j]>> \notin R /\ <<order[j], order[i]>> \notin R
    <3> HIDE DEF R, S
    <3>1. order[i] \in S
      BY <1>1, <2>1
    <3> QED BY <1>5, <2>2, <3>1 DEF TotalOrder
  <2> HIDE DEF R, S
  <2>4. ~(i < j) /\ ~(j < i)
    BY <1>10, <2>3
  <2> QED BY <1>1, <2>4
<1>14. ASSUME NEW i \in 1..Len(chain), NEW j \in 1..Len(chain), i < j
       PROVE  processorRank(chain[i]) <= processorRank(chain[j])
  <2>1. i \in 1..Len(names) /\ j \in 1..Len(names)
    BY <1>11
  <2>2. <<order[i], order[j]>> \in R /\ order[i] \in S /\ order[j] \in S
    <3> HIDE DEF R
    <3> QED BY <1>1, <1>10, <1>14, <2>1
  <2>3. rank[order[i]] <= rank[order[j]]
    <3>1. Before(order[i], order[j])
      BY <1>4, <2>2
    <3> HIDE DEF R, S
    <3>2. rank[order[i]] \in Nat /\ rank[order[j]] \in Nat
      BY <1>1, <2>2
    <3> QED BY <1>R, <2>2, <3>1, <3>2
  <2>4. chain[i] = names[order[i]] /\ chain[j] = names[order[j]]
    BY <1>11, <2>1
  <2> QED BY <2>2, <2>3, <2>4 DEF rank
<1> QED BY <1>2, <1>11, <1>12, <1>13, <1>14

-------------------------------------------------------------------------------
(*****************************************************************************)
(* Documents.  Patches that have each a processor of their own add it to     *)
(* the base, whatever their order.                                           *)
(*****************************************************************************)
DocumentsOf(P) == {p.document : p \in P}

\* The documents of the enabled patches, one after the other.
Shows(acc, pipelines, X) ==
    /\ acc[0] = <<>>
    /\ acc[Len(pipelines)] = EnabledDocuments(pipelines)
    /\ \A i \in 0..Len(pipelines) : acc[i] \in Seq(X)
    /\ \A i \in 1..Len(pipelines) :
           acc[i] = IF pipelines[i].enabled THEN Append(acc[i - 1], pipelines[i].document)
                    ELSE acc[i - 1]

LEMMA EnabledFold ==
    ASSUME NEW P, NEW pipelines \in Seq(P)
    PROVE  \E acc : Shows(acc, pipelines, DocumentsOf(P))
<1> DEFINE n == Len(pipelines)
           X == DocumentsOf(P)
           Step(shown, i) == IF pipelines[i].enabled THEN Append(shown, pipelines[i].document) ELSE shown
           Solves(f) == f = [s \in SUBSET (DOMAIN pipelines) |->
                                 IF s = {} THEN <<>>
                                 ELSE IF pipelines[Max(s)].enabled
                                      THEN Append(f[s \ {Max(s)}], pipelines[Max(s)].document)
                                      ELSE f[s \ {Max(s)}]]
           iter == CHOOSE f : Solves(f)
           acc == [i \in 0..n |-> iter[1..i]]
<1>1. n \in Nat /\ DOMAIN pipelines = 1..n /\ \A i \in 1..n : pipelines[i].document \in X
  BY DEF DocumentsOf
<1>2. EnabledDocuments(pipelines) = iter[DOMAIN pipelines]
  BY DEF EnabledDocuments, FoldLeft, MapThenFoldSet
<1> HIDE DEF n, X
<1>S. ASSUME NEW shown \in Seq(X), NEW i \in 1..n PROVE Step(shown, i) \in Seq(X)
  BY <1>1
<1>3. Solves(iter)
  <2> DEFINE step == [p \in Seq(X) \X (1..n) |-> Step(p[1], p[2])]
  <2>1. \A x \in Seq(X), i \in 1..n : step[<<x, i>>] = Step(x, i)
    OBVIOUS
  <2>2. step \in [Seq(X) \X (1..n) -> Seq(X)] /\ <<>> \in Seq(X)
    <3> HIDE DEF Step
    <3> QED BY <1>S
  <2> HIDE DEF step
  <2>3. PICK f \in [SUBSET (1..n) -> Seq(X)] : Folds(f, n, <<>>, step)
    BY <1>1, <2>2, FoldExists
  <2>4. ASSUME NEW s \in SUBSET (1..n), s # {}
        PROVE  f[s] = Step(f[s \ {Max(s)}], Max(s))
    <3>1. Max(s) \in 1..n
      BY <1>1, <2>4, SomeLargest
    <3>2. f[s \ {Max(s)}] \in Seq(X)
      OBVIOUS
    <3>3. f[s] = step[<<f[s \ {Max(s)}], Max(s)>>]
      BY <2>3, <2>4 DEF Folds
    <3> HIDE DEF Step
    <3> QED BY <2>1, <3>1, <3>2, <3>3
  <2>5. f[{}] = <<>>
    BY <2>3 DEF Folds
  <2>6. Solves(f)
    BY <1>1, <2>4, <2>5
  <2> HIDE DEF Solves
  <2> QED BY <2>6
<1>4. iter[{}] = <<>>
  BY <1>3
<1>5. ASSUME NEW i \in 1..n PROVE iter[1..i] = Step(iter[1..(i - 1)], i)
  <2>1. 1..i \in SUBSET (1..n) /\ 1..i # {} /\ Max(1..i) = i /\ (1..i) \ {i} = 1..(i - 1)
    BY <1>1, Prefix
  <2> HIDE DEF iter
  <2>2. iter[1..i] = Step(iter[(1..i) \ {Max(1..i)}], Max(1..i))
    <3> HIDE DEF n
    <3> DEFINE s == 1..i
    <3>1. s \in SUBSET (DOMAIN pipelines) /\ s # {}
      BY <1>1, <2>1
    <3> HIDE DEF s
    <3>2. iter[s] = Step(iter[s \ {Max(s)}], Max(s))
      BY <1>3, <3>1
    <3> QED BY <3>2 DEF s
  <2> HIDE DEF Step
  <2> QED BY <2>1, <2>2
<1> HIDE DEF Solves
<1>6. acc[0] = <<>> /\ \A i \in 1..n : acc[i] = Step(acc[i - 1], i)
  <2>1. 1..0 = {} /\ 0 \in 0..n /\ \A i \in 1..n : i \in 0..n /\ i - 1 \in 0..n
    BY <1>1
  <2> HIDE DEF iter
  <2>2. \A i \in 0..n : acc[i] = iter[1..i]
    OBVIOUS
  <2> HIDE DEF acc, Step
  <2> QED BY <1>4, <1>5, <2>1, <2>2
<1>7. acc[n] = iter[DOMAIN pipelines]
  <2> HIDE DEF iter
  <2> QED BY <1>1
<1>8. \A i \in 0..n : acc[i] \in Seq(X)
  <2> HIDE DEF acc, iter, Step
  <2>1. \A i \in 1..n : acc[i - 1] \in Seq(X) => acc[i] \in Seq(X)
    BY <1>6, <1>S
  <2>2. acc[0] \in Seq(X)
    BY <1>6
  <2>3. \A i \in 0..n : acc[i] \in Seq(X)
    BY <1>1, <2>1, <2>2, AllValues
  <2> QED BY <2>3
<1> HIDE DEF acc, iter
<1> QED BY <1>2, <1>6, <1>7, <1>8 DEF n, X, Shows

\* The document of a patch is that of no other one.
OwnDocuments(patches) ==
    \A i, j \in 1..Len(patches) : patches[i].document = patches[j].document => i = j

LEMMA EnabledOnes ==
    ASSUME NEW P, NEW pipelines \in Seq(P), OwnDocuments(pipelines)
    PROVE  /\ EnabledDocuments(pipelines) \in Seq(DocumentsOf(P))
           /\ Once(EnabledDocuments(pipelines))
           /\ ToSet(EnabledDocuments(pipelines))
                  = {p.document : p \in {q \in ToSet(pipelines) : q.enabled}}
<1>1. PICK acc : Shows(acc, pipelines, DocumentsOf(P))
  BY EnabledFold
<1> DEFINE n == Len(pipelines)
           X == DocumentsOf(P)
           Enabled(i) == {j \in 1..i : pipelines[j].enabled}
           Fits(i) == Once(acc[i]) /\ ToSet(acc[i]) = {pipelines[j].document : j \in Enabled(i)}
           Q == {i \in 0..n : Fits(i)}
<1>2. n \in Nat
  OBVIOUS
<1>3. Fits(0)
  <2>1. acc[0] = <<>>
    BY <1>1 DEF Shows
  <2> QED BY <2>1 DEF Once, ToSet
<1>4. ASSUME NEW i \in 0..n, Fits(i), i < n PROVE Fits(i + 1)
  <2> DEFINE s == acc[i]
             x == pipelines[i + 1].document
  <2>1. i + 1 \in 1..n /\ (i + 1) - 1 = i /\ 1..(i + 1) = (1..i) \cup {i + 1}
        /\ \A j \in 1..i : j \in 1..n /\ j # i + 1
    BY <1>2, <1>4
  <2>2. /\ acc[i + 1] = IF pipelines[i + 1].enabled THEN Append(s, x) ELSE s
        /\ s \in Seq(X) /\ x \in X
    <3>1. acc[i + 1] = IF pipelines[i + 1].enabled
                       THEN Append(acc[(i + 1) - 1], pipelines[i + 1].document)
                       ELSE acc[(i + 1) - 1]
      BY <1>1, <2>1 DEF Shows
    <3>2. acc[i] \in Seq(X) /\ pipelines[i + 1] \in P
      BY <1>1, <1>4, <2>1 DEF Shows
    <3> QED BY <2>1, <3>1, <3>2 DEF DocumentsOf
  <2>3. Once(s) /\ ToSet(s) = {pipelines[j].document : j \in Enabled(i)}
    BY <1>4
  <2>4. \A j \in 1..i : pipelines[j].document # x
    BY <2>1 DEF OwnDocuments
  <2>5. CASE ~pipelines[i + 1].enabled
    <3>1. Enabled(i + 1) = Enabled(i)
      BY <2>1, <2>5
    <3> QED BY <2>2, <2>3, <2>5, <3>1
  <2>6. CASE pipelines[i + 1].enabled
    <3> DEFINE t == Append(s, x)
    <3>1. Enabled(i + 1) = Enabled(i) \cup {i + 1}
      BY <2>1, <2>6
    <3>2. {pipelines[j].document : j \in Enabled(i + 1)} = ToSet(s) \cup {x}
      BY <2>3, <3>1
    <3> HIDE DEF s
    <3>3. /\ t \in Seq(X) /\ Len(t) = Len(s) + 1 /\ Len(s) \in Nat /\ t[Len(s) + 1] = x
          /\ \A j \in 1..Len(s) : t[j] = s[j]
      <4> HIDE DEF x
      <4> QED BY <2>2
    <3>4. \A j \in 1..Len(s) : s[j] # x
      <4>1. \A j \in 1..Len(s) : s[j] \in ToSet(s)
        BY <2>2 DEF ToSet
      <4> QED BY <2>3, <2>4, <4>1
    <3> HIDE DEF t, x, Enabled
    <3>5. Once(t)
      BY <2>3, <3>3, <3>4 DEF Once
    <3>6. ToSet(t) = ToSet(s) \cup {x}
      <4>1. DOMAIN t = (1..Len(s)) \cup {Len(s) + 1} /\ DOMAIN s = 1..Len(s)
        BY <2>2, <3>3
      <4> QED BY <3>3, <4>1 DEF ToSet
    <3>7. acc[i + 1] = t
      BY <2>2, <2>6 DEF t
    <3> QED BY <3>2, <3>5, <3>6, <3>7
  <2> QED BY <2>5, <2>6
<1>5. Fits(n)
  <2> HIDE DEF Fits
  <2>1. 0 \in Q /\ \A i \in Q : i < n => i + 1 \in Q
    BY <1>2, <1>3, <1>4
  <2>2. Q \in SUBSET (0..n)
    OBVIOUS
  <2>3. Q = 0..n
    <3> HIDE DEF Q
    <3> QED BY <1>2, <2>1, <2>2, UpToInduction
  <2>4. n \in 0..n
    BY <1>2
  <2> QED BY <2>3, <2>4
<1>6. acc[n] = EnabledDocuments(pipelines) /\ acc[n] \in Seq(X)
  BY <1>1, <1>2 DEF Shows
<1>7. {p.document : p \in {q \in ToSet(pipelines) : q.enabled}}
          = {pipelines[j].document : j \in Enabled(n)}
  BY DEF ToSet
<1> QED BY <1>5, <1>6, <1>7

DocumentType(Nm, St) == UNION {[processors : [D -> Seq(St)], chain : Seq(Nm)] : D \in SUBSET Nm}

\* What merging two documents gives.
MergesTo(m, base, patch, Nm, St) ==
    /\ m \in DocumentType(Nm, St)
    /\ m.chain = base.chain \o patch.chain
    /\ DOMAIN m.processors = (DOMAIN base.processors) \cup (DOMAIN patch.processors)
    /\ \A n : Lookup(m.processors, n) = Lookup(base.processors, n) \o Lookup(patch.processors, n)
    /\ \A n : Lookup(base.processors, n) \in Seq(St) /\ Lookup(patch.processors, n) \in Seq(St)

LEMMA MergeType ==
    ASSUME NEW Nm, NEW St, NEW base \in DocumentType(Nm, St), NEW patch \in DocumentType(Nm, St)
    PROVE  MergesTo(MergeYAMLDocuments(base, patch), base, patch, Nm, St)
<1>1. PICK D \in SUBSET Nm : base \in [processors : [D -> Seq(St)], chain : Seq(Nm)]
  BY DEF DocumentType
<1>2. PICK E \in SUBSET Nm : patch \in [processors : [E -> Seq(St)], chain : Seq(Nm)]
  BY DEF DocumentType
<1> DEFINE p == base.processors
           q == patch.processors
           r == [n \in D \cup E |-> Lookup(p, n) \o Lookup(q, n)]
           m == MergeYAMLDocuments(base, patch)
<1>3. p \in [D -> Seq(St)] /\ q \in [E -> Seq(St)] /\ base.chain \in Seq(Nm) /\ patch.chain \in Seq(Nm)
  BY <1>1, <1>2
<1>4. m = [processors |-> r, chain |-> base.chain \o patch.chain]
  BY <1>3 DEF MergeYAMLDocuments
<1> HIDE DEF p, q, m
<1>5. \A n : Lookup(p, n) \in Seq(St) /\ Lookup(q, n) \in Seq(St)
  BY <1>3 DEF Lookup
<1>6. r \in [D \cup E -> Seq(St)]
  BY <1>5
<1>7. \A n : Lookup(r, n) = Lookup(p, n) \o Lookup(q, n)
  <2> SUFFICES ASSUME NEW n PROVE Lookup(r, n) = Lookup(p, n) \o Lookup(q, n)
    OBVIOUS
  <2>1. CASE n \in D \cup E
    BY <2>1 DEF Lookup
  <2>2. CASE n \notin D \cup E
    <3>1. Lookup(r, n) = <<>> /\ Lookup(p, n) = <<>> /\ Lookup(q, n) = <<>>
      BY <1>3, <1>6, <2>2 DEF Lookup
    <3> HIDE DEF r
    <3> QED BY <3>1
  <2> QED BY <2>1, <2>2
<1> HIDE DEF r
<1>8. m \in DocumentType(Nm, St)
  <2>1. base.chain \o patch.chain \in Seq(Nm) /\ D \cup E \in SUBSET Nm
    BY <1>3
  <2>2. m \in [processors : [D \cup E -> Seq(St)], chain : Seq(Nm)]
    BY <1>4, <1>6, <2>1
  <2> HIDE DEF m
  <2> QED BY <2>1, <2>2 DEF DocumentType
<1>9. m.chain = base.chain \o patch.chain /\ m.processors = r /\ DOMAIN r = D \cup E
      /\ DOMAIN p = D /\ DOMAIN q = E
  BY <1>3, <1>4, <1>6
<1> QED BY <1>5, <1>7, <1>8, <1>9 DEF m, p, q, MergesTo

\* What the documents make together.
Merged(docs) == FoldLeft(MergeYAMLDocuments, Head(docs), Tail(docs))

Merges(acc, docs, X) ==
    /\ acc[0] = docs[1]
    /\ acc[Len(docs) - 1] = Merged(docs)
    /\ \A i \in 0..(Len(docs) - 1) : acc[i] \in X
    /\ \A i \in 1..(Len(docs) - 1) : acc[i] = MergeYAMLDocuments(acc[i - 1], docs[i + 1])

LEMMA MergeFold ==
    ASSUME NEW Nm, NEW St, NEW docs \in Seq(DocumentType(Nm, St)), docs # <<>>
    PROVE  \E acc : Merges(acc, docs, DocumentType(Nm, St))
<1> DEFINE n == Len(docs) - 1
           X == DocumentType(Nm, St)
           rest == Tail(docs)
           Step(done, i) == MergeYAMLDocuments(done, rest[i])
           Solves(f) == f = [s \in SUBSET (DOMAIN rest) |->
                                 IF s = {} THEN Head(docs)
                                 ELSE MergeYAMLDocuments(f[s \ {Max(s)}], rest[Max(s)])]
           iter == CHOOSE f : Solves(f)
           acc == [i \in 0..n |-> iter[1..i]]
<1>1. n \in Nat /\ DOMAIN rest = 1..n /\ Head(docs) \in X /\ Head(docs) = docs[1]
      /\ \A i \in 1..n : rest[i] \in X /\ rest[i] = docs[i + 1]
  <2> HIDE DEF X
  <2>1. docs \in Seq(X)
    BY DEF X
  <2>2. /\ Len(docs) \in Nat \ {0} /\ Head(docs) = docs[1] /\ docs[1] \in X
        /\ rest \in Seq(X) /\ Len(rest) = Len(docs) - 1
        /\ \A i \in 1..Len(rest) : rest[i] = docs[i + 1]
    BY <2>1, HeadTailProperties
  <2> HIDE DEF rest
  <2> QED BY <2>2
<1>2. Merged(docs) = iter[DOMAIN rest]
  BY DEF Merged, FoldLeft, MapThenFoldSet
<1> HIDE DEF n, X, rest
<1>S. ASSUME NEW done \in X, NEW i \in 1..n PROVE Step(done, i) \in X
  BY <1>1, MergeType DEF X, MergesTo
<1>3. Solves(iter)
  <2> DEFINE step == [p \in X \X (1..n) |-> Step(p[1], p[2])]
  <2>1. \A x \in X, i \in 1..n : step[<<x, i>>] = Step(x, i)
    OBVIOUS
  <2>2. step \in [X \X (1..n) -> X]
    <3> HIDE DEF Step
    <3> QED BY <1>S
  <2> HIDE DEF step
  <2>3. PICK f \in [SUBSET (1..n) -> X] : Folds(f, n, Head(docs), step)
    BY <1>1, <2>2, FoldExists
  <2>4. ASSUME NEW s \in SUBSET (1..n), s # {}
        PROVE  f[s] = Step(f[s \ {Max(s)}], Max(s))
    <3>1. Max(s) \in 1..n
      BY <1>1, <2>4, SomeLargest
    <3>2. f[s \ {Max(s)}] \in X
      OBVIOUS
    <3>3. f[s] = step[<<f[s \ {Max(s)}], Max(s)>>]
      BY <2>3, <2>4 DEF Folds
    <3> HIDE DEF Step
    <3> QED BY <2>1, <3>1, <3>2, <3>3
  <2>5. f[{}] = Head(docs)
    BY <2>3 DEF Folds
  <2>6. Solves(f)
    BY <1>1, <2>4, <2>5
  <2> HIDE DEF Solves
  <2> QED BY <2>6
<1>4. iter[{}] = Head(docs)
  BY <1>3
<1>5. ASSUME NEW i \in 1..n PROVE iter[1..i] = Step(iter[1..(i - 1)], i)
  <2>1. 1..i \in SUBSET (1..n) /\ 1..i # {} /\ Max(1..i) = i /\ (1..i) \ {i} = 1..(i - 1)
    BY <1>1, Prefix
  <2> HIDE DEF iter
  <2>2. iter[1..i] = Step(iter[(1..i) \ {Max(1..i)}], Max(1..i))
    <3> HIDE DEF n
    <3> DEFINE s == 1..i
    <3>1. s \in SUBSET (DOMAIN rest) /\ s # {}
      BY <1>1, <2>1
    <3> HIDE DEF s
    <3>2. iter[s] = Step(iter[s \ {Max(s)}], Max(s))
      BY <1>3, <3>1
    <3> QED BY <3>2 DEF s
  <2> HIDE DEF Step
  <2> QED BY <2>1, <2>2
<1> HIDE DEF Solves
<1>6. acc[0] = Head(docs) /\ \A i \in 1..n : acc[i] = Step(acc[i - 1], i)
  <2>1. 1..0 = {} /\ 0 \in 0..n /\ \A i \in 1..n : i \in 0..n /\ i - 1 \in 0..n
    BY <1>1
  <2> HIDE DEF iter
  <2>2. \A i \in 0..n : acc[i] = iter[1..i]
    OBVIOUS
  <2> HIDE DEF acc, Step
  <2> QED BY <1>4, <1>5, <2>1, <2>2
<1>7. acc[n] = iter[DOMAIN rest]
  <2> HIDE DEF iter
  <2> QED BY <1>1
<1>8. \A i \in 0..n : acc[i] \in X
  <2> HIDE DEF acc, iter, Step
  <2>1. \A i \in 1..n : acc[i - 1] \in X => acc[i] \in X
    BY <1>6, <1>S
  <2>2. acc[0] \in X
    BY <1>1, <1>6
  <2>3. \A i \in 0..n : acc[i] \in X
    BY <1>1, <2>1, <2>2, AllValues
  <2> QED BY <2>3
<1> HIDE DEF acc, iter
<1> QED BY <1>1, <1>2, <1>6, <1>7, <1>8 DEF n, X, Merges

\* The documents, of the first ones, that have a processor of a name.
Having(docs, i, n) == {j \in 1..i : n \in DOMAIN docs[j].processors}

\* What the first documents make together, where at most two have a processor of a name.
Adds(m, docs, i) ==
    /\ \A n : n \in ToSet(m.chain) <=> \E j \in 1..i : n \in ToSet(docs[j].chain)
    /\ \A n : n \in DOMAIN m.processors <=> \E j \in 1..i : n \in DOMAIN docs[j].processors
    /\ \A n : Having(docs, i, n) = {} => Lookup(m.processors, n) = <<>>
    /\ \A n : \A j \in 1..i :
           Having(docs, i, n) = {j} => Lookup(m.processors, n) = Lookup(docs[j].processors, n)
    /\ \A n : \A j, k \in 1..i :
           j < k /\ Having(docs, i, n) = {j, k} =>
               Lookup(m.processors, n)
                   = Lookup(docs[j].processors, n) \o Lookup(docs[k].processors, n)

LEMMA ConcatSet ==
    ASSUME NEW X, NEW s \in Seq(X), NEW t \in Seq(X)
    PROVE  ToSet(s \o t) = ToSet(s) \cup ToSet(t)
<1>1. /\ Len(s \o t) = Len(s) + Len(t) /\ Len(s) \in Nat /\ Len(t) \in Nat
      /\ DOMAIN (s \o t) = 1..(Len(s) + Len(t)) /\ DOMAIN s = 1..Len(s) /\ DOMAIN t = 1..Len(t)
      /\ \A i \in 1..Len(s) : (s \o t)[i] = s[i]
      /\ \A i \in 1..Len(t) : (s \o t)[Len(s) + i] = t[i]
  OBVIOUS
<1> DEFINE u == s \o t
<1> HIDE DEF u
<1>2. /\ DOMAIN u = 1..(Len(s) + Len(t))
      /\ \A i \in 1..Len(s) : u[i] = s[i]
      /\ \A i \in 1..Len(t) : u[Len(s) + i] = t[i]
  BY <1>1 DEF u
<1>3. ASSUME NEW i \in DOMAIN u PROVE u[i] \in ToSet(s) \cup ToSet(t)
  <2>1. CASE i \in 1..Len(s)
    BY <1>1, <1>2, <2>1 DEF ToSet
  <2>2. CASE i \notin 1..Len(s)
    <3>1. i - Len(s) \in 1..Len(t) /\ Len(s) + (i - Len(s)) = i
      BY <1>1, <1>2, <2>2
    <3>2. u[i] = t[i - Len(s)]
      BY <1>2, <3>1
    <3> QED BY <1>1, <3>1, <3>2 DEF ToSet
  <2> QED BY <2>1, <2>2
<1>4. ASSUME NEW i \in 1..Len(s) PROVE s[i] \in ToSet(u)
  <2>1. i \in DOMAIN u
    BY <1>1, <1>2
  <2> QED BY <1>2, <2>1 DEF ToSet
<1>5. ASSUME NEW i \in 1..Len(t) PROVE t[i] \in ToSet(u)
  <2>1. Len(s) + i \in DOMAIN u
    BY <1>1, <1>2
  <2> QED BY <1>2, <2>1 DEF ToSet
<1>6. ToSet(u) = ToSet(s) \cup ToSet(t)
  BY <1>1, <1>3, <1>4, <1>5 DEF ToSet
<1> QED BY <1>6 DEF u

LEMMA MergedAdds ==
    ASSUME NEW Nm, NEW St, NEW docs \in Seq(DocumentType(Nm, St)), docs # <<>>
    PROVE  Merged(docs) \in DocumentType(Nm, St) /\ Adds(Merged(docs), docs, Len(docs))
<1> DEFINE X == DocumentType(Nm, St)
           n == Len(docs) - 1
<1>1. PICK acc : Merges(acc, docs, X)
  BY MergeFold
<1> DEFINE Fits(i) == Adds(acc[i], docs, i + 1)
           Q == {i \in 0..n : Fits(i)}
<1>2. n \in Nat /\ n + 1 = Len(docs) /\ \A i \in 1..Len(docs) : docs[i] \in X
  <2> HIDE DEF X
  <2>1. docs \in Seq(X)
    BY DEF X
  <2>2. Len(docs) \in Nat \ {0}
    BY <2>1, EmptySeq
  <2> QED BY <2>1, <2>2
<1>3. Fits(0)
  <2>1. acc[0] = docs[1] /\ 1..(0 + 1) = {1}
    BY <1>1 DEF Merges
  <2> HIDE DEF X
  <2>2. \A name : Having(docs, 0 + 1, name) = {} => Lookup(docs[1].processors, name) = <<>>
    BY <2>1 DEF Having, Lookup
  <2> QED BY <2>1, <2>2 DEF Adds
<1>4. ASSUME NEW i \in 0..n, Fits(i), i < n PROVE Fits(i + 1)
  <2> DEFINE l == i + 2
             b == acc[i]
             d == docs[l]
             m == acc[i + 1]
  <2>1. /\ l \in 1..Len(docs) /\ l = (i + 1) + 1 /\ 1..l = (1..(i + 1)) \cup {l}
        /\ \A j \in 1..(i + 1) : j < l
        /\ i + 1 \in 1..n /\ (i + 1) - 1 = i
    <3> HIDE DEF n
    <3> QED BY <1>2, <1>4
  <2>2. m = MergeYAMLDocuments(b, d) /\ b \in X /\ d \in X
    <3>1. acc[i + 1] = MergeYAMLDocuments(acc[(i + 1) - 1], docs[(i + 1) + 1])
      BY <1>1, <2>1 DEF Merges
    <3>2. acc[i] \in X /\ docs[l] \in X
      BY <1>1, <1>2, <1>4, <2>1 DEF Merges
    <3> QED BY <2>1, <3>1, <3>2
  <2>3. Adds(b, docs, i + 1)
    BY <1>4
  <2> HIDE DEF b, m
  <2>4. /\ m.chain = b.chain \o d.chain
        /\ DOMAIN m.processors = (DOMAIN b.processors) \cup (DOMAIN d.processors)
        /\ \A name : /\ Lookup(m.processors, name)
                           = Lookup(b.processors, name) \o Lookup(d.processors, name)
                     /\ Lookup(b.processors, name) \in Seq(St)
                     /\ Lookup(d.processors, name) \in Seq(St)
    <3> HIDE DEF d
    <3>1. b \in DocumentType(Nm, St) /\ d \in DocumentType(Nm, St)
      BY <2>2
    <3>2. MergesTo(m, b, d, Nm, St)
      BY <2>2, <3>1, MergeType
    <3> QED BY <3>2 DEF MergesTo
  <2>5. ToSet(m.chain) = ToSet(b.chain) \cup ToSet(d.chain)
    <3> DEFINE s == b.chain
               t == d.chain
    <3>1. s \in Seq(Nm) /\ t \in Seq(Nm)
      BY <2>2 DEF DocumentType
    <3> HIDE DEF s, t
    <3>2. ToSet(s \o t) = ToSet(s) \cup ToSet(t)
      BY <3>1, ConcatSet
    <3> QED BY <2>4, <3>2 DEF s, t
  <2> HIDE DEF l, n, X, d
  <2>6. \A name : Having(docs, l, name) = IF name \in DOMAIN d.processors
                                         THEN Having(docs, i + 1, name) \cup {l}
                                         ELSE Having(docs, i + 1, name)
    BY <2>1 DEF Having, d
  <2>7. \A name : Having(docs, i + 1, name) \subseteq 1..(i + 1)
    BY DEF Having
  <2>8. l \notin 1..(i + 1) /\ l \in 1..l
    BY <2>1
  <2>9. \A name : name \notin DOMAIN d.processors => Lookup(d.processors, name) = <<>>
    BY DEF Lookup
  <2>10. \A s \in Seq(St) : s \o <<>> = s /\ <<>> \o s = s
    OBVIOUS
  <2>11. \A name : name \in ToSet(m.chain) <=> \E j \in 1..l : name \in ToSet(docs[j].chain)
    BY <2>1, <2>3, <2>5 DEF Adds, d
  <2>12. \A name : name \in DOMAIN m.processors <=> \E j \in 1..l : name \in DOMAIN docs[j].processors
    BY <2>1, <2>3, <2>4 DEF Adds, d
  <2>13. ASSUME NEW name, Having(docs, l, name) = {} PROVE Lookup(m.processors, name) = <<>>
    <3>1. name \notin DOMAIN d.processors /\ Having(docs, i + 1, name) = {}
      BY <2>6, <2>13
    <3>2. Lookup(b.processors, name) = <<>> /\ Lookup(d.processors, name) = <<>>
      BY <2>3, <2>9, <3>1 DEF Adds
    <3>3. Lookup(m.processors, name) = Lookup(b.processors, name) \o Lookup(d.processors, name)
      BY <2>4
    <3> QED BY <3>2, <3>3
  <2>14. ASSUME NEW name, NEW j \in 1..l, Having(docs, l, name) = {j}
         PROVE  Lookup(m.processors, name) = Lookup(docs[j].processors, name)
    <3>1. CASE name \in DOMAIN d.processors
      <4>1. Having(docs, i + 1, name) = {} /\ j = l
        BY <2>6, <2>7, <2>8, <2>14, <3>1
      <4>2. Lookup(b.processors, name) = <<>>
        BY <2>3, <4>1 DEF Adds
      <4>3. Lookup(m.processors, name) = <<>> \o Lookup(d.processors, name)
        BY <2>4, <4>2
      <4>4. Lookup(m.processors, name) = Lookup(d.processors, name)
        BY <2>4, <2>10, <4>3
      <4> QED BY <4>1, <4>4 DEF d
    <3>2. CASE name \notin DOMAIN d.processors
      <4>1. Having(docs, i + 1, name) = {j}
        BY <2>6, <2>14, <3>2
      <4>2. j \in 1..(i + 1)
        BY <2>7, <4>1
      <4>3. Lookup(b.processors, name) = Lookup(docs[j].processors, name)
        BY <2>3, <4>1, <4>2 DEF Adds
      <4>4. Lookup(m.processors, name) = Lookup(b.processors, name)
        BY <2>4, <2>9, <2>10, <3>2
      <4> QED BY <4>3, <4>4
    <3> QED BY <3>1, <3>2
  <2>15. ASSUME NEW name, NEW j \in 1..l, NEW k \in 1..l, j < k, Having(docs, l, name) = {j, k}
         PROVE  Lookup(m.processors, name)
                    = Lookup(docs[j].processors, name) \o Lookup(docs[k].processors, name)
    <3>0. j # k
      BY <2>15
    <3>1. CASE name \in DOMAIN d.processors
      <4>1. l \in {j, k}
        BY <2>6, <2>15, <3>1
      <4>2. k = l
        BY <2>1, <2>15, <4>1
      <4>3. Having(docs, i + 1, name) = {j} /\ j \in 1..(i + 1)
        BY <2>6, <2>7, <2>8, <2>15, <3>0, <3>1, <4>2
      <4>4. Lookup(b.processors, name) = Lookup(docs[j].processors, name)
        BY <2>3, <4>3 DEF Adds
      <4>5. Lookup(m.processors, name) = Lookup(b.processors, name) \o Lookup(d.processors, name)
        BY <2>4
      <4> QED BY <4>2, <4>4, <4>5 DEF d
    <3>2. CASE name \notin DOMAIN d.processors
      <4>1. Having(docs, i + 1, name) = {j, k}
        BY <2>6, <2>15, <3>2
      <4>2. j \in 1..(i + 1) /\ k \in 1..(i + 1)
        BY <2>7, <4>1
      <4>3. Lookup(b.processors, name)
                = Lookup(docs[j].processors, name) \o Lookup(docs[k].processors, name)
        BY <2>3, <2>15, <4>1, <4>2 DEF Adds
      <4>4. Lookup(m.processors, name) = Lookup(b.processors, name)
        BY <2>4, <2>9, <2>10, <3>2
      <4> QED BY <4>3, <4>4
    <3> QED BY <3>1, <3>2
  <2>16. Adds(m, docs, l)
    BY <2>11, <2>12, <2>13, <2>14, <2>15 DEF Adds
  <2> QED BY <2>1, <2>16 DEF m
<1>5. Fits(n)
  <2> HIDE DEF Fits, n
  <2>1. 0 \in Q /\ \A i \in Q : i < n => i + 1 \in Q
    BY <1>2, <1>3, <1>4
  <2>2. Q \in SUBSET (0..n)
    OBVIOUS
  <2>3. Q = 0..n
    <3> HIDE DEF Q
    <3> QED BY <1>2, <2>1, <2>2, UpToInduction
  <2>4. n \in 0..n
    BY <1>2
  <2> QED BY <2>3, <2>4
<1>6. acc[n] = Merged(docs) /\ acc[n] \in X
  <2>1. n \in 0..n
    <3> HIDE DEF n
    <3> QED BY <1>2
  <2> HIDE DEF X
  <2> QED BY <1>1, <2>1 DEF Merges
<1> QED BY <1>2, <1>5, <1>6

NamesOf(Ds) == UNION {ToSet(d.chain) \cup DOMAIN d.processors : d \in Ds}
StatementsOf(Ds) == UNION {UNION {ToSet(d.processors[n]) : n \in DOMAIN d.processors} : d \in Ds}

LEMMA DocumentsHaveType ==
    ASSUME NEW Ds, \A d \in Ds : IsDocument(d), NEW docs \in Seq(Ds)
    PROVE  docs \in Seq(DocumentType(NamesOf(Ds), StatementsOf(Ds)))
<1> DEFINE Nm == NamesOf(Ds)
           St == StatementsOf(Ds)
           X == DocumentType(Nm, St)
<1>1. ASSUME NEW d \in Ds PROVE d \in X
  <2> DEFINE D == DOMAIN d.processors
             p == d.processors
             c == d.chain
  <2>1. d = [processors |-> [n \in D |-> p[n]], chain |-> c] /\ c \in Seq(ToSet(c))
        /\ \A n \in D : p[n] \in Seq(ToSet(p[n]))
    BY DEF IsDocument, IsSequence
  <2>2. D \in SUBSET Nm /\ ToSet(c) \subseteq Nm /\ \A n \in D : ToSet(p[n]) \subseteq St
    BY DEF NamesOf, StatementsOf
  <2> HIDE DEF D, p, c, Nm, St
  <2>3. c \in Seq(Nm)
    BY <2>1, <2>2, Wider
  <2>4. ASSUME NEW n \in D PROVE p[n] \in Seq(St)
    <3> DEFINE v == p[n]
    <3>1. v \in Seq(ToSet(v)) /\ ToSet(v) \subseteq St
      BY <2>1, <2>2
    <3> HIDE DEF v
    <3>2. v \in Seq(St)
      BY <3>1, Wider
    <3> QED BY <3>2 DEF v
  <2>5. [n \in D |-> p[n]] \in [D -> Seq(St)]
    BY <2>4
  <2>6. d \in [processors : [D -> Seq(St)], chain : Seq(Nm)]
    BY <2>1, <2>3, <2>5
  <2> QED BY <2>2, <2>6 DEF DocumentType
<1> HIDE DEF X
<1>2. Ds \subseteq X
  BY <1>1
<1>3. docs \in Seq(X)
  BY <1>2, Wider
<1> QED BY <1>3 DEF X

\* A processor of the kind for each service, and each service once.
BuiltInOrder(patches, kind) ==
    /\ IsSequence(patches)
    /\ \A i \in 1..Len(patches) : IsPatch(patches[i], kind)
    /\ \A i, j \in 1..Len(patches) : patches[i].service = patches[j].service => i = j

NameOf(p, kind) == [kind |-> kind, service |-> p.service]

LEMMA PatchIsDocument ==
    ASSUME NEW p, NEW kind, IsPatch(p, kind)
    PROVE  /\ IsDocument(p.document)
           /\ DOMAIN p.document.processors = {NameOf(p, kind)}
           /\ ToSet(p.document.chain) = {NameOf(p, kind)}
<1> DEFINE name == NameOf(p, kind)
           s == p.document.processors[name]
           d == p.document
<1>1. d = [processors |-> [n \in {name} |-> s], chain |-> <<name>>] /\ IsSequence(s)
  BY DEF IsPatch, Document, NameOf
<1> HIDE DEF name, s, d
<1>2. /\ d.processors = [n \in {name} |-> s] /\ d.chain = <<name>> /\ DOMAIN d.processors = {name}
      /\ \A n \in DOMAIN d.processors : d.processors[n] = s
  BY <1>1
<1>3. ToSet(<<name>>) = {name} /\ <<name>> \in Seq({name})
  BY DEF ToSet
<1>4. IsDocument(d)
  <2>1. [n \in DOMAIN d.processors |-> d.processors[n]] = [n \in {name} |-> s]
    BY <1>2
  <2> QED BY <1>1, <1>2, <1>3, <2>1 DEF IsDocument, IsSequence
<1> QED BY <1>2, <1>3, <1>4 DEF name, d

\* The documents of patches.
DocumentsIn(patches) == [i \in DOMAIN patches |-> patches[i].document]

LEMMA PatchDocuments ==
    ASSUME NEW patches, NEW kind, BuiltInOrder(patches, kind)
    PROVE  /\ Len(patches) \in Nat /\ DOMAIN patches = 1..Len(patches)
           /\ patches \in Seq(ToSet(patches))
           /\ \A i \in 1..Len(patches) :
                  /\ IsDocument(patches[i].document)
                  /\ DOMAIN patches[i].document.processors = {NameOf(patches[i], kind)}
                  /\ ToSet(patches[i].document.chain) = {NameOf(patches[i], kind)}
           /\ \A i, j \in 1..Len(patches) :
                  NameOf(patches[i], kind) = NameOf(patches[j], kind) => i = j
           /\ OwnDocuments(patches)
<1>1. patches \in Seq(ToSet(patches)) /\ Len(patches) \in Nat /\ DOMAIN patches = 1..Len(patches)
  BY DEF BuiltInOrder, IsSequence
<1>2. ASSUME NEW i \in 1..Len(patches)
      PROVE  /\ IsDocument(patches[i].document)
             /\ DOMAIN patches[i].document.processors = {NameOf(patches[i], kind)}
             /\ ToSet(patches[i].document.chain) = {NameOf(patches[i], kind)}
  <2> DEFINE p == patches[i]
  <2>1. IsPatch(p, kind)
    BY DEF BuiltInOrder
  <2> HIDE DEF p
  <2>2. /\ IsDocument(p.document) /\ DOMAIN p.document.processors = {NameOf(p, kind)}
        /\ ToSet(p.document.chain) = {NameOf(p, kind)}
    BY <2>1, PatchIsDocument
  <2> QED BY <2>2 DEF p
<1>3. \A i, j \in 1..Len(patches) : NameOf(patches[i], kind) = NameOf(patches[j], kind) => i = j
  BY DEF NameOf, BuiltInOrder
<1>4. OwnDocuments(patches)
  BY <1>2, <1>3 DEF OwnDocuments
<1> QED BY <1>1, <1>2, <1>3, <1>4

\* Every document runs what it defines, and defines what no other one does.
Apart(rest) ==
    /\ \A j \in 1..Len(rest) : ToSet(rest[j].chain) = DOMAIN rest[j].processors
    /\ \A j, k \in 1..Len(rest) : \A n :
           n \in DOMAIN rest[j].processors /\ n \in DOMAIN rest[k].processors => j = k

BaseOf(base) == IF base = <<>> THEN [processors |-> NoMapping, chain |-> <<>>] ELSE base[1]

\* What is rendered from a base and patches, before its chain is sorted.
AddsPatches(m, b, Patches) ==
    LET Brought == UNION {DOMAIN p.processors : p \in Patches}
    IN  /\ ToSet(m.chain) = ToSet(b.chain) \cup Brought
        /\ DOMAIN m.processors = (DOMAIN b.processors) \cup Brought
        /\ \A p \in Patches : \A n \in DOMAIN p.processors :
               m.processors[n] = Lookup(b.processors, n) \o p.processors[n]
        /\ \A n \in (DOMAIN b.processors) \ Brought : m.processors[n] = b.processors[n]

LEMMA PatchesAreAdded ==
    ASSUME NEW Nm, NEW St, NEW base \in Seq(DocumentType(Nm, St)), Len(base) <= 1,
           NEW rest \in Seq(DocumentType(Nm, St)), base \o rest # <<>>, Apart(rest)
    PROVE  AddsPatches(Merged(base \o rest), BaseOf(base), ToSet(rest))
<1> DEFINE X == DocumentType(Nm, St)
           docs == base \o rest
           l == Len(base)
           N == Len(docs)
           m == Merged(docs)
           b == BaseOf(base)
           Brought == UNION {DOMAIN p.processors : p \in ToSet(rest)}
<1>1. /\ docs \in Seq(X) /\ l \in 0..1 /\ N = l + Len(rest) /\ Len(rest) \in Nat
      /\ \A j \in 1..l : docs[j] = base[j]
      /\ \A j \in 1..Len(rest) : docs[l + j] = rest[j] /\ rest[j] \in X
      /\ l = 0 <=> base = <<>>
  <2> HIDE DEF X
  <2>1. base \in Seq(X) /\ rest \in Seq(X) /\ Len(base) <= 1
    BY DEF X
  <2> HIDE DEF l, N, docs
  <2>2. /\ docs \in Seq(X) /\ N = l + Len(rest) /\ Len(rest) \in Nat /\ l \in Nat
        /\ \A j \in 1..l : docs[j] = base[j]
        /\ \A j \in 1..Len(rest) : docs[l + j] = rest[j]
    BY <2>1 DEF l, N, docs
  <2>3. \A j \in 1..Len(rest) : rest[j] \in X
    BY <2>1
  <2>4. l = 0 <=> base = <<>>
    BY <2>1, EmptySeq DEF l
  <2>5. l \in 0..1
    <3>1. l <= 1
      BY DEF l
    <3>2. l \in Nat
      BY <2>2
    <3> QED BY <3>1, <3>2
  <2> QED BY <2>2, <2>3, <2>4, <2>5
<1>2. m \in X /\ Adds(m, docs, N)
  <2> HIDE DEF docs
  <2> QED BY <1>1, MergedAdds DEF docs
<1>3. b = IF l = 0 THEN [processors |-> NoMapping, chain |-> <<>>] ELSE docs[1]
  <2>1. l = 1 => docs[1] = base[1]
    BY <1>1
  <2> QED BY <1>1, <2>1 DEF BaseOf
<1>4. l = 0 => ToSet(b.chain) = {} /\ DOMAIN b.processors = {}
  BY <1>3 DEF NoMapping, ToSet
<1> HIDE DEF X, docs, l, N, m, b
\* The documents that are not the base.
<1>5. \A j \in 1..N : j <= l \/ (j - l \in 1..Len(rest) /\ docs[j] = rest[j - l])
  <2> SUFFICES ASSUME NEW j \in 1..N, ~(j <= l) PROVE j - l \in 1..Len(rest) /\ docs[j] = rest[j - l]
    OBVIOUS
  <2>1. j - l \in 1..Len(rest) /\ l + (j - l) = j
    BY <1>1
  <2> QED BY <1>1, <2>1
<1>6. \A j \in 1..Len(rest) : l + j \in 1..N /\ docs[l + j] = rest[j] /\ l < l + j
  BY <1>1
<1>7. \A n : n \in Brought <=> \E j \in 1..Len(rest) : n \in DOMAIN rest[j].processors
  <2>1. DOMAIN rest = 1..Len(rest)
    OBVIOUS
  <2> QED BY <2>1 DEF ToSet
<1> HIDE DEF Brought
<1>8. ASSUME NEW n PROVE n \in DOMAIN m.processors <=> n \in DOMAIN b.processors \/ n \in Brought
  <2>1. n \in DOMAIN m.processors <=> \E j \in 1..N : n \in DOMAIN docs[j].processors
    BY <1>2 DEF Adds
  <2>2. ASSUME NEW j \in 1..N, n \in DOMAIN docs[j].processors
        PROVE  n \in DOMAIN b.processors \/ n \in Brought
    <3>1. CASE j <= l
      <4>1. j = 1 /\ l = 1
        BY <1>1, <3>1
      <4> QED BY <1>3, <2>2, <4>1
    <3>2. CASE ~(j <= l)
      BY <1>5, <1>7, <2>2, <3>2
    <3> QED BY <3>1, <3>2
  <2>3. ASSUME n \in Brought PROVE \E j \in 1..N : n \in DOMAIN docs[j].processors
    BY <1>6, <1>7, <2>3
  <2>4. ASSUME n \in DOMAIN b.processors PROVE \E j \in 1..N : n \in DOMAIN docs[j].processors
    <3>1. l = 1 /\ b = docs[1] /\ 1 \in 1..N
      BY <1>1, <1>3, <1>4, <2>4
    <3> QED BY <2>4, <3>1
  <2> QED BY <2>1, <2>2, <2>3, <2>4
<1>9. ASSUME NEW n PROVE n \in ToSet(m.chain) <=> n \in ToSet(b.chain) \/ n \in Brought
  <2>1. n \in ToSet(m.chain) <=> \E j \in 1..N : n \in ToSet(docs[j].chain)
    BY <1>2 DEF Adds
  <2>2. ASSUME NEW j \in 1..N, n \in ToSet(docs[j].chain)
        PROVE  n \in ToSet(b.chain) \/ n \in Brought
    <3>1. CASE j <= l
      <4>1. j = 1 /\ l = 1
        BY <1>1, <3>1
      <4> QED BY <1>3, <2>2, <4>1
    <3>2. CASE ~(j <= l)
      <4>1. j - l \in 1..Len(rest) /\ docs[j] = rest[j - l]
        BY <1>5, <3>2
      <4>2. ToSet(rest[j - l].chain) = DOMAIN rest[j - l].processors
        BY <4>1 DEF Apart
      <4> QED BY <1>7, <2>2, <4>1, <4>2
    <3> QED BY <3>1, <3>2
  <2>3. ASSUME n \in Brought PROVE \E j \in 1..N : n \in ToSet(docs[j].chain)
    <3>1. PICK j \in 1..Len(rest) : n \in DOMAIN rest[j].processors
      BY <1>7, <2>3
    <3>2. n \in ToSet(docs[l + j].chain) /\ l + j \in 1..N
      BY <1>6, <3>1 DEF Apart
    <3> QED BY <3>2
  <2>4. ASSUME n \in ToSet(b.chain) PROVE \E j \in 1..N : n \in ToSet(docs[j].chain)
    <3>1. l = 1 /\ b = docs[1] /\ 1 \in 1..N
      BY <1>1, <1>3, <1>4, <2>4
    <3> QED BY <2>4, <3>1
  <2> QED BY <2>1, <2>2, <2>3, <2>4
\* Where a name is found.
<1>10. ASSUME NEW k \in 1..Len(rest), NEW n \in DOMAIN rest[k].processors, NEW j \in 1..N,
              n \in DOMAIN docs[j].processors
       PROVE  j = l + k \/ (l = 1 /\ j = 1)
  <2>1. CASE j <= l
    BY <1>1, <2>1
  <2>2. CASE ~(j <= l)
    <3>1. j - l \in 1..Len(rest) /\ docs[j] = rest[j - l]
      BY <1>5, <2>2
    <3>2. j - l = k
      BY <1>10, <3>1 DEF Apart
    <3> QED BY <1>1, <3>2
  <2> QED BY <2>1, <2>2
<1>11. ASSUME NEW k \in 1..Len(rest), NEW n \in DOMAIN rest[k].processors
       PROVE  m.processors[n] = Lookup(b.processors, n) \o rest[k].processors[n]
  <2>1. /\ l + k \in 1..N /\ docs[l + k] = rest[k] /\ l < l + k
        /\ Lookup(rest[k].processors, n) = rest[k].processors[n]
    BY <1>6 DEF Lookup
  <2>2. n \in DOMAIN m.processors /\ Lookup(m.processors, n) = m.processors[n]
    BY <1>7, <1>8 DEF Lookup
  <2>3. CASE l = 1 /\ n \in DOMAIN docs[1].processors
    <3>1. 1 \in 1..N /\ 1 < l + k
      BY <2>1, <2>3, <1>1
    <3>2. Having(docs, N, n) = {1, l + k}
      BY <1>10, <2>1, <2>3, <3>1 DEF Having
    <3>3. Lookup(m.processors, n)
              = Lookup(docs[1].processors, n) \o Lookup(docs[l + k].processors, n)
      BY <1>2, <2>1, <3>1, <3>2 DEF Adds
    <3>4. b = docs[1]
      BY <1>3, <2>3
    <3> QED BY <2>1, <2>2, <3>3, <3>4
  <2>4. CASE ~(l = 1 /\ n \in DOMAIN docs[1].processors)
    <3>1. Having(docs, N, n) = {l + k}
      BY <1>10, <2>1, <2>4 DEF Having
    <3>2. Lookup(m.processors, n) = Lookup(docs[l + k].processors, n)
      BY <1>2, <2>1, <3>1 DEF Adds
    <3>3. n \notin DOMAIN b.processors
      BY <1>1, <1>3, <1>4, <2>4
    <3>4. Lookup(b.processors, n) = <<>>
      BY <3>3 DEF Lookup
    <3>5. rest[k].processors[n] \in Seq(St)
      BY <1>1 DEF X, DocumentType
    <3>6. \A s \in Seq(St) : <<>> \o s = s
      OBVIOUS
    <3> QED BY <2>1, <2>2, <3>2, <3>4, <3>5, <3>6
  <2> QED BY <2>3, <2>4
<1>12. ASSUME NEW n \in DOMAIN b.processors, n \notin Brought
       PROVE  m.processors[n] = b.processors[n]
  <2>1. l = 1 /\ b = docs[1] /\ 1 \in 1..N
    BY <1>1, <1>3, <1>4
  <2>2. Having(docs, N, n) = {1}
    <3>1. ASSUME NEW j \in 1..N, n \in DOMAIN docs[j].processors PROVE j = 1
      BY <1>1, <1>5, <1>7, <1>12, <2>1, <3>1
    <3> QED BY <2>1, <3>1 DEF Having
  <2>3. Lookup(m.processors, n) = Lookup(docs[1].processors, n)
    BY <1>2, <2>1, <2>2 DEF Adds
  <2>4. n \in DOMAIN m.processors
    BY <1>8
  <2> QED BY <2>1, <2>3, <2>4 DEF Lookup
<1>13. ASSUME NEW p \in ToSet(rest) PROVE \E k \in 1..Len(rest) : p = rest[k]
  <2>1. DOMAIN rest = 1..Len(rest)
    OBVIOUS
  <2> QED BY <2>1 DEF ToSet
<1>14. AddsPatches(m, b, ToSet(rest))
  <2>1. ToSet(m.chain) = ToSet(b.chain) \cup Brought
    BY <1>9
  <2>2. DOMAIN m.processors = (DOMAIN b.processors) \cup Brought
    BY <1>8
  <2>3. \A p \in ToSet(rest) : \A n \in DOMAIN p.processors :
            m.processors[n] = Lookup(b.processors, n) \o p.processors[n]
    <3> SUFFICES ASSUME NEW p \in ToSet(rest), NEW n \in DOMAIN p.processors
                 PROVE  m.processors[n] = Lookup(b.processors, n) \o p.processors[n]
      OBVIOUS
    <3>1. PICK k \in 1..Len(rest) : p = rest[k]
      BY <1>13
    <3>2. n \in DOMAIN rest[k].processors
      BY <3>1
    <3>3. m.processors[n] = Lookup(b.processors, n) \o rest[k].processors[n]
      BY <1>11, <3>2
    <3> QED BY <3>1, <3>3
  <2> QED BY <1>12, <2>1, <2>2, <2>3 DEF AddsPatches, Brought
<1> QED BY <1>14 DEF m, docs, b

\* What RenderingIsSound says of an answer.
SoundlyRendered(base, patches, pipelines, document) ==
    LET Patches == {p.document : p \in ToSet(patches) \cup {q \in ToSet(pipelines) : q.enabled}}
        chain == document.chain
    IN  /\ \A i, j \in DOMAIN chain : i < j =>
               chain[i] # chain[j] /\ processorRank(chain[i]) <= processorRank(chain[j])
        /\ AddsPatches(document, BaseOf(base), Patches)

IsBase(base) == base = <<>> \/ \E d : base = <<d>> /\ IsDocument(d)

LEMMA RestIsApart ==
    ASSUME NEW patches, NEW pipelines, BuiltInOrder(patches, "transform/enrich"),
           BuiltInOrder(pipelines, "transform/parser")
    PROVE  LET first == DocumentsIn(patches)
               last == EnabledDocuments(pipelines)
               rest == first \o last
           IN  /\ first \in Seq(ToSet(rest)) /\ last \in Seq(ToSet(rest))
               /\ Len(first) = Len(patches)
               /\ \A d \in ToSet(rest) : IsDocument(d)
               /\ Apart(rest)
               /\ ToSet(rest) = {p.document :
                                    p \in ToSet(patches) \cup {q \in ToSet(pipelines) : q.enabled}}
<1> DEFINE first == DocumentsIn(patches)
           last == EnabledDocuments(pipelines)
           rest == first \o last
           E == "transform/enrich"
           P == "transform/parser"
           D == DocumentsOf(ToSet(patches) \cup ToSet(pipelines))
           a == Len(patches)
           e == Len(last)
<1>1. /\ a \in Nat /\ DOMAIN patches = 1..a /\ patches \in Seq(ToSet(patches))
      /\ \A i \in 1..a :
             /\ IsDocument(patches[i].document)
             /\ DOMAIN patches[i].document.processors = {NameOf(patches[i], E)}
             /\ ToSet(patches[i].document.chain) = {NameOf(patches[i], E)}
      /\ \A i, j \in 1..a : NameOf(patches[i], E) = NameOf(patches[j], E) => i = j
  BY PatchDocuments
<1>2. /\ DOMAIN pipelines = 1..Len(pipelines) /\ pipelines \in Seq(ToSet(pipelines))
      /\ \A i \in 1..Len(pipelines) :
             /\ IsDocument(pipelines[i].document)
             /\ DOMAIN pipelines[i].document.processors = {NameOf(pipelines[i], P)}
             /\ ToSet(pipelines[i].document.chain) = {NameOf(pipelines[i], P)}
      /\ \A i, j \in 1..Len(pipelines) : NameOf(pipelines[i], P) = NameOf(pipelines[j], P) => i = j
      /\ OwnDocuments(pipelines)
  BY PatchDocuments
<1>3. /\ last \in Seq(DocumentsOf(ToSet(pipelines))) /\ Once(last)
      /\ ToSet(last) = {p.document : p \in {q \in ToSet(pipelines) : q.enabled}}
  BY <1>2, EnabledOnes
<1>4. last \in Seq(D)
  <2>1. DocumentsOf(ToSet(pipelines)) \subseteq D
    BY DEF DocumentsOf
  <2> HIDE DEF D, last
  <2> QED BY <1>3, <2>1, Wider
<1>5. first \in Seq(D) /\ Len(first) = a /\ \A i \in 1..a : first[i] = patches[i].document
  <2>1. \A i \in 1..a : patches[i].document \in D
    BY <1>1 DEF DocumentsOf, ToSet
  <2>2. first = [i \in 1..a |-> patches[i].document]
    BY <1>1 DEF DocumentsIn
  <2> HIDE DEF D, a, first
  <2>3. first \in [1..a -> D]
    BY <2>1, <2>2
  <2> QED BY <1>1, <2>2, <2>3
<1> HIDE DEF first, last, D
<1>6. /\ rest \in Seq(D) /\ Len(rest) = a + e /\ e \in Nat
      /\ \A i \in 1..a : rest[i] = first[i]
      /\ \A i \in 1..e : rest[a + i] = last[i]
  <2> HIDE DEF a
  <2> QED BY <1>1, <1>4, <1>5
<1>7. ToSet(rest) = ToSet(first) \cup ToSet(last)
  BY <1>4, <1>5, ConcatSet
<1>8. ToSet(first) = {p.document : p \in ToSet(patches)}
  <2>1. DOMAIN first = 1..a
    BY <1>5
  <2> HIDE DEF a
  <2> QED BY <1>1, <1>5, <2>1 DEF ToSet
<1> HIDE DEF rest, a, e
<1>9. first \in Seq(ToSet(rest)) /\ last \in Seq(ToSet(rest))
  <2>1. first \in Seq(ToSet(first)) /\ last \in Seq(ToSet(last))
    BY <1>4, <1>5 DEF ToSet
  <2>2. ToSet(first) \subseteq ToSet(rest) /\ ToSet(last) \subseteq ToSet(rest)
    BY <1>7
  <2> QED BY <2>1, <2>2, Wider
\* Where the documents come from.
<1>10. ASSUME NEW j \in 1..e PROVE \E k \in 1..Len(pipelines) : last[j] = pipelines[k].document
  <2>1. last[j] \in ToSet(last)
    <3>1. DOMAIN last = 1..e
      BY <1>4 DEF e
    <3> QED BY <3>1 DEF ToSet
  <2>2. PICK p \in ToSet(pipelines) : last[j] = p.document
    BY <1>3, <2>1
  <2>3. \E k \in 1..Len(pipelines) : p = pipelines[k]
    BY <1>2 DEF ToSet
  <2> QED BY <2>2, <2>3
<1>11. ASSUME NEW j \in 1..Len(rest)
       PROVE  \/ j \in 1..a /\ rest[j] = patches[j].document
              \/ j - a \in 1..e /\ rest[j] = last[j - a]
  <2>1. CASE j <= a
    <3>1. j \in 1..a
      BY <1>1, <1>6, <2>1
    <3> QED BY <1>5, <1>6, <3>1
  <2>2. CASE ~(j <= a)
    <3>1. j - a \in 1..e /\ a + (j - a) = j
      BY <1>1, <1>6, <2>2
    <3> QED BY <1>6, <3>1
  <2> QED BY <2>1, <2>2
<1>12. ASSUME NEW j \in 1..Len(rest)
       PROVE  IsDocument(rest[j]) /\ ToSet(rest[j].chain) = DOMAIN rest[j].processors
  <2>1. CASE j \in 1..a /\ rest[j] = patches[j].document
    BY <1>1, <2>1
  <2>2. CASE j - a \in 1..e /\ rest[j] = last[j - a]
    <3>1. PICK k \in 1..Len(pipelines) : last[j - a] = pipelines[k].document
      BY <1>10, <2>2
    <3> QED BY <1>2, <2>2, <3>1
  <2> QED BY <1>11, <2>1, <2>2
<1>13. ASSUME NEW j \in 1..Len(rest), NEW k \in 1..Len(rest), NEW n,
              n \in DOMAIN rest[j].processors, n \in DOMAIN rest[k].processors
       PROVE  j = k
  <2>0. \A p, q : NameOf(p, E) # NameOf(q, P)
    BY DEF NameOf
  <2>1. CASE j \in 1..a /\ rest[j] = patches[j].document
    <3>1. n = NameOf(patches[j], E)
      BY <1>1, <1>13, <2>1
    <3>2. CASE k \in 1..a /\ rest[k] = patches[k].document
      BY <1>1, <1>13, <2>1, <3>1, <3>2
    <3>3. CASE k - a \in 1..e /\ rest[k] = last[k - a]
      <4>1. PICK i \in 1..Len(pipelines) : last[k - a] = pipelines[i].document
        BY <1>10, <3>3
      <4>2. n = NameOf(pipelines[i], P)
        BY <1>2, <1>13, <3>3, <4>1
      <4> QED BY <2>0, <3>1, <4>2
    <3> QED BY <1>11, <3>2, <3>3
  <2>2. CASE j - a \in 1..e /\ rest[j] = last[j - a]
    <3>0. PICK h \in 1..Len(pipelines) : last[j - a] = pipelines[h].document
      BY <1>10, <2>2
    <3>1. n = NameOf(pipelines[h], P)
      BY <1>2, <1>13, <2>2, <3>0
    <3>2. CASE k \in 1..a /\ rest[k] = patches[k].document
      <4>1. n = NameOf(patches[k], E)
        BY <1>1, <1>13, <3>2
      <4> QED BY <2>0, <3>1, <4>1
    <3>3. CASE k - a \in 1..e /\ rest[k] = last[k - a]
      <4>1. PICK i \in 1..Len(pipelines) : last[k - a] = pipelines[i].document
        BY <1>10, <3>3
      <4>2. n = NameOf(pipelines[i], P)
        BY <1>2, <1>13, <3>3, <4>1
      <4>3. i = h
        BY <1>2, <3>1, <4>2
      <4>4. last[j - a] = last[k - a]
        BY <3>0, <4>1, <4>3
      <4>5. j - a = k - a
        BY <1>3, <2>2, <3>3, <4>4 DEF Once, e
      <4> QED BY <1>1, <1>6, <4>5
    <3> QED BY <1>11, <3>2, <3>3
  <2> QED BY <1>11, <2>1, <2>2
<1>14. Apart(rest)
  BY <1>12, <1>13 DEF Apart
<1>15. \A d \in ToSet(rest) : IsDocument(d)
  <2>1. DOMAIN rest = 1..Len(rest)
    BY <1>6
  <2> QED BY <1>12, <2>1 DEF ToSet
<1>16. ToSet(rest) = {p.document : p \in ToSet(patches) \cup {q \in ToSet(pipelines) : q.enabled}}
  BY <1>3, <1>7, <1>8
<1> QED BY <1>5, <1>9, <1>14, <1>15, <1>16 DEF rest, first, last, a

LEMMA RenderIsSound ==
    ASSUME NEW base, IsBase(base), NEW patches, NEW pipelines,
           BuiltInOrder(patches, "transform/enrich"), BuiltInOrder(pipelines, "transform/parser"),
           base \o patches \o EnabledDocuments(pipelines) # <<>>
    PROVE  SoundlyRendered(base, patches, pipelines, RenderSources(base, patches, pipelines))
<1> DEFINE first == DocumentsIn(patches)
           last == EnabledDocuments(pipelines)
           rest == first \o last
           docs == base \o rest
           Ds == ToSet(base) \cup ToSet(rest)
           Nm == NamesOf(Ds)
           St == StatementsOf(Ds)
           X == DocumentType(Nm, St)
           m == Merged(docs)
           names == uniqueScalarNames(m.chain)
           chain == sortProcessors(names)
           document == RenderSources(base, patches, pipelines)
           Patches == {p.document : p \in ToSet(patches) \cup {q \in ToSet(pipelines) : q.enabled}}
<1>1. /\ first \in Seq(ToSet(rest)) /\ last \in Seq(ToSet(rest)) /\ Len(first) = Len(patches)
      /\ \A d \in ToSet(rest) : IsDocument(d)
      /\ Apart(rest) /\ ToSet(rest) = Patches
  BY RestIsApart
<1>2. base \in Seq(ToSet(base)) /\ Len(base) <= 1 /\ \A d \in ToSet(base) : IsDocument(d)
  <2>1. CASE base = <<>>
    <3>1. Len(base) = 0 /\ base \in Seq(ToSet(base)) /\ ToSet(base) = {}
      BY <2>1 DEF ToSet
    <3> QED BY <3>1
  <2>2. CASE \E d : base = <<d>> /\ IsDocument(d)
    <3>1. PICK d : base = <<d>> /\ IsDocument(d)
      BY <2>2
    <3>2. Len(base) = 1 /\ base \in Seq(ToSet(base)) /\ ToSet(base) = {d}
      BY <3>1 DEF ToSet
    <3> QED BY <3>1, <3>2
  <2> QED BY <2>1, <2>2 DEF IsBase
<1>3. patches \in Seq(ToSet(patches))
  BY PatchDocuments
<1> HIDE DEF Patches
<1>4. base \in Seq(Ds) /\ first \in Seq(Ds) /\ last \in Seq(Ds) /\ \A d \in Ds : IsDocument(d)
  <2>1. ToSet(base) \subseteq Ds /\ ToSet(rest) \subseteq Ds
    OBVIOUS
  <2>2. \A d \in Ds : IsDocument(d)
    BY <1>1, <1>2
  <2> HIDE DEF Ds, first, last, rest
  <2> QED BY <1>1, <1>2, <2>1, <2>2, Wider
<1> HIDE DEF first, last, Ds
<1>5. base \in Seq(X) /\ first \in Seq(X) /\ last \in Seq(X)
  BY <1>4, DocumentsHaveType
<1>6. /\ rest \in Seq(X) /\ docs \in Seq(X)
      /\ (base \o first) \o last = docs
  <2> HIDE DEF X
  <2>1. (base \o first) \o last = base \o (first \o last)
    BY <1>5, ConcatAssociative
  <2> QED BY <1>5, <2>1
<1>7. document = [processors |-> m.processors, chain |-> chain]
  <2> HIDE DEF rest
  <2>1. document = normalizeProcessorChain(m)
    <3> USE DEF rest
    <3>1. (base \o [i \in DOMAIN patches |-> patches[i].document]) \o EnabledDocuments(pipelines) = docs
      BY <1>6 DEF DocumentsIn, first, last
    <3> HIDE DEF docs, rest
    <3> QED BY <3>1 DEF RenderSources, Merged
  <2> HIDE DEF m, docs, document
  <2> QED BY <2>1 DEF normalizeProcessorChain
<1>8. docs # <<>>
  <2> SUFFICES ASSUME docs = <<>> PROVE FALSE
    OBVIOUS
  <2> HIDE DEF X
  <2>1. Len(base) = 0 /\ Len(first) = 0 /\ Len(last) = 0
    <3>1. Len(docs) = Len(base) + Len(rest) /\ Len(rest) = Len(first) + Len(last)
          /\ Len(base) \in Nat /\ Len(first) \in Nat /\ Len(last) \in Nat
      BY <1>5, <1>6
    <3>2. Len(docs) = 0
      OBVIOUS
    <3> HIDE DEF docs, rest
    <3> QED BY <3>1, <3>2
  <2>2. base = <<>> /\ last = <<>>
    BY <1>5, <2>1, EmptySeq
  <2>3. patches = <<>>
    BY <1>1, <1>3, <2>1, EmptySeq
  <2>4. base \o patches \o last = <<>>
    BY <2>2, <2>3
  <2> QED BY <2>4 DEF last
<1> HIDE DEF X, rest, document
<1>9. AddsPatches(m, BaseOf(base), ToSet(rest)) /\ m \in X
  <2>1. AddsPatches(Merged(base \o rest), BaseOf(base), ToSet(rest))
    <3>1. base \in Seq(DocumentType(Nm, St)) /\ rest \in Seq(DocumentType(Nm, St))
      BY <1>5, <1>6 DEF X
    <3> HIDE DEF Nm, St
    <3> QED BY <1>1, <1>2, <1>8, <3>1, PatchesAreAdded
  <2>2. m \in DocumentType(Nm, St)
    <3>1. docs \in Seq(DocumentType(Nm, St))
      BY <1>6 DEF X
    <3> HIDE DEF Nm, St, docs
    <3> QED BY <1>8, <3>1, MergedAdds DEF docs
  <2> QED BY <2>1, <2>2 DEF X
<1>10. m.chain \in Seq(Nm)
  BY <1>9 DEF X, DocumentType
<1> HIDE DEF Nm, St, m
<1>11. names \in Seq(Nm) /\ Once(names) /\ ToSet(names) = ToSet(m.chain)
  BY <1>10, UniqueNames
<1> HIDE DEF names
<1>12. /\ chain \in Seq(Nm) /\ ToSet(chain) = ToSet(names) /\ Once(chain)
       /\ \A i, j \in 1..Len(chain) :
              i < j => processorRank(chain[i]) <= processorRank(chain[j])
  BY <1>11, SortedNames
<1> HIDE DEF chain
<1>13. \A i, j \in DOMAIN chain : i < j =>
           chain[i] # chain[j] /\ processorRank(chain[i]) <= processorRank(chain[j])
  <2>1. DOMAIN chain = 1..Len(chain) /\ Len(chain) \in Nat
    BY <1>12
  <2>2. ASSUME NEW i \in 1..Len(chain), NEW j \in 1..Len(chain), i < j
        PROVE  chain[i] # chain[j] /\ processorRank(chain[i]) <= processorRank(chain[j])
    <3>1. i # j
      BY <2>1, <2>2
    <3> QED BY <1>12, <2>2, <3>1 DEF Once
  <2> QED BY <2>1, <2>2
<1>14. AddsPatches(document, BaseOf(base), Patches)
  <2>1. document.processors = m.processors /\ document.chain = chain
    BY <1>7
  <2>2. ToSet(document.chain) = ToSet(m.chain)
    BY <1>11, <1>12, <2>1
  <2> QED BY <1>1, <1>9, <2>1, <2>2 DEF AddsPatches
<1>15. document.chain = chain
  BY <1>7
<1> QED BY <1>13, <1>14, <1>15 DEF SoundlyRendered, Patches, document

-------------------------------------------------------------------------------
(*****************************************************************************)
(* What is stored.  The patches of a service are built from rules, and       *)
(* those of others are built like them; so what is answered is rendered      *)
(* from patches that have each a processor of their own.                     *)
(*****************************************************************************)
\* The statements of a mapping: one for each of its fields.
Lists(statements, fields, n, kind, mapping) ==
    /\ n \in Nat
    /\ fields \in [1..n -> DOMAIN mapping]
    /\ \A f \in DOMAIN mapping : \E i \in 1..n : fields[i] = f
    /\ statements = [i \in 1..n |-> <<kind, mapping[fields[i]], fields[i]>>]

LEMMA MappingStatements ==
    ASSUME NEW kind, NEW mapping, DOMAIN mapping \subseteq Nat, IsFiniteSet(DOMAIN mapping)
    PROVE  \E fields, n : Lists(mappingTransformStatements(kind, mapping), fields, n, kind, mapping)
<1> DEFINE S == DOMAIN mapping
           R == {p \in S \X S : p[1] < p[2]}
           n == Cardinality(S)
           Place(k) == CHOOSE x \in S : Cardinality({y \in S : y < x}) = k - 1
           fields == [k \in 1..n |-> Place(k)]
           statements == mappingTransformStatements(kind, mapping)
<1>1. statements = [i \in DOMAIN fields |-> <<kind, mapping[fields[i]], fields[i]>>]
  BY DEF mappingTransformStatements, InOrder
<1> HIDE DEF fields, Place, statements
<1>2. S \subseteq Nat /\ IsFiniteSet(S)
  OBVIOUS
<1> HIDE DEF S
<1>3. \A x, y \in S : <<x, y>> \in R <=> x < y
  OBVIOUS
<1>4. TotalOrder(R, S)
  <2>1. R \in SUBSET (S \X S)
    OBVIOUS
  <2> HIDE DEF R
  <2> QED BY <1>2, <1>3, <2>1 DEF TotalOrder
<1>5. \A x \in S : {y \in S : y < x} = Below(R, S, x)
  BY <1>3 DEF Below
<1> HIDE DEF R
<1>6. ASSUME NEW k \in 1..n PROVE Place(k) \in S /\ Cardinality(Below(R, S, Place(k))) = k - 1
  <2>1. \E x \in S : Cardinality(Below(R, S, x)) = k - 1
    BY <1>2, <1>4, EveryPlaceIsTaken
  <2>2. \E x \in S : Cardinality({y \in S : y < x}) = k - 1
    BY <1>5, <2>1
  <2>3. Place(k) \in S /\ Cardinality({y \in S : y < Place(k)}) = k - 1
    BY <2>2 DEF Place
  <2> QED BY <1>5, <2>3
<1>7. fields \in [1..n -> S] /\ \A k \in 1..n : Cardinality(Below(R, S, fields[k])) = k - 1
  BY <1>6 DEF fields
<1>8. Sorts(fields, R, S)
  BY <1>2, <1>4, <1>7, PlacesSort
<1>9. statements = [i \in 1..n |-> <<kind, mapping[fields[i]], fields[i]>>]
  <2>1. DOMAIN fields = 1..n
    BY <1>7
  <2> QED BY <1>1, <2>1
<1>10. Lists(statements, fields, n, kind, mapping)
  BY <1>7, <1>8, <1>9 DEF Sorts, Lists, S
<1> QED BY <1>10 DEF statements

LEMMA InSequence ==
    ASSUME NEW X, NEW s \in Seq(X)
    PROVE  IsSequence(s)
BY DEF IsSequence, ToSet

LEMMA JoinedSequence ==
    ASSUME NEW s, NEW t, IsSequence(s), IsSequence(t)
    PROVE  IsSequence(s \o t)
<1> DEFINE X == ToSet(s) \cup ToSet(t)
           u == s \o t
<1>1. ToSet(s) \subseteq X /\ ToSet(t) \subseteq X
  OBVIOUS
<1> HIDE DEF X
<1>2. s \in Seq(X) /\ t \in Seq(X)
  BY <1>1, Wider DEF IsSequence
<1>3. u \in Seq(X)
  BY <1>2
<1> HIDE DEF u
<1>4. IsSequence(u)
  BY <1>3, InSequence
<1> QED BY <1>4 DEF u

\* What a rule maps, and the statements that do it.
LEMMA RuleMappings ==
    ASSUME NEW rule \in ParserRules
    PROVE  /\ \A mapping \in {mergeMappings(rule.legacy, rule.attributes), rule.resources} :
                  DOMAIN mapping \subseteq Nat /\ IsFiniteSet(DOMAIN mapping)
           /\ IsSequence(rule.ottl)
<1> DEFINE legacy == rule.legacy
           attributes == rule.attributes
           m == mergeMappings(legacy, attributes)
<1>1. /\ DOMAIN legacy \subseteq Nat /\ IsFiniteSet(DOMAIN legacy)
      /\ DOMAIN attributes \subseteq Nat /\ IsFiniteSet(DOMAIN attributes)
      /\ DOMAIN rule.resources \subseteq Nat /\ IsFiniteSet(DOMAIN rule.resources)
      /\ IsSequence(rule.ottl)
  BY RulesAssumption
<1> HIDE DEF legacy, attributes
<1>2. DOMAIN m = (DOMAIN legacy) \cup (DOMAIN attributes)
  BY DEF mergeMappings
<1>3. IsFiniteSet((DOMAIN legacy) \cup (DOMAIN attributes))
  BY <1>1, FS_Union
<1> HIDE DEF m
<1>4. DOMAIN m \subseteq Nat /\ IsFiniteSet(DOMAIN m)
  BY <1>1, <1>2, <1>3
<1> QED BY <1>1, <1>4 DEF m, legacy, attributes

LEMMA ListedSequence ==
    ASSUME NEW kind, NEW mapping, DOMAIN mapping \subseteq Nat, IsFiniteSet(DOMAIN mapping)
    PROVE  IsSequence(mappingTransformStatements(kind, mapping))
<1>1. PICK fields, n : Lists(mappingTransformStatements(kind, mapping), fields, n, kind, mapping)
  BY MappingStatements
<1> DEFINE s == mappingTransformStatements(kind, mapping)
           Entry(i) == <<kind, mapping[fields[i]], fields[i]>>
<1>2. n \in Nat /\ s = [i \in 1..n |-> Entry(i)]
  BY <1>1 DEF Lists
<1> HIDE DEF Entry, s
<1>3. s \in Seq({Entry(i) : i \in 1..n})
  BY <1>2
<1>4. IsSequence(s)
  BY <1>3, InSequence
<1> QED BY <1>4 DEF s

LEMMA StatementsAreSequence ==
    ASSUME NEW rule \in ParserRules
    PROVE  IsSequence(Statements(rule))
<1> DEFINE h == <<<<"merge", rule.mode>>>>
           m == mergeMappings(rule.legacy, rule.attributes)
           r == rule.resources
           a == mappingTransformStatements("attribute", m)
           b == mappingTransformStatements("resource", r)
           o == rule.ottl
<1>1. /\ DOMAIN m \subseteq Nat /\ IsFiniteSet(DOMAIN m)
      /\ DOMAIN r \subseteq Nat /\ IsFiniteSet(DOMAIN r)
      /\ IsSequence(o)
  BY RuleMappings
<1>2. IsSequence(h)
  <2> DEFINE x == <<"merge", rule.mode>>
  <2> HIDE DEF x
  <2>1. <<x>> \in Seq({x})
    OBVIOUS
  <2> QED BY <2>1, InSequence DEF x
<1>3. Statements(rule) = IF rule.mode = "ottl" THEN o ELSE h \o a \o b \o o
  BY DEF Statements
<1> HIDE DEF h, m, r, o
<1>4. IsSequence(a) /\ IsSequence(b)
  BY <1>1, ListedSequence
<1> HIDE DEF a, b
<1>5. IsSequence(h \o a)
  BY <1>2, <1>4, JoinedSequence
<1>6. IsSequence((h \o a) \o b)
  BY <1>4, <1>5, JoinedSequence
<1>7. IsSequence(((h \o a) \o b) \o o)
  BY <1>1, <1>6, JoinedSequence
<1> QED BY <1>1, <1>3, <1>7

\* A patch of the service.
IsOwnPatch(p, kind) == p.service = ConfigService /\ IsPatch(p, kind)

LEMMA OwnDocument ==
    ASSUME NEW p, NEW kind, NEW statements, p.service = ConfigService,
           p.document = Document(ProcessorOf(kind), statements), IsSequence(statements)
    PROVE  IsOwnPatch(p, kind)
<1> DEFINE name == [kind |-> kind, service |-> p.service]
<1>1. name = ProcessorOf(kind)
  BY DEF ProcessorOf
<1> HIDE DEF name
<1>2. p.document = Document(name, statements)
  BY <1>1
<1>3. p.document.processors[name] = statements
  BY <1>2 DEF Document
<1> QED BY <1>2, <1>3 DEF IsOwnPatch, IsPatch, name

LEMMA EnrichmentIsOwn ==
    ASSUME NEW group
    PROVE  IsOwnPatch(BuildEnrichmentPatch(group), "transform/enrich")
<1> DEFINE p == BuildEnrichmentPatch(group)
           one == <<"enrich", ConfigService>>
<1>1. p.service = ConfigService /\ p.document = Document(ProcessorOf("transform/enrich"), <<one>>)
  BY DEF BuildEnrichmentPatch
<1> HIDE DEF p, one
<1>2. <<one>> \in Seq({one})
  OBVIOUS
<1>3. IsSequence(<<one>>)
  BY <1>2, InSequence
<1>4. IsOwnPatch(p, "transform/enrich")
  BY <1>1, <1>3, OwnDocument
<1> QED BY <1>4 DEF p

LEMMA PipelineIsOwn ==
    ASSUME NEW saved, saved.rule \in ParserRules
    PROVE  IsOwnPatch(BuildPipelinePatch(saved), "transform/parser")
<1> DEFINE p == BuildPipelinePatch(saved)
           statements == Statements(saved.rule)
<1>1. p.service = ConfigService /\ p.document = Document(ProcessorOf("transform/parser"), statements)
  BY DEF BuildPipelinePatch
<1>2. IsSequence(statements)
  BY StatementsAreSequence
<1> HIDE DEF p, statements
<1>3. IsOwnPatch(p, "transform/parser")
  BY <1>1, <1>2, OwnDocument
<1> QED BY <1>3 DEF p

LEMMA NoneInOrder == ASSUME NEW kind PROVE BuiltInOrder(<<>>, kind)
<1>1. <<>> \in Seq({})
  OBVIOUS
<1>2. IsSequence(<<>>)
  BY <1>1, InSequence
<1>3. 1..Len(<<>>) = {}
  OBVIOUS
<1> QED BY <1>2, <1>3 DEF BuiltInOrder

LEMMA OneInOrder == ASSUME NEW p, NEW kind, IsPatch(p, kind) PROVE BuiltInOrder(<<p>>, kind)
<1>1. <<p>> \in Seq({p})
  OBVIOUS
<1>2. IsSequence(<<p>>)
  BY <1>1, InSequence
<1>3. 1..Len(<<p>>) = {1} /\ <<p>>[1] = p
  OBVIOUS
<1> DEFINE s == <<p>>
<1> HIDE DEF s
<1>4. \A i \in 1..Len(s) : IsPatch(s[i], kind)
  BY <1>3 DEF s
<1>5. \A i, j \in 1..Len(s) : s[i].service = s[j].service => i = j
  BY <1>3 DEF s
<1>6. IsSequence(s)
  BY <1>2 DEF s
<1>7. BuiltInOrder(s, kind)
  BY <1>4, <1>5, <1>6 DEF BuiltInOrder
<1> QED BY <1>7 DEF s

\* The patches of a group, in any order.
LEMMA GroupInOrder ==
    ASSUME NEW group, NEW own, NEW others, NEW kind, BuiltForOthers(others, kind),
           own = Absent \/ IsOwnPatch(own, kind),
           NEW patches \in PatchesOf(group, own, others)
    PROVE  BuiltInOrder(patches, kind)
<1> DEFINE S == {p \in Stored(own) \cup others : p.group = group}
<1>1. \A p \in Stored(own) : p.service = ConfigService /\ IsPatch(p, kind) /\ p = own
  BY DEF Stored, IsOwnPatch
<1>2. \A p \in S : IsPatch(p, kind)
  BY <1>1 DEF BuiltForOthers
<1>3. \A p, q \in S : p.service = q.service => p = q
  BY <1>1 DEF BuiltForOthers
<1>4. patches \in SetToSeqs(S)
  BY DEF PatchesOf
<1> HIDE DEF S
<1>5. patches \in [1..Cardinality(S) -> S] /\ \A i, j \in DOMAIN patches : patches[i] = patches[j] => i = j
  BY <1>4 DEF SetToSeqs, IsInjective
<1>6. Cardinality(S) \in Nat
  <2>1. IsFiniteSet(S)
    <3>1. IsFiniteSet(Stored(own))
      <4>1. IsFiniteSet({own}) /\ IsFiniteSet({})
        BY FS_Singleton, FS_EmptySet
      <4> QED BY <4>1 DEF Stored
    <3>2. IsFiniteSet(others)
      BY DEF BuiltForOthers
    <3>3. IsFiniteSet(Stored(own) \cup others)
      BY <3>1, <3>2, FS_Union
    <3> DEFINE both == Stored(own) \cup others
    <3>4. S \subseteq both
      BY DEF S
    <3> HIDE DEF both
    <3> QED BY <3>3, <3>4, FS_Subset DEF both
  <2> QED BY <2>1, FS_CardinalityType
<1>7. patches \in Seq(S) /\ Len(patches) = Cardinality(S) /\ DOMAIN patches = 1..Len(patches)
  BY <1>5, <1>6
<1>8. IsSequence(patches)
  BY <1>7, InSequence
<1>9. \A i \in 1..Len(patches) : patches[i] \in S
  BY <1>5, <1>7
<1> QED BY <1>2, <1>3, <1>5, <1>7, <1>8, <1>9 DEF BuiltInOrder

CallHolds(q) ==
    /\ q.phase = "rule" => q.saved.rule \in ParserRules
    /\ q.phase = "pipeline" => IsOwnPatch(q.patch, "transform/parser")
    /\ q.phase = "base" => IsDocument(q.document)
    /\ q.phase = "group" => BuiltInOrder(q.patches, "transform/enrich")
    /\ q.phase = "service" => /\ q.base = Absent \/ IsDocument(q.base)
                              /\ q.patch = Absent \/ IsOwnPatch(q.patch, "transform/enrich")

StoredFit ==
    /\ parserRule = Absent \/ parserRule.rule \in ParserRules
    /\ pipelinePatch = Absent \/ IsOwnPatch(pipelinePatch, "transform/parser")
    /\ baseDocument = Absent \/ IsDocument(baseDocument)

AnswerFits ==
    answered.for # "nobody" =>
        /\ IsBase(answered.base)
        /\ BuiltInOrder(answered.patches, "transform/enrich")
        /\ BuiltInOrder(answered.pipelines, "transform/parser")
        /\ answered.base \o answered.patches \o EnabledDocuments(answered.pipelines) # <<>>
        /\ answered.document = RenderSources(answered.base, answered.patches, answered.pipelines)

PreviewFits ==
    previewed # Absent =>
        /\ previewed.rule \in ParserRules
        /\ previewed.rule.mode \in {"regex", "json"}
        /\ previewed.result \in applyParserMappings(previewed.rule)

DocumentsInv ==
    /\ StoredFit /\ AnswerFits /\ PreviewFits
    /\ \A c \in SourceCallers : CallHolds(sourceCalls[c])

LEMMA DocumentsStart == SourcesInit => DocumentsInv
BY DEF SourcesInit, DocumentsInv, StoredFit, AnswerFits, PreviewFits, CallHolds, NoSourceCall, NoAnswer

\* One call moves on, and what is stored still fits.
LEMMA OneCallHolds ==
    ASSUME SourcesInv, DocumentsInv, NEW c \in SourceCallers, NEW q, CallHolds(q),
           sourceCalls' = [sourceCalls EXCEPT ![c] = q], StoredFit', AnswerFits', PreviewFits'
    PROVE  DocumentsInv'
<1>1. sourceCalls' = [d \in SourceCallers |-> IF d = c THEN q ELSE sourceCalls[d]]
  BY DEF SourcesInv
<1>2. \A d \in SourceCallers : CallHolds(sourceCalls'[d])
  BY <1>1 DEF DocumentsInv
<1>3. (\A d \in SourceCallers : CallHolds(sourceCalls[d]))'
  BY <1>2 DEF CallHolds
<1> QED BY <1>3 DEF DocumentsInv

LEMMA StepHolds ==
    ASSUME SourcesInv, DocumentsInv, NEW c \in SourceCallers, NEW q, CallHolds(q), SourceStep(c, q), StoredFit'
    PROVE  DocumentsInv'
<1>1. AnswerFits' /\ PreviewFits'
  BY DEF SourceStep, AnswerFits, PreviewFits, NoAnswer
<1> QED BY <1>1, OneCallHolds DEF SourceStep

LEMMA StoredStays ==
    ASSUME DocumentsInv, UNCHANGED <<parserRule, pipelinePatch, baseDocument>>
    PROVE  StoredFit'
BY DEF DocumentsInv, StoredFit

LEMMA EndedHolds == CallHolds(NoSourceCall)
BY DEF CallHolds, NoSourceCall

LEMMA EnrichingHolds ==
    ASSUME SourcesInv, DocumentsInv, NEW c \in SourceCallers,
           \/ \E group \in ConfigGroups : BindServiceToCollectorGroup(c, group)
           \/ RegenerateReadsService(c) \/ RegenerateEnrichmentPatch(c)
           \/ SourceCallFails(c)
    PROVE  DocumentsInv'
<1>1. PICK q : SourceStep(c, q) /\ q.phase \in {"enrich", "existing", "ended"}
               /\ UNCHANGED <<parserRule, pipelinePatch, baseDocument>>
  BY DEF BindServiceToCollectorGroup, RegenerateReadsService, RegenerateEnrichmentPatch, SourceCallFails,
         Documents, NoSourceCall
<1>2. CallHolds(q)
  BY <1>1 DEF CallHolds
<1>3. StoredFit'
  BY <1>1, StoredStays
<1> QED BY <1>1, <1>2, <1>3, StepHolds

\* A write of the patch or of the rule makes other calls stale, and changes nothing else of them.
LEMMA StaleCallHolds ==
    ASSUME NEW q, SourceCallFits(q), CallHolds(q), q.phase \in {"rule", "pipeline"}, NEW p, p = [q EXCEPT !.fresh = FALSE]
    PROVE  CallHolds(p)
<1>1. CASE q.phase = "rule"
  <2>1. q = [phase |-> "rule", fresh |-> q.fresh, saved |-> q.saved]
    BY <1>1 DEF SourceCallFits
  <2>2. p.phase = "rule" /\ p.saved = q.saved
    BY <2>1
  <2> QED BY <1>1, <2>2 DEF CallHolds
<1>2. CASE q.phase = "pipeline"
  <2>1. q = [phase |-> "pipeline", patch |-> q.patch, fresh |-> q.fresh]
    BY <1>2 DEF SourceCallFits
  <2>2. p.phase = "pipeline" /\ p.patch = q.patch
    BY <2>1
  <2> QED BY <1>2, <2>2 DEF CallHolds
<1> QED BY <1>1, <1>2

LEMMA WritesHold ==
    ASSUME SourcesInv, DocumentsInv, NEW c \in SourceCallers, UpsertEnrichmentPatch(c) \/ UpsertParserRule(c)
    PROVE  DocumentsInv'
<1>1. \A d \in SourceCallers : SourceCallFits(sourceCalls[d]) /\ CallHolds(sourceCalls[d])
  BY DEF SourcesInv, DocumentsInv
<1>2. StoredFit'
  <2>1. CASE UpsertEnrichmentPatch(c)
    BY <2>1, StoredStays DEF UpsertEnrichmentPatch
  <2>2. CASE UpsertParserRule(c)
    BY <1>1, <2>2 DEF UpsertParserRule, CallHolds, StoredFit, DocumentsInv
  <2> QED BY <2>1, <2>2
<1>3. CASE UpsertEnrichmentPatch(c) /\ SourceStep(c, NoSourceCall)
  BY <1>2, <1>3, EndedHolds, StepHolds
<1>4. CASE ~SourceStep(c, NoSourceCall) \/ ~UpsertEnrichmentPatch(c)
  <2>1. \E Stale :
            /\ Stale \subseteq {"rule", "pipeline"}
            /\ previewed' = Absent /\ answered' = NoAnswer
            /\ sourceCalls' = [d \in SourceCallers |->
                  CASE d = c -> NoSourceCall
                    [] d # c /\ sourceCalls[d].phase \in Stale -> [sourceCalls[d] EXCEPT !.fresh = FALSE]
                    [] OTHER -> sourceCalls[d]]
    <3>1. CASE UpsertEnrichmentPatch(c)
      BY <1>4, <3>1 DEF UpsertEnrichmentPatch
    <3>2. CASE UpsertParserRule(c)
      <4>1. sourceCalls' = [d \in SourceCallers |->
                  CASE d = c -> NoSourceCall
                    [] d # c /\ sourceCalls[d].phase \in {"pipeline"} -> [sourceCalls[d] EXCEPT !.fresh = FALSE]
                    [] OTHER -> sourceCalls[d]]
        BY <3>2 DEF UpsertParserRule
      <4> QED BY <3>2, <4>1 DEF UpsertParserRule
    <3> QED BY <3>1, <3>2
  <2>2. PICK Stale :
            /\ Stale \subseteq {"rule", "pipeline"}
            /\ previewed' = Absent /\ answered' = NoAnswer
            /\ sourceCalls' = [d \in SourceCallers |->
                  CASE d = c -> NoSourceCall
                    [] d # c /\ sourceCalls[d].phase \in Stale -> [sourceCalls[d] EXCEPT !.fresh = FALSE]
                    [] OTHER -> sourceCalls[d]]
    BY <2>1
  <2>3. ASSUME NEW d \in SourceCallers PROVE CallHolds(sourceCalls[d])'
    <3> DEFINE q == sourceCalls[d]
    <3>1. PICK p : p = sourceCalls'[d]
      OBVIOUS
    <3>2. p = NoSourceCall \/ p = q \/ (q.phase \in {"rule", "pipeline"} /\ p = [q EXCEPT !.fresh = FALSE])
      BY <2>2, <3>1
    <3>3. CallHolds(p)
      BY <1>1, <3>2, EndedHolds, StaleCallHolds
    <3> QED BY <3>1, <3>3 DEF CallHolds
  <2>4. AnswerFits' /\ PreviewFits'
    BY <2>2 DEF AnswerFits, PreviewFits, NoAnswer
  <2> QED BY <1>2, <2>3, <2>4 DEF DocumentsInv
<1> QED BY <1>3, <1>4

LEMMA SavingsHold ==
    ASSUME SourcesInv, DocumentsInv, NEW c \in SourceCallers,
           \/ \E rule \in ParserRules, group \in ConfigGroups \cup {Absent} : UpsertParserRuleReads(c, rule, group)
           \/ \E document \in BaseDocuments : UpsertServiceBaseReads(c, document)
           \/ UpsertServiceBaseConfig(c) \/ GetParserRule(c) \/ GeneratePipelinePatch(c)
    PROVE  DocumentsInv'
<1>1. CallHolds(sourceCalls[c])
  BY DEF DocumentsInv
<1>2. ASSUME NEW rule \in ParserRules, NEW group, UpsertParserRuleReads(c, rule, group) PROVE DocumentsInv'
  <2> DEFINE saved == [group |-> IF group = Absent THEN GroupOfPatch ELSE group, rule |-> rule]
             q == [phase |-> "rule", fresh |-> group = Absent, saved |-> saved]
  <2>1. SourceStep(c, q) /\ StoredFit'
    BY <1>2, StoredStays DEF UpsertParserRuleReads, Documents
  <2>2. CallHolds(q)
    BY DEF CallHolds
  <2> HIDE DEF q
  <2> QED BY <2>1, <2>2, StepHolds
<1>3. ASSUME NEW document \in BaseDocuments, UpsertServiceBaseReads(c, document) PROVE DocumentsInv'
  <2> DEFINE q == [phase |-> "base", document |-> document]
  <2>1. SourceStep(c, q) /\ StoredFit'
    BY <1>3, StoredStays DEF UpsertServiceBaseReads, Documents
  <2>2. IsDocument(document)
    BY BasesAssumption
  <2>3. CallHolds(q)
    BY <2>2 DEF CallHolds
  <2> HIDE DEF q
  <2> QED BY <2>1, <2>3, StepHolds
<1>4. CASE UpsertServiceBaseConfig(c)
  <2>1. IsDocument(sourceCalls[c].document)
    BY <1>1, <1>4 DEF UpsertServiceBaseConfig, CallHolds
  <2>2. baseDocument' = sourceCalls[c].document /\ UNCHANGED <<parserRule, pipelinePatch>>
    BY <1>4 DEF UpsertServiceBaseConfig
  <2>3. IsDocument(baseDocument)'
    BY <2>1, <2>2 DEF IsDocument
  <2>4. StoredFit'
    BY <2>2, <2>3 DEF StoredFit, DocumentsInv
  <2> QED BY <1>4, <2>4, EndedHolds, StepHolds DEF UpsertServiceBaseConfig
<1>5. CASE GetParserRule(c)
  <2> DEFINE p == BuildPipelinePatch(parserRule)
             q == [phase |-> "pipeline", patch |-> p, fresh |-> follows # "no"]
  <2>1. SourceStep(c, q) /\ StoredFit'
    BY <1>5, StoredStays DEF GetParserRule, Documents
  <2>2. IsOwnPatch(p, "transform/parser")
    <3>1. parserRule.rule \in ParserRules
      BY <1>5 DEF GetParserRule, DocumentsInv, StoredFit
    <3> QED BY <3>1, PipelineIsOwn
  <2> HIDE DEF p
  <2>3. CallHolds(q)
    BY <2>2 DEF CallHolds
  <2> HIDE DEF q
  <2> QED BY <2>1, <2>3, StepHolds
<1>6. CASE GeneratePipelinePatch(c)
  <2>1. IsOwnPatch(sourceCalls[c].patch, "transform/parser")
    BY <1>1, <1>6 DEF GeneratePipelinePatch, CallHolds
  <2>2. pipelinePatch' = sourceCalls[c].patch /\ UNCHANGED <<parserRule, baseDocument>>
    BY <1>6 DEF GeneratePipelinePatch
  <2>3. IsOwnPatch(pipelinePatch, "transform/parser")'
    BY <2>1, <2>2 DEF IsOwnPatch, IsPatch
  <2>4. StoredFit'
    BY <2>2, <2>3 DEF StoredFit, DocumentsInv
  <2> QED BY <1>6, <2>4, EndedHolds, StepHolds DEF GeneratePipelinePatch
<1> QED BY <1>2, <1>3, <1>4, <1>5, <1>6

\* The enrichment patch is one that was built.
LEMMA StoredEnrichment ==
    ASSUME SourcesInv
    PROVE  enrichment = Absent \/ IsOwnPatch(enrichment, "transform/enrich")
BY EnrichmentIsOwn DEF SourcesInv, EnrichmentPatches

\* What is answered is rendered from what it is answered with.
LEMMA AnswerHolds ==
    ASSUME SourcesInv, DocumentsInv, NEW c \in SourceCallers, NEW for, NEW base, NEW patches, NEW pipelines,
           Answer(c, for, base, patches, pipelines), UNCHANGED <<parserRule, pipelinePatch, baseDocument>>,
           IsBase(base), BuiltInOrder(patches, "transform/enrich"), BuiltInOrder(pipelines, "transform/parser")
    PROVE  DocumentsInv'
<1> DEFINE answer == [for |-> for, base |-> base, patches |-> patches, pipelines |-> pipelines,
                      document |-> RenderSources(base, patches, pipelines)]
<1>1. /\ answered' = answer /\ previewed' = Absent /\ sourceCalls' = [sourceCalls EXCEPT ![c] = NoSourceCall]
      /\ base \o patches \o EnabledDocuments(pipelines) # <<>>
  BY DEF Answer
<1>2. /\ answer.base = base /\ answer.patches = patches /\ answer.pipelines = pipelines
      /\ answer.document = RenderSources(base, patches, pipelines)
  OBVIOUS
<1> HIDE DEF answer
<1>3. AnswerFits'
  BY <1>1, <1>2 DEF AnswerFits
<1>4. PreviewFits'
  BY <1>1 DEF PreviewFits
<1>5. StoredFit'
  BY StoredStays
<1> QED BY <1>1, <1>3, <1>4, <1>5, EndedHolds, OneCallHolds

LEMMA AnswersHold ==
    ASSUME SourcesInv, DocumentsInv, NEW c \in SourceCallers,
           \/ \E group \in ConfigGroups : ConfigSourcesReads(c, group)
           \/ ConfigSources(c) \/ ServiceConfigReads(c) \/ ServiceConfigSources(c)
    PROVE  DocumentsInv'
<1>1. CallHolds(sourceCalls[c])
  BY DEF DocumentsInv
<1>2. ASSUME NEW group, ConfigSourcesReads(c, group) PROVE DocumentsInv'
  <2>1. PICK patches \in PatchesOf(group, enrichment, Neighbours.enrichment) :
            SourceStep(c, [phase |-> "group", group |-> group, patches |-> patches])
    BY <1>2 DEF ConfigSourcesReads
  <2>2. BuiltInOrder(patches, "transform/enrich")
    BY <2>1, StoredEnrichment, NeighboursAssumption, GroupInOrder
  <2>3. CallHolds([phase |-> "group", group |-> group, patches |-> patches])
    BY <2>2 DEF CallHolds
  <2>4. StoredFit'
    BY <1>2, StoredStays DEF ConfigSourcesReads, Documents
  <2> QED BY <2>1, <2>3, <2>4, StepHolds
<1>3. CASE ConfigSources(c)
  <2> DEFINE call == sourceCalls[c]
  <2>1. PICK pipelines \in PatchesOf(call.group, pipelinePatch, Neighbours.pipelines) :
            Answer(c, call.group, <<>>, call.patches, pipelines)
    BY <1>3 DEF ConfigSources
  <2>2. BuiltInOrder(pipelines, "transform/parser")
    <3>1. pipelinePatch = Absent \/ IsOwnPatch(pipelinePatch, "transform/parser")
      BY DEF DocumentsInv, StoredFit
    <3> QED BY <2>1, <3>1, NeighboursAssumption, GroupInOrder
  <2>3. BuiltInOrder(call.patches, "transform/enrich")
    BY <1>1, <1>3 DEF CallHolds, ConfigSources
  <2>4. IsBase(<<>>) /\ UNCHANGED <<parserRule, pipelinePatch, baseDocument>>
    BY <1>3 DEF IsBase, ConfigSources, Documents
  <2> HIDE DEF call
  <2> QED BY <2>1, <2>2, <2>3, <2>4, AnswerHolds
<1>4. CASE ServiceConfigReads(c)
  <2> DEFINE q == [phase |-> "service", base |-> baseDocument, patch |-> enrichment]
  <2>1. SourceStep(c, q) /\ StoredFit'
    BY <1>4, StoredStays DEF ServiceConfigReads, Documents
  <2>2. CallHolds(q)
    BY StoredEnrichment DEF CallHolds, DocumentsInv, StoredFit
  <2> HIDE DEF q
  <2> QED BY <2>1, <2>2, StepHolds
<1>5. CASE ServiceConfigSources(c)
  <2> DEFINE call == sourceCalls[c]
             AsSeq(d) == IF d = Absent THEN <<>> ELSE <<d>>
             base == AsSeq(call.base)
             patches == AsSeq(call.patch)
             pipelines == AsSeq(pipelinePatch)
  <2>1. Answer(c, "service", base, patches, pipelines) /\ UNCHANGED <<parserRule, pipelinePatch, baseDocument>>
    BY <1>5 DEF ServiceConfigSources, Documents
  <2>2. /\ call.base = Absent \/ IsDocument(call.base)
        /\ call.patch = Absent \/ IsOwnPatch(call.patch, "transform/enrich")
        /\ pipelinePatch = Absent \/ IsOwnPatch(pipelinePatch, "transform/parser")
    BY <1>1, <1>5 DEF ServiceConfigSources, CallHolds, DocumentsInv, StoredFit
  <2>3. IsBase(base)
    BY <2>2 DEF IsBase
  <2>4. BuiltInOrder(patches, "transform/enrich")
    BY <2>2, NoneInOrder, OneInOrder DEF IsOwnPatch
  <2>5. BuiltInOrder(pipelines, "transform/parser")
    BY <2>2, NoneInOrder, OneInOrder DEF IsOwnPatch
  <2> HIDE DEF base, patches, pipelines
  <2> QED BY <2>1, <2>3, <2>4, <2>5, AnswerHolds
<1> QED BY <1>2, <1>3, <1>4, <1>5

LEMMA DocumentsStay == SourcesInv /\ DocumentsInv /\ [SourcesNext]_sourceVars => DocumentsInv'
<1> SUFFICES ASSUME SourcesInv, DocumentsInv, [SourcesNext]_sourceVars PROVE DocumentsInv'
  OBVIOUS
<1>1. ASSUME UNCHANGED <<Documents, sourceCalls>>, AnswerFits', PreviewFits' PROVE DocumentsInv'
  <2>1. StoredFit'
    BY <1>1, StoredStays DEF Documents
  <2>2. \A q : CallHolds(q) => CallHolds(q)'
    BY DEF CallHolds
  <2>3. (\A c \in SourceCallers : CallHolds(sourceCalls[c]))'
    BY <1>1, <2>2 DEF DocumentsInv
  <2> QED BY <1>1, <2>1, <2>3 DEF DocumentsInv
<1>2. ASSUME NEW rule \in ParserRules, PreviewParserRule(rule) PROVE DocumentsInv'
  <2>1. PICK result \in applyParserMappings(rule) : previewed' = [rule |-> rule, result |-> result]
    BY <1>2 DEF PreviewParserRule
  <2>2. previewed'.rule = rule /\ previewed'.result = result
    BY <2>1
  <2>3. rule.mode \in {"regex", "json"} /\ answered' = NoAnswer
    BY <1>2 DEF PreviewParserRule
  <2>4. PreviewFits'
    BY <2>1, <2>2, <2>3 DEF PreviewFits
  <2>5. AnswerFits'
    BY <2>3 DEF AnswerFits, NoAnswer
  <2> QED BY <1>1, <1>2, <2>4, <2>5 DEF PreviewParserRule
<1>3. ASSUME NEW c \in SourceCallers,
             \/ \E group \in ConfigGroups : BindServiceToCollectorGroup(c, group)
             \/ RegenerateReadsService(c) \/ RegenerateEnrichmentPatch(c) \/ SourceCallFails(c)
      PROVE  DocumentsInv'
  BY <1>3, EnrichingHolds
<1>4. ASSUME NEW c \in SourceCallers, UpsertEnrichmentPatch(c) \/ UpsertParserRule(c)
      PROVE  DocumentsInv'
  BY <1>4, WritesHold
<1>5. ASSUME NEW c \in SourceCallers,
             \/ \E rule \in ParserRules, group \in ConfigGroups \cup {Absent} :
                    UpsertParserRuleReads(c, rule, group)
             \/ \E document \in BaseDocuments : UpsertServiceBaseReads(c, document)
             \/ UpsertServiceBaseConfig(c) \/ GetParserRule(c) \/ GeneratePipelinePatch(c)
      PROVE  DocumentsInv'
  BY <1>5, SavingsHold
<1>6. ASSUME NEW c \in SourceCallers,
             \/ \E group \in ConfigGroups : ConfigSourcesReads(c, group)
             \/ ConfigSources(c) \/ ServiceConfigReads(c) \/ ServiceConfigSources(c)
      PROVE  DocumentsInv'
  BY <1>6, AnswersHold
<1>7. CASE UNCHANGED sourceVars
  BY <1>1, <1>7 DEF sourceVars, Documents, AnswerFits, PreviewFits, DocumentsInv
<1> QED
  BY <1>2, <1>3, <1>4, <1>5, <1>6, <1>7 DEF SourcesNext

LEMMA AnswersAreSound == DocumentsInv => RenderingIsSound
<1> SUFFICES ASSUME AnswerFits PROVE RenderingIsSound
  BY DEF DocumentsInv
<1>1. CASE answered.for = "nobody"
  BY <1>1 DEF RenderingIsSound
<1>2. CASE answered.for # "nobody"
  <2>1. SoundlyRendered(answered.base, answered.patches, answered.pipelines, answered.document)
    BY <1>2, RenderIsSound DEF AnswerFits
  <2> QED BY <1>2, <2>1 DEF RenderingIsSound, SoundlyRendered, AddsPatches, BaseOf
<1> QED BY <1>1, <1>2

-------------------------------------------------------------------------------
(*****************************************************************************)
(* Previews.  The statements of a rule, run one after the other, map its     *)
(* fields as if they were looked up in the sample.                           *)
(*****************************************************************************)
\* What statements may make of a sample.
PartialFunctions(D, V) == UNION {[S -> V] : S \in SUBSET D}

StateType(D, V) == [attributes : PartialFunctions(D, V), resources : PartialFunctions(D, V)]

Quiet(s) == s[1] \notin {"attribute", "resource"}

\* A mapping, and what it becomes when a target is given a value.
Assigned(new, mapping, target, value) ==
    /\ DOMAIN new = (DOMAIN mapping) \cup {target}
    /\ new[target] = value
    /\ \A k \in DOMAIN mapping : k # target => new[k] = mapping[k]

LEMMA AssignType ==
    ASSUME NEW D, NEW V, NEW mapping \in PartialFunctions(D, V), NEW target \in D, NEW value \in V
    PROVE  /\ Assign(mapping, target, value) \in PartialFunctions(D, V)
           /\ Assigned(Assign(mapping, target, value), mapping, target, value)
<1>1. PICK S \in SUBSET D : mapping \in [S -> V]
  BY DEF PartialFunctions
<1> DEFINE T == S \cup {target}
           a == [k \in T |-> IF k = target THEN value ELSE mapping[k]]
<1>2. Assign(mapping, target, value) = a
  BY <1>1 DEF Assign
<1>3. a \in [T -> V] /\ T \in SUBSET D
  BY <1>1
<1>4. a \in PartialFunctions(D, V)
  <2> HIDE DEF a, T
  <2> QED BY <1>3 DEF PartialFunctions
<1>5. Assigned(a, mapping, target, value)
  BY <1>1 DEF Assigned
<1> QED BY <1>2, <1>4, <1>5

\* One statement.
LEMMA StatementRuns ==
    ASSUME NEW D, NEW V, NEW state \in StateType(D, V), NEW s, Quiet(s) \/ s[2] \in D
    PROVE  /\ RunStatement(state, s) \in StateType(D, V)
           /\ Quiet(s) \/ s[3] \notin DOMAIN state.attributes => RunStatement(state, s) = state
           /\ s[1] = "attribute" /\ s[3] \in DOMAIN state.attributes =>
                  /\ RunStatement(state, s).attributes = Assign(state.attributes, s[2], state.attributes[s[3]])
                  /\ RunStatement(state, s).resources = state.resources
           /\ s[1] = "resource" /\ s[3] \in DOMAIN state.attributes =>
                  /\ RunStatement(state, s).attributes = state.attributes
                  /\ RunStatement(state, s).resources = Assign(state.resources, s[2], state.attributes[s[3]])
<1> DEFINE a == state.attributes
           r == state.resources
<1>1. a \in PartialFunctions(D, V) /\ r \in PartialFunctions(D, V)
  BY DEF StateType
<1>2. \A k \in DOMAIN a : a[k] \in V
  BY <1>1 DEF PartialFunctions
<1>3. CASE Quiet(s) \/ s[3] \notin DOMAIN a
  <2>1. RunStatement(state, s) = state
    BY <1>3 DEF RunStatement, Quiet
  <2> QED BY <1>3, <2>1 DEF Quiet
<1>4. CASE s[1] = "attribute" /\ s[3] \in DOMAIN a
  <2> DEFINE b == Assign(a, s[2], a[s[3]])
  <2>1. RunStatement(state, s) = [attributes |-> b, resources |-> r]
    BY <1>4 DEF RunStatement
  <2>2. b \in PartialFunctions(D, V)
    <3> HIDE DEF a
    <3> QED BY <1>1, <1>2, <1>4, AssignType DEF Quiet
  <2> HIDE DEF b, r
  <2>3. RunStatement(state, s) \in StateType(D, V)
    BY <1>1, <2>1, <2>2 DEF StateType
  <2>4. RunStatement(state, s).attributes = b /\ RunStatement(state, s).resources = r
    BY <2>1
  <2> QED BY <1>4, <2>3, <2>4 DEF b, r, Quiet
<1>5. CASE s[1] = "resource" /\ s[3] \in DOMAIN a
  <2> DEFINE b == Assign(r, s[2], a[s[3]])
  <2>1. RunStatement(state, s) = [attributes |-> a, resources |-> b]
    BY <1>5 DEF RunStatement
  <2>2. b \in PartialFunctions(D, V)
    <3> HIDE DEF a, r
    <3> QED BY <1>1, <1>2, <1>5, AssignType DEF Quiet
  <2> HIDE DEF b
  <2>3. RunStatement(state, s) \in StateType(D, V)
    <3> HIDE DEF a
    <3> QED BY <1>1, <2>1, <2>2 DEF StateType
  <2>4. RunStatement(state, s).attributes = a /\ RunStatement(state, s).resources = b
    <3> HIDE DEF a
    <3> QED BY <2>1
  <2> QED BY <1>5, <2>3, <2>4 DEF b, Quiet
<1> QED BY <1>3, <1>4, <1>5 DEF Quiet

\* All of them, one by one.
Runs(acc, init, statements, X) ==
    /\ acc[0] = init
    /\ acc[Len(statements)] = FoldLeft(RunStatement, init, statements)
    /\ \A i \in 0..Len(statements) : acc[i] \in X
    /\ \A i \in 1..Len(statements) : acc[i] = RunStatement(acc[i - 1], statements[i])

LEMMA RunFold ==
    ASSUME NEW D, NEW V, NEW init \in StateType(D, V), NEW statements, IsSequence(statements),
           \A i \in 1..Len(statements) : Quiet(statements[i]) \/ statements[i][2] \in D
    PROVE  \E acc : Runs(acc, init, statements, StateType(D, V))
<1> DEFINE n == Len(statements)
           X == StateType(D, V)
           Step(done, i) == RunStatement(done, statements[i])
           Solves(f) == f = [s \in SUBSET (DOMAIN statements) |->
                                 IF s = {} THEN init
                                 ELSE RunStatement(f[s \ {Max(s)}], statements[Max(s)])]
           iter == CHOOSE f : Solves(f)
           acc == [i \in 0..n |-> iter[1..i]]
<1>1. n \in Nat /\ DOMAIN statements = 1..n
  BY DEF IsSequence
<1>2. FoldLeft(RunStatement, init, statements) = iter[DOMAIN statements]
  BY DEF FoldLeft, MapThenFoldSet
<1> HIDE DEF n, X
<1>S. ASSUME NEW done \in X, NEW i \in 1..n PROVE Step(done, i) \in X
  BY StatementRuns DEF X, n
<1>3. Solves(iter)
  <2> DEFINE step == [p \in X \X (1..n) |-> Step(p[1], p[2])]
  <2>1. \A x \in X, i \in 1..n : step[<<x, i>>] = Step(x, i)
    OBVIOUS
  <2>2. step \in [X \X (1..n) -> X]
    <3> HIDE DEF Step
    <3> QED BY <1>S
  <2>0. init \in X
    BY DEF X
  <2> HIDE DEF step
  <2>3. PICK f \in [SUBSET (1..n) -> X] : Folds(f, n, init, step)
    BY <1>1, <2>0, <2>2, FoldExists
  <2>4. ASSUME NEW s \in SUBSET (1..n), s # {}
        PROVE  f[s] = Step(f[s \ {Max(s)}], Max(s))
    <3>1. Max(s) \in 1..n
      BY <1>1, <2>4, SomeLargest
    <3>2. f[s \ {Max(s)}] \in X
      OBVIOUS
    <3>3. f[s] = step[<<f[s \ {Max(s)}], Max(s)>>]
      BY <2>3, <2>4 DEF Folds
    <3> HIDE DEF Step
    <3> QED BY <2>1, <3>1, <3>2, <3>3
  <2>5. f[{}] = init
    BY <2>3 DEF Folds
  <2>6. Solves(f)
    BY <1>1, <2>4, <2>5
  <2> HIDE DEF Solves
  <2> QED BY <2>6
<1>4. iter[{}] = init
  BY <1>3
<1>5. ASSUME NEW i \in 1..n PROVE iter[1..i] = Step(iter[1..(i - 1)], i)
  <2>1. 1..i \in SUBSET (1..n) /\ 1..i # {} /\ Max(1..i) = i /\ (1..i) \ {i} = 1..(i - 1)
    BY <1>1, Prefix
  <2> HIDE DEF iter
  <2>2. iter[1..i] = Step(iter[(1..i) \ {Max(1..i)}], Max(1..i))
    <3> HIDE DEF n
    <3> DEFINE s == 1..i
    <3>1. s \in SUBSET (DOMAIN statements) /\ s # {}
      BY <1>1, <2>1
    <3> HIDE DEF s
    <3>2. iter[s] = Step(iter[s \ {Max(s)}], Max(s))
      BY <1>3, <3>1
    <3> QED BY <3>2 DEF s
  <2> HIDE DEF Step
  <2> QED BY <2>1, <2>2
<1> HIDE DEF Solves
<1>6. acc[0] = init /\ \A i \in 1..n : acc[i] = Step(acc[i - 1], i)
  <2>1. 1..0 = {} /\ 0 \in 0..n /\ \A i \in 1..n : i \in 0..n /\ i - 1 \in 0..n
    BY <1>1
  <2> HIDE DEF iter
  <2>2. \A i \in 0..n : acc[i] = iter[1..i]
    OBVIOUS
  <2> HIDE DEF acc, Step
  <2> QED BY <1>4, <1>5, <2>1, <2>2
<1>7. acc[n] = iter[DOMAIN statements]
  <2> HIDE DEF iter
  <2> QED BY <1>1
<1>8. \A i \in 0..n : acc[i] \in X
  <2> HIDE DEF acc, iter, Step
  <2>1. \A i \in 1..n : acc[i - 1] \in X => acc[i] \in X
    BY <1>6, <1>S
  <2>2. acc[0] \in X
    BY <1>1, <1>6 DEF X
  <2>3. \A i \in 0..n : acc[i] \in X
    BY <1>1, <2>1, <2>2, AllValues
  <2> QED BY <2>3
<1> HIDE DEF acc, iter
<1> QED BY <1>1, <1>2, <1>6, <1>7, <1>8 DEF n, X, Runs

\* No field is mapped onto one that is mapped, and no two onto one.
PlainMappings(m, r) ==
    /\ \A f \in DOMAIN m : m[f] \notin (DOMAIN m) \cup DOMAIN r
    /\ \A f, g \in DOMAIN m : m[f] = m[g] => f = g
    /\ \A f, g \in DOMAIN r : r[f] = r[g] => f = g

\* What a sample has become when the fields in A and R have been mapped.
SampleMapped(state, sample, m, r, A, R) ==
    /\ A \subseteq DOMAIN m /\ R \subseteq DOMAIN r
    /\ \A k : k \in DOMAIN state.attributes <=>
           k \in DOMAIN sample \/ \E f \in A : f \in DOMAIN sample /\ m[f] = k
    /\ \A f \in A : f \in DOMAIN sample => state.attributes[m[f]] = sample[f]
    /\ \A k \in DOMAIN sample :
           (\A f \in A : f \in DOMAIN sample => m[f] # k) => state.attributes[k] = sample[k]
    /\ \A k : k \in DOMAIN state.resources <=> \E f \in R : f \in DOMAIN sample /\ r[f] = k
    /\ \A f \in R : f \in DOMAIN sample => state.resources[r[f]] = sample[f]

\* The fields that are mapped are read as they were.
LEMMA FieldsStay ==
    ASSUME NEW state, NEW sample, NEW m, NEW r, NEW A, NEW R,
           PlainMappings(m, r), SampleMapped(state, sample, m, r, A, R), NEW f, f \in DOMAIN m \/ f \in DOMAIN r
    PROVE  /\ f \in DOMAIN state.attributes <=> f \in DOMAIN sample
           /\ f \in DOMAIN sample => state.attributes[f] = sample[f]
<1>1. \A g \in A : m[g] # f
  BY DEF PlainMappings, SampleMapped
<1>2. f \in DOMAIN state.attributes <=> f \in DOMAIN sample
  BY <1>1 DEF SampleMapped
<1>3. f \in DOMAIN sample => state.attributes[f] = sample[f]
  BY <1>1 DEF SampleMapped
<1> QED BY <1>2, <1>3

LEMMA AttributeShown ==
    ASSUME NEW D, NEW V, NEW state \in StateType(D, V), NEW sample, NEW m, NEW r,
           NEW A, NEW R, PlainMappings(m, r), SampleMapped(state, sample, m, r, A, R),
           NEW f \in DOMAIN m, m[f] \in D, NEW s, s[1] = "attribute", s[2] = m[f], s[3] = f
    PROVE  SampleMapped(RunStatement(state, s), sample, m, r, A \cup {f}, R)
<1> DEFINE a == state.attributes
           new == RunStatement(state, s)
<1>1. (f \in DOMAIN a <=> f \in DOMAIN sample) /\ (f \in DOMAIN sample => a[f] = sample[f])
  <2> HIDE DEF new, a
  <2>1. f \in DOMAIN m \/ f \in DOMAIN r
    OBVIOUS
  <2>2. /\ f \in DOMAIN state.attributes <=> f \in DOMAIN sample
        /\ f \in DOMAIN sample => state.attributes[f] = sample[f]
    BY <2>1, FieldsStay
  <2> QED BY <2>2 DEF a
<1>2. CASE f \notin DOMAIN sample
  <2>1. new = state
    BY <1>1, <1>2, StatementRuns
  <2> HIDE DEF new
  <2>2. SampleMapped(state, sample, m, r, A \cup {f}, R)
    BY <1>2 DEF SampleMapped
  <2> QED BY <2>1, <2>2 DEF new
<1>3. CASE f \in DOMAIN sample
  <2>1. new.attributes = Assign(a, m[f], sample[f]) /\ new.resources = state.resources
    BY <1>1, <1>3, StatementRuns
  <2>2. a \in PartialFunctions(D, V) /\ sample[f] \in V
    <3>1. a \in PartialFunctions(D, V)
      BY DEF StateType
    <3>2. a[f] \in V
      <4> HIDE DEF a
      <4> QED BY <1>1, <1>3, <3>1 DEF PartialFunctions
    <3> QED BY <1>1, <1>3, <3>1, <3>2
  <2> DEFINE b == Assign(a, m[f], sample[f])
  <2>3. /\ DOMAIN b = (DOMAIN a) \cup {m[f]} /\ b[m[f]] = sample[f]
        /\ \A k \in DOMAIN a : k # m[f] => b[k] = a[k]
    <3>1. m[f] \in D
      OBVIOUS
    <3> HIDE DEF a
    <3>2. Assigned(b, a, m[f], sample[f])
      BY <2>2, <3>1, AssignType DEF b
    <3> QED BY <3>2 DEF Assigned
  <2> HIDE DEF b, new
  <2>4. \A k : k \in DOMAIN a <=> k \in DOMAIN sample \/ \E g \in A : g \in DOMAIN sample /\ m[g] = k
    BY DEF SampleMapped
  <2>5. \A k : k \in DOMAIN b <=>
            k \in DOMAIN sample \/ \E g \in A \cup {f} : g \in DOMAIN sample /\ m[g] = k
    <3> HIDE DEF a
    <3> QED BY <1>3, <2>3, <2>4
  <2>6. ASSUME NEW g \in A \cup {f}, g \in DOMAIN sample PROVE b[m[g]] = sample[g]
    <3>1. CASE g = f
      BY <2>3, <3>1
    <3>2. CASE g # f
      <4>1. g \in A /\ m[g] # m[f] /\ m[g] \in DOMAIN a
        <5>1. g \in A /\ g \in DOMAIN sample /\ A \subseteq DOMAIN m
          BY <2>6, <3>2 DEF SampleMapped
        <5>2. m[g] # m[f]
          BY <3>2, <5>1 DEF PlainMappings
        <5> QED BY <2>4, <5>1, <5>2
      <4>2. a[m[g]] = sample[g]
        BY <2>6, <4>1 DEF SampleMapped
      <4> HIDE DEF a
      <4> QED BY <2>3, <4>1, <4>2
    <3> QED BY <3>1, <3>2
  <2>7. ASSUME NEW k \in DOMAIN sample, \A g \in A \cup {f} : g \in DOMAIN sample => m[g] # k
        PROVE  b[k] = sample[k]
    <3>1. k # m[f] /\ \A g \in A : g \in DOMAIN sample => m[g] # k
      BY <1>3, <2>7
    <3>2. a[k] = sample[k] /\ k \in DOMAIN a
      BY <2>4, <3>1 DEF SampleMapped
    <3> HIDE DEF a
    <3> QED BY <2>3, <3>1, <3>2
  <2>8. new.attributes = b
    BY <2>1 DEF b
  <2> HIDE DEF a
  <2>9. /\ \A k : k \in DOMAIN new.resources <=> \E g \in R : g \in DOMAIN sample /\ r[g] = k
        /\ \A g \in R : g \in DOMAIN sample => new.resources[r[g]] = sample[g]
    BY <2>1 DEF SampleMapped
  <2>10. SampleMapped(new, sample, m, r, A \cup {f}, R)
    BY <2>5, <2>6, <2>7, <2>8, <2>9 DEF SampleMapped
  <2> QED BY <2>10 DEF new
<1> QED BY <1>2, <1>3

LEMMA ResourceShown ==
    ASSUME NEW D, NEW V, NEW state \in StateType(D, V), NEW sample, NEW m, NEW r,
           NEW A, NEW R, PlainMappings(m, r),
           SampleMapped(state, sample, m, r, A, R),
           NEW f \in DOMAIN r, r[f] \in D, NEW s, s[1] = "resource", s[2] = r[f], s[3] = f
    PROVE  SampleMapped(RunStatement(state, s), sample, m, r, A, R \cup {f})
<1> DEFINE a == state.attributes
           q == state.resources
           new == RunStatement(state, s)
<1>1. (f \in DOMAIN a <=> f \in DOMAIN sample) /\ (f \in DOMAIN sample => a[f] = sample[f])
  <2> HIDE DEF new, a
  <2>1. f \in DOMAIN m \/ f \in DOMAIN r
    OBVIOUS
  <2>2. /\ f \in DOMAIN state.attributes <=> f \in DOMAIN sample
        /\ f \in DOMAIN sample => state.attributes[f] = sample[f]
    BY <2>1, FieldsStay
  <2> QED BY <2>2 DEF a
<1>2. CASE f \notin DOMAIN sample
  <2>1. new = state
    BY <1>1, <1>2, StatementRuns
  <2> HIDE DEF new
  <2>2. SampleMapped(state, sample, m, r, A, R \cup {f})
    BY <1>2 DEF SampleMapped
  <2> QED BY <2>1, <2>2 DEF new
<1>3. CASE f \in DOMAIN sample
  <2>1. new.attributes = a /\ new.resources = Assign(q, r[f], sample[f])
    BY <1>1, <1>3, StatementRuns
  <2>2. q \in PartialFunctions(D, V) /\ sample[f] \in V
    <3>1. a \in PartialFunctions(D, V) /\ q \in PartialFunctions(D, V)
      BY DEF StateType
    <3>2. a[f] \in V
      <4> HIDE DEF a
      <4> QED BY <1>1, <1>3, <3>1 DEF PartialFunctions
    <3> QED BY <1>1, <1>3, <3>1, <3>2
  <2> DEFINE b == Assign(q, r[f], sample[f])
  <2>3. /\ DOMAIN b = (DOMAIN q) \cup {r[f]} /\ b[r[f]] = sample[f]
        /\ \A k \in DOMAIN q : k # r[f] => b[k] = q[k]
    <3>1. r[f] \in D
      OBVIOUS
    <3> HIDE DEF q
    <3>2. Assigned(b, q, r[f], sample[f])
      BY <2>2, <3>1, AssignType DEF b
    <3> QED BY <3>2 DEF Assigned
  <2> HIDE DEF b, new
  <2>4. \A k : k \in DOMAIN q <=> \E g \in R : g \in DOMAIN sample /\ r[g] = k
    BY DEF SampleMapped
  <2>5. \A k : k \in DOMAIN b <=> \E g \in R \cup {f} : g \in DOMAIN sample /\ r[g] = k
    <3> HIDE DEF q
    <3> QED BY <1>3, <2>3, <2>4
  <2>6. ASSUME NEW g \in R \cup {f}, g \in DOMAIN sample PROVE b[r[g]] = sample[g]
    <3>1. CASE g = f
      BY <2>3, <3>1
    <3>2. CASE g # f
      <4>1. g \in R /\ r[g] # r[f] /\ r[g] \in DOMAIN q
        <5>1. g \in R /\ g \in DOMAIN sample /\ R \subseteq DOMAIN r
          BY <2>6, <3>2 DEF SampleMapped
        <5>2. r[g] # r[f]
          BY <3>2, <5>1 DEF PlainMappings
        <5> QED BY <2>4, <5>1, <5>2
      <4>2. q[r[g]] = sample[g]
        BY <2>6, <4>1 DEF SampleMapped
      <4> HIDE DEF q
      <4> QED BY <2>3, <4>1, <4>2
    <3> QED BY <3>1, <3>2
  <2>7. new.resources = b
    BY <2>1 DEF b
  <2> HIDE DEF q
  <2>8. /\ \A k : k \in DOMAIN new.attributes <=>
               k \in DOMAIN sample \/ \E g \in A : g \in DOMAIN sample /\ m[g] = k
        /\ \A g \in A : g \in DOMAIN sample => new.attributes[m[g]] = sample[g]
        /\ \A k \in DOMAIN sample :
               (\A g \in A : g \in DOMAIN sample => m[g] # k) => new.attributes[k] = sample[k]
    BY <2>1 DEF SampleMapped
  <2>9. SampleMapped(new, sample, m, r, A, R \cup {f})
    BY <2>5, <2>6, <2>7, <2>8 DEF SampleMapped
  <2> QED BY <2>9 DEF new
<1> QED BY <1>2, <1>3

\* Every statement maps a field or nothing, and every field is mapped.
MapsFields(statements, m, r) ==
    /\ IsSequence(statements)
    /\ \A j \in 1..Len(statements) :
           \/ Quiet(statements[j])
           \/ \E f \in DOMAIN m : statements[j] = <<"attribute", m[f], f>>
           \/ \E f \in DOMAIN r : statements[j] = <<"resource", r[f], f>>
    /\ \A f \in DOMAIN m : \E j \in 1..Len(statements) : statements[j] = <<"attribute", m[f], f>>
    /\ \A f \in DOMAIN r : \E j \in 1..Len(statements) : statements[j] = <<"resource", r[f], f>>

LEMMA AllShown ==
    ASSUME NEW sample, sample = [k \in DOMAIN sample |-> sample[k]], NEW m, NEW r, PlainMappings(m, r),
           NEW statements, MapsFields(statements, m, r)
    PROVE  LET init == [attributes |-> sample, resources |-> NoMapping]
               final == FoldLeft(RunStatement, init, statements)
           IN  /\ \E D, V : final \in StateType(D, V)
               /\ SampleMapped(final, sample, m, r, DOMAIN m, DOMAIN r)
<1> DEFINE init == [attributes |-> sample, resources |-> NoMapping]
           final == FoldLeft(RunStatement, init, statements)
           n == Len(statements)
           D == (DOMAIN sample) \cup {m[f] : f \in DOMAIN m} \cup {r[f] : f \in DOMAIN r}
           V == {sample[k] : k \in DOMAIN sample}
           X == StateType(D, V)
<1>1. n \in Nat
  BY DEF MapsFields, IsSequence
<1>2. init \in X
  <2>1. sample \in PartialFunctions(D, V)
    <3>1. DOMAIN sample \in SUBSET D
      OBVIOUS
    <3>2. sample \in [DOMAIN sample -> V]
      OBVIOUS
    <3> HIDE DEF D, V
    <3> QED BY <3>1, <3>2 DEF PartialFunctions
  <2>2. NoMapping \in PartialFunctions(D, V)
    <3>1. {} \in SUBSET D /\ NoMapping \in [{} -> V]
      BY DEF NoMapping
    <3> HIDE DEF D, V
    <3> QED BY <3>1 DEF PartialFunctions
  <2> HIDE DEF D, V
  <2> QED BY <2>1, <2>2 DEF StateType
<1>3. \A i \in 1..n : Quiet(statements[i]) \/ statements[i][2] \in D
  <2> SUFFICES ASSUME NEW i \in 1..n, ~Quiet(statements[i]) PROVE statements[i][2] \in D
    OBVIOUS
  <2> DEFINE s == statements[i]
  <2>1. (\E f \in DOMAIN m : s = <<"attribute", m[f], f>>) \/ (\E f \in DOMAIN r : s = <<"resource", r[f], f>>)
    BY DEF MapsFields
  <2> HIDE DEF s
  <2> QED BY <2>1 DEF s
<1>4. (\A f \in DOMAIN m : m[f] \in D) /\ (\A f \in DOMAIN r : r[f] \in D)
  OBVIOUS
<1>5. SampleMapped(init, sample, m, r, {}, {})
  <2>1. init.attributes = sample /\ init.resources = NoMapping /\ DOMAIN NoMapping = {}
    BY DEF NoMapping
  <2> HIDE DEF init
  <2> QED BY <2>1 DEF SampleMapped
<1> HIDE DEF D, V, init
<1>6. PICK acc : Runs(acc, init, statements, X)
  <2>1. IsSequence(statements) /\ init \in StateType(D, V)
    BY <1>2 DEF MapsFields
  <2> QED BY <1>3, <2>1, RunFold
<1>7. /\ acc[0] = init /\ acc[n] = final /\ \A i \in 0..n : acc[i] \in X
      /\ \A i \in 1..n : acc[i] = RunStatement(acc[i - 1], statements[i])
  BY <1>6 DEF Runs
<1> HIDE DEF final
<1> DEFINE A(i) == {f \in DOMAIN m : \E j \in 1..i : statements[j] = <<"attribute", m[f], f>>}
           R(i) == {f \in DOMAIN r : \E j \in 1..i : statements[j] = <<"resource", r[f], f>>}
           Q == {i \in 0..n : SampleMapped(acc[i], sample, m, r, A(i), R(i))}
<1>8. 0 \in Q
  <2>1. A(0) = {} /\ R(0) = {}
    OBVIOUS
  <2> HIDE DEF A, R
  <2>2. SampleMapped(acc[0], sample, m, r, A(0), R(0))
    BY <1>5, <1>7, <2>1
  <2> QED BY <1>1, <2>2
<1>9. ASSUME NEW i \in Q, i < n PROVE i + 1 \in Q
  <2> DEFINE j == i + 1
             s == statements[j]
  <2>1. /\ i \in 0..n /\ j \in 1..n /\ j \in 0..n /\ j - 1 = i /\ 1..j = (1..i) \cup {j}
        /\ SampleMapped(acc[i], sample, m, r, A(i), R(i))
    BY <1>1, <1>9
  <2>2. /\ A(j) = A(i) \cup {f \in DOMAIN m : s = <<"attribute", m[f], f>>}
        /\ R(j) = R(i) \cup {f \in DOMAIN r : s = <<"resource", r[f], f>>}
    BY <2>1
  <2>3. A(i) \in SUBSET DOMAIN m /\ R(i) \in SUBSET DOMAIN r
    OBVIOUS
  <2> HIDE DEF A, R, j
  <2>4. acc[j] = RunStatement(acc[i], s) /\ acc[i] \in StateType(D, V)
    BY <1>7, <2>1
  <2>5. \/ Quiet(s)
        \/ \E f \in DOMAIN m : s = <<"attribute", m[f], f>>
        \/ \E f \in DOMAIN r : s = <<"resource", r[f], f>>
    BY <2>1 DEF MapsFields
  <2> HIDE DEF s, X
  <2>6. CASE Quiet(s)
    <3>1. acc[j] = acc[i]
      BY <2>4, <2>6, StatementRuns
    <3>2. A(j) = A(i) /\ R(j) = R(i)
      BY <2>2, <2>6 DEF Quiet
    <3> QED BY <2>1, <3>1, <3>2
  <2>7. ASSUME NEW f \in DOMAIN m, s = <<"attribute", m[f], f>> PROVE SampleMapped(acc[j], sample, m, r, A(j), R(j))
    <3>1. s[1] = "attribute" /\ s[2] = m[f] /\ s[3] = f
      BY <2>7
    <3>2. {g \in DOMAIN m : s = <<"attribute", m[g], g>>} = {f}
      BY <2>7
    <3>3. {g \in DOMAIN r : s = <<"resource", r[g], g>>} = {}
      BY <2>7
    <3>4. A(j) = A(i) \cup {f} /\ R(j) = R(i)
      BY <2>2, <3>2, <3>3
    <3>5. SampleMapped(RunStatement(acc[i], s), sample, m, r, A(i) \cup {f}, R(i))
      BY <1>4, <2>1, <2>3, <2>4, <3>1, AttributeShown
    <3> QED BY <2>4, <3>4, <3>5
  <2>8. ASSUME NEW f \in DOMAIN r, s = <<"resource", r[f], f>> PROVE SampleMapped(acc[j], sample, m, r, A(j), R(j))
    <3>1. s[1] = "resource" /\ s[2] = r[f] /\ s[3] = f
      BY <2>8
    <3>2. {g \in DOMAIN r : s = <<"resource", r[g], g>>} = {f}
      BY <2>8
    <3>3. {g \in DOMAIN m : s = <<"attribute", m[g], g>>} = {}
      BY <2>8
    <3>4. R(j) = R(i) \cup {f} /\ A(j) = A(i)
      BY <2>2, <3>2, <3>3
    <3>5. SampleMapped(RunStatement(acc[i], s), sample, m, r, A(i), R(i) \cup {f})
      BY <1>4, <2>1, <2>3, <2>4, <3>1, ResourceShown
    <3> QED BY <2>4, <3>4, <3>5
  <2>9. SampleMapped(acc[j], sample, m, r, A(j), R(j))
    BY <2>1, <2>5, <2>6, <2>7, <2>8
  <2> QED BY <2>1, <2>9 DEF j
<1>10. Q \in SUBSET (0..n)
  OBVIOUS
<1>11. n \in Q
  <2>1. Q = 0..n
    <3> HIDE DEF Q
    <3> QED BY <1>1, <1>8, <1>9, <1>10, UpToInduction
  <2> HIDE DEF Q
  <2> QED BY <1>1, <2>1
<1>12. A(n) = DOMAIN m /\ R(n) = DOMAIN r
  BY DEF MapsFields
<1>13. final \in StateType(D, V)
  <2>1. n \in 0..n
    BY <1>1
  <2> QED BY <1>7, <2>1
<1>14. SampleMapped(final, sample, m, r, DOMAIN m, DOMAIN r)
  <2>1. SampleMapped(acc[n], sample, m, r, A(n), R(n))
    BY <1>11
  <2> HIDE DEF A, R
  <2> QED BY <1>7, <1>12, <2>1
<1> QED BY <1>13, <1>14 DEF final, init

\* The statements that a mapping is made into.
StatementsOfMapping(kind, mapping) == {<<kind, mapping[f], f>> : f \in DOMAIN mapping}

LEMMA MappingIsListed ==
    ASSUME NEW kind, NEW mapping, DOMAIN mapping \subseteq Nat, IsFiniteSet(DOMAIN mapping)
    PROVE  ToSet(mappingTransformStatements(kind, mapping)) = StatementsOfMapping(kind, mapping)
<1> DEFINE s == mappingTransformStatements(kind, mapping)
           Entry(f) == <<kind, mapping[f], f>>
<1>1. PICK fields, n : Lists(s, fields, n, kind, mapping)
  BY MappingStatements
<1>2. /\ fields \in [1..n -> DOMAIN mapping] /\ \A f \in DOMAIN mapping : \E i \in 1..n : fields[i] = f
      /\ s = [i \in 1..n |-> Entry(fields[i])]
  BY <1>1 DEF Lists
<1>3. StatementsOfMapping(kind, mapping) = {Entry(f) : f \in DOMAIN mapping}
  BY DEF StatementsOfMapping
<1> HIDE DEF s, Entry
<1>4. ToSet(s) = {Entry(fields[i]) : i \in 1..n}
  BY <1>2 DEF ToSet
<1>5. {Entry(fields[i]) : i \in 1..n} = {Entry(f) : f \in DOMAIN mapping}
  BY <1>2
<1> QED BY <1>3, <1>4, <1>5 DEF s

LEMMA SequenceSet ==
    ASSUME NEW s, IsSequence(s)
    PROVE  /\ Len(s) \in Nat
           /\ \A i \in 1..Len(s) : s[i] \in ToSet(s)
           /\ \A x \in ToSet(s) : \E i \in 1..Len(s) : s[i] = x
BY DEF IsSequence, ToSet

LEMMA StatementSet ==
    ASSUME NEW rule \in ParserRules, rule.mode \in {"regex", "json"}
    PROVE  ToSet(Statements(rule)) =
               {<<"merge", rule.mode>>}
               \cup StatementsOfMapping("attribute", mergeMappings(rule.legacy, rule.attributes))
               \cup StatementsOfMapping("resource", rule.resources) \cup ToSet(rule.ottl)
<1> DEFINE h == <<<<"merge", rule.mode>>>>
           m == mergeMappings(rule.legacy, rule.attributes)
           r == rule.resources
           a == mappingTransformStatements("attribute", m)
           b == mappingTransformStatements("resource", r)
           o == rule.ottl
<1>1. /\ DOMAIN m \subseteq Nat /\ IsFiniteSet(DOMAIN m)
      /\ DOMAIN r \subseteq Nat /\ IsFiniteSet(DOMAIN r)
      /\ IsSequence(o)
  BY RuleMappings
<1>2. IsSequence(h) /\ ToSet(h) = {<<"merge", rule.mode>>}
  <2> DEFINE x == <<"merge", rule.mode>>
  <2> HIDE DEF x
  <2>1. <<x>> \in Seq({x}) /\ ToSet(<<x>>) = {x}
    BY DEF ToSet
  <2> QED BY <2>1, InSequence DEF x
<1>3. Statements(rule) = h \o a \o b \o o
  BY DEF Statements
<1> HIDE DEF h, m, r, o
<1>4. /\ IsSequence(a) /\ ToSet(a) = StatementsOfMapping("attribute", m)
      /\ IsSequence(b) /\ ToSet(b) = StatementsOfMapping("resource", r)
  BY <1>1, ListedSequence, MappingIsListed
<1> HIDE DEF a, b
<1>5. ASSUME NEW s, NEW t, IsSequence(s), IsSequence(t)
      PROVE  IsSequence(s \o t) /\ ToSet(s \o t) = ToSet(s) \cup ToSet(t)
  <2> DEFINE X == ToSet(s) \cup ToSet(t)
  <2>1. ToSet(s) \subseteq X /\ ToSet(t) \subseteq X
    OBVIOUS
  <2> HIDE DEF X
  <2>2. s \in Seq(X) /\ t \in Seq(X)
    BY <1>5, <2>1, Wider DEF IsSequence
  <2> QED BY <1>5, <2>2, ConcatSet, JoinedSequence
<1>6. IsSequence(h \o a) /\ ToSet(h \o a) = ToSet(h) \cup ToSet(a)
  BY <1>2, <1>4, <1>5
<1>7. IsSequence((h \o a) \o b) /\ ToSet((h \o a) \o b) = ToSet(h \o a) \cup ToSet(b)
  BY <1>4, <1>5, <1>6
<1>8. ToSet(((h \o a) \o b) \o o) = ToSet((h \o a) \o b) \cup ToSet(o)
  BY <1>1, <1>5, <1>7
<1>9. ToSet(Statements(rule)) = {<<"merge", rule.mode>>} \cup StatementsOfMapping("attribute", m)
                                \cup StatementsOfMapping("resource", r) \cup ToSet(o)
  BY <1>2, <1>3, <1>4, <1>6, <1>7, <1>8
<1> QED BY <1>9 DEF m, r, o

LEMMA RuleMapsFields ==
    ASSUME NEW rule \in ParserRules, rule.mode \in {"regex", "json"}
    PROVE  MapsFields(Statements(rule), mergeMappings(rule.legacy, rule.attributes), rule.resources)
<1> DEFINE s == Statements(rule)
           m == mergeMappings(rule.legacy, rule.attributes)
           r == rule.resources
<1>1. IsSequence(s)
  BY StatementsAreSequence
<1>2. ToSet(s) = {<<"merge", rule.mode>>} \cup StatementsOfMapping("attribute", m)
                 \cup StatementsOfMapping("resource", r) \cup ToSet(rule.ottl)
  BY StatementSet
<1>3. \A x \in ToSet(rule.ottl) : Quiet(x)
  BY RulesAssumption DEF ToSet, Quiet
<1>4. Quiet(<<"merge", rule.mode>>)
  BY DEF Quiet
<1> HIDE DEF s, m, r
<1>5. \A x \in ToSet(s) : \/ Quiet(x)
                          \/ \E f \in DOMAIN m : x = <<"attribute", m[f], f>>
                          \/ \E f \in DOMAIN r : x = <<"resource", r[f], f>>
  BY <1>2, <1>3, <1>4 DEF StatementsOfMapping
<1>6. /\ \A f \in DOMAIN m : <<"attribute", m[f], f>> \in ToSet(s)
      /\ \A f \in DOMAIN r : <<"resource", r[f], f>> \in ToSet(s)
  BY <1>2 DEF StatementsOfMapping
<1>7. MapsFields(s, m, r)
  BY <1>1, <1>5, <1>6, SequenceSet DEF MapsFields
<1> QED BY <1>7 DEF s, m, r

\* What a preview may show.
LEMMA MappedIsFound ==
    ASSUME NEW fields, NEW mapping, NEW targets \in Mapped(fields, mapping)
    PROVE  /\ targets = [k \in DOMAIN targets |-> targets[k]]
           /\ \A k : k \in DOMAIN targets <=> \E f \in DOMAIN mapping : f \in DOMAIN fields /\ mapping[f] = k
           /\ \A k \in DOMAIN targets :
                  \E f \in DOMAIN mapping : f \in DOMAIN fields /\ mapping[f] = k /\ targets[k] = fields[f]
<1> DEFINE Found == (DOMAIN mapping) \cap (DOMAIN fields)
           T == {mapping[k] : k \in Found}
           V == {fields[k] : k \in Found}
<1>1. targets \in [T -> V] /\ \A t \in DOMAIN targets : \E k \in Found : mapping[k] = t /\ targets[t] = fields[k]
  BY DEF Mapped
<1>2. \A k : k \in T <=> \E f \in DOMAIN mapping : f \in DOMAIN fields /\ mapping[f] = k
  OBVIOUS
<1>3. DOMAIN targets = T /\ targets = [k \in T |-> targets[k]]
  <2> HIDE DEF T, V
  <2> QED BY <1>1
<1>4. \A t \in DOMAIN targets : \E f \in DOMAIN mapping :
          f \in DOMAIN fields /\ mapping[f] = t /\ targets[t] = fields[f]
  BY <1>1
<1> HIDE DEF T
<1> QED BY <1>2, <1>3, <1>4

\* A partial function is told by its domain and its values.
LEMMA PartialFunctionIs ==
    ASSUME NEW D, NEW V, NEW g \in PartialFunctions(D, V)
    PROVE  g = [k \in DOMAIN g |-> g[k]]
BY DEF PartialFunctions

\* Of what a preview shows, what it found in the sample and what it found besides.
LEMMA ShownIsFound ==
    ASSUME NEW rule \in ParserRules, NEW mapping, NEW targets \in Mapped(lookupParsedField(rule), mapping),
           \A f, g \in DOMAIN mapping : mapping[f] = mapping[g] => f = g
    PROVE  LET own == OfFields(targets, rule, mapping)
           IN  /\ own = [k \in DOMAIN own |-> own[k]]
               /\ \A k : k \in DOMAIN own <=>
                      \E f \in DOMAIN mapping : f \in DOMAIN rule.sample /\ mapping[f] = k
               /\ \A k \in DOMAIN own : \E f \in DOMAIN mapping :
                      f \in DOMAIN rule.sample /\ mapping[f] = k /\ own[k] = rule.sample[f]
               /\ FoundBesides(targets, rule, mapping)
<1> DEFINE fields == lookupParsedField(rule)
           own == OfFields(targets, rule, mapping)
<1>1. /\ DOMAIN fields = (DOMAIN rule.nested) \cup (DOMAIN rule.sample)
      /\ \A f \in DOMAIN rule.sample : fields[f] = rule.sample[f]
      /\ \A f \in DOMAIN fields : f \notin DOMAIN rule.sample => fields[f] = rule.nested[f]
  BY DEF lookupParsedField, mergeMappings
<1>2. /\ \A k : k \in DOMAIN targets <=> \E f \in DOMAIN mapping : f \in DOMAIN fields /\ mapping[f] = k
      /\ \A k \in DOMAIN targets :
             \E f \in DOMAIN mapping : f \in DOMAIN fields /\ mapping[f] = k /\ targets[k] = fields[f]
  <2> HIDE DEF fields
  <2>1. targets \in Mapped(fields, mapping)
    BY DEF fields
  <2> QED BY <2>1, MappedIsFound
<1> HIDE DEF fields
<1>3. \A k : k \in TargetsOf(rule, mapping) <=>
          \E f \in DOMAIN mapping : f \in DOMAIN rule.sample /\ mapping[f] = k
  BY DEF TargetsOf
<1>4. /\ DOMAIN own = (DOMAIN targets) \cap TargetsOf(rule, mapping)
      /\ own = [k \in DOMAIN own |-> own[k]]
      /\ \A k \in DOMAIN own : own[k] = targets[k]
  BY DEF OfFields
<1>5. \A k : k \in DOMAIN own <=>
          \E f \in DOMAIN mapping : f \in DOMAIN rule.sample /\ mapping[f] = k
  <2> HIDE DEF own
  <2> QED BY <1>1, <1>2, <1>3, <1>4
<1>6. ASSUME NEW k \in DOMAIN own
      PROVE  \E f \in DOMAIN mapping : f \in DOMAIN rule.sample /\ mapping[f] = k /\ own[k] = rule.sample[f]
  <2> HIDE DEF own
  <2>1. PICK f \in DOMAIN mapping : f \in DOMAIN fields /\ mapping[f] = k /\ targets[k] = fields[f]
    BY <1>2, <1>4
  <2>2. PICK g \in DOMAIN mapping : g \in DOMAIN rule.sample /\ mapping[g] = k
    BY <1>5
  <2>3. f = g
    BY <2>1, <2>2
  <2> QED BY <1>1, <1>4, <2>1, <2>2, <2>3
<1>7. FoundBesides(targets, rule, mapping)
  <2> SUFFICES ASSUME NEW t \in (DOMAIN targets) \ TargetsOf(rule, mapping)
               PROVE  \E f \in (DOMAIN mapping) \cap (DOMAIN rule.nested) :
                          mapping[f] = t /\ targets[t] = rule.nested[f]
    BY DEF FoundBesides
  <2>1. PICK f \in DOMAIN mapping : f \in DOMAIN fields /\ mapping[f] = t /\ targets[t] = fields[f]
    BY <1>2
  <2>2. f \notin DOMAIN rule.sample
    BY <1>3, <2>1
  <2>3. f \in DOMAIN rule.nested /\ fields[f] = rule.nested[f]
    BY <1>1, <2>1, <2>2
  <2> QED BY <2>1, <2>3
<1> QED BY <1>4, <1>5, <1>6, <1>7

LEMMA PreviewIsRun ==
    ASSUME NEW rule \in ParserRules, rule.mode \in {"regex", "json"}, NEW result \in applyParserMappings(rule),
           PlainMappings(mergeMappings(rule.legacy, rule.attributes), rule.resources)
    PROVE  LET mapping == mergeMappings(rule.legacy, rule.attributes)
           IN  /\ Run(rule) =
                      [attributes |-> mergeMappings(rule.sample, OfFields(result.attributes, rule, mapping)),
                       resources  |-> OfFields(result.resources, rule, rule.resources)]
               /\ FoundBesides(result.attributes, rule, mapping)
               /\ FoundBesides(result.resources, rule, rule.resources)
<1> DEFINE m == mergeMappings(rule.legacy, rule.attributes)
           r == rule.resources
           sample == rule.sample
           final == Run(rule)
           fa == final.attributes
           fr == final.resources
           ra == OfFields(result.attributes, rule, m)
           rr == OfFields(result.resources, rule, r)
<1>1. result.attributes \in Mapped(lookupParsedField(rule), m) /\ result.resources \in Mapped(lookupParsedField(rule), r)
  BY DEF applyParserMappings
<1>2. /\ \E D, V : final \in StateType(D, V)
      /\ SampleMapped(final, sample, m, r, DOMAIN m, DOMAIN r)
  <2>1. sample = [k \in DOMAIN sample |-> sample[k]]
    BY RulesAssumption
  <2>2. MapsFields(Statements(rule), m, r)
    BY RuleMapsFields
  <2> HIDE DEF m, r, sample
  <2>3. final = FoldLeft(RunStatement, [attributes |-> sample, resources |-> NoMapping], Statements(rule))
    BY DEF Run, sample
  <2> QED BY <2>1, <2>2, <2>3, AllShown DEF m, r
<1> HIDE DEF m, r, sample, final
<1>3. PICK D, V : final \in StateType(D, V)
  BY <1>2
<1>4. fa \in PartialFunctions(D, V) /\ fr \in PartialFunctions(D, V) /\ final = [attributes |-> fa, resources |-> fr]
  BY <1>3 DEF StateType
<1>5. /\ \A k : k \in DOMAIN fa <=> k \in DOMAIN sample \/ \E f \in DOMAIN m : f \in DOMAIN sample /\ m[f] = k
      /\ \A f \in DOMAIN m : f \in DOMAIN sample => fa[m[f]] = sample[f]
      /\ \A k \in DOMAIN sample :
             (\A f \in DOMAIN m : f \in DOMAIN sample => m[f] # k) => fa[k] = sample[k]
      /\ \A k : k \in DOMAIN fr <=> \E f \in DOMAIN r : f \in DOMAIN sample /\ r[f] = k
      /\ \A f \in DOMAIN r : f \in DOMAIN sample => fr[r[f]] = sample[f]
  BY <1>2 DEF SampleMapped
<1> HIDE DEF fa, fr, ra, rr
<1>6. fa = [k \in DOMAIN fa |-> fa[k]] /\ fr = [k \in DOMAIN fr |-> fr[k]]
  BY <1>4, PartialFunctionIs
<1>7. /\ ra = [k \in DOMAIN ra |-> ra[k]]
      /\ \A k : k \in DOMAIN ra <=> \E f \in DOMAIN m : f \in DOMAIN sample /\ m[f] = k
      /\ \A k \in DOMAIN ra : \E f \in DOMAIN m : f \in DOMAIN sample /\ m[f] = k /\ ra[k] = sample[f]
      /\ FoundBesides(result.attributes, rule, m)
  <2>1. \A f, g \in DOMAIN m : m[f] = m[g] => f = g
    BY DEF PlainMappings, m
  <2> QED BY <1>1, <2>1, ShownIsFound DEF ra, sample
<1>8. /\ rr = [k \in DOMAIN rr |-> rr[k]]
      /\ \A k : k \in DOMAIN rr <=> \E f \in DOMAIN r : f \in DOMAIN sample /\ r[f] = k
      /\ \A k \in DOMAIN rr : \E f \in DOMAIN r : f \in DOMAIN sample /\ r[f] = k /\ rr[k] = sample[f]
      /\ FoundBesides(result.resources, rule, r)
  <2>1. \A f, g \in DOMAIN r : r[f] = r[g] => f = g
    BY DEF PlainMappings, r
  <2> QED BY <1>1, <2>1, ShownIsFound DEF rr, sample
<1>9. fr = rr
  <2>1. DOMAIN fr = DOMAIN rr
    BY <1>5, <1>8
  <2>2. \A k \in DOMAIN fr : fr[k] = rr[k]
    BY <1>5, <1>8, <2>1
  <2> QED BY <1>6, <1>8, <2>1, <2>2
<1>10. fa = mergeMappings(sample, ra)
  <2>1. DOMAIN fa = (DOMAIN sample) \cup (DOMAIN ra)
    BY <1>5, <1>7
  <2>2. ASSUME NEW k \in DOMAIN fa PROVE fa[k] = IF k \in DOMAIN ra THEN ra[k] ELSE sample[k]
    <3>1. CASE k \in DOMAIN ra
      BY <1>5, <1>7, <3>1
    <3>2. CASE k \notin DOMAIN ra
      BY <1>5, <1>7, <2>1, <3>2
    <3> QED BY <3>1, <3>2
  <2>3. fa = [k \in (DOMAIN sample) \cup (DOMAIN ra) |-> IF k \in DOMAIN ra THEN ra[k] ELSE sample[k]]
    BY <1>6, <2>1, <2>2
  <2> QED BY <2>3 DEF mergeMappings
<1> QED BY <1>4, <1>7, <1>8, <1>9, <1>10 DEF final, fa, fr, ra, rr, sample, m, r

LEMMA PreviewsAgree == PreviewFits => PreviewAgrees
<1> SUFFICES ASSUME PreviewFits, previewed # Absent PROVE PreviewAgrees
  BY DEF PreviewAgrees
<1> DEFINE rule == previewed.rule
           m == mergeMappings(rule.legacy, rule.attributes)
           r == rule.resources
           Plain == /\ {m[k] : k \in DOMAIN m} \cap ((DOMAIN m) \cup DOMAIN r) = {}
                    /\ \A mapping \in {m, r} : IsInjective(mapping)
<1>1. rule \in ParserRules /\ rule.mode \in {"regex", "json"} /\ previewed.result \in applyParserMappings(rule)
  BY DEF PreviewFits
<1>2. ASSUME Plain PROVE PlainMappings(m, r)
  <2> HIDE DEF m, r
  <2> QED BY <1>2 DEF PlainMappings, IsInjective
<1> DEFINE shown == previewed.result
<1>3. Plain => /\ Run(rule) = [attributes |-> mergeMappings(rule.sample, OfFields(shown.attributes, rule, m)),
                               resources  |-> OfFields(shown.resources, rule, r)]
               /\ FoundBesides(shown.attributes, rule, m)
               /\ FoundBesides(shown.resources, rule, r)
  BY <1>1, <1>2, PreviewIsRun
<1> QED BY <1>3 DEF PreviewAgrees

\* For any templates and values, any services, groups, rules and bases, and however renderings,
\* previews and writes overlap: a template is rendered by replacing all its variables at once;
\* in the configuration of a group every processor runs once, parsed after it is enriched, with
\* the statements of the base and of its patch and of nothing else; and what a preview shows of
\* the fields of a sample is what the generated statements do, the rest being found inside its
\* objects or null (internal/modules/k8sops/template/service.go,
\* internal/collectorconfig).
THEOREM RenderingsAreRight == TemplatesSpec /\ SourcesSpec => []RenderingsAreSound
<1>1. TemplatesSpec => []RenderingIsSubstitution
  BY TemplatesStart, TemplatesStep, RenderedStarts, RenderedStaysFit, RenderedIsRight, PTL DEF TemplatesSpec
<1>2. DocumentsInv => RenderingIsSound /\ PreviewAgrees
  BY AnswersAreSound, PreviewsAgree DEF DocumentsInv
<1>3. SourcesSpec => [](RenderingIsSound /\ PreviewAgrees)
  BY <1>2, SourcesInitHolds, SourcesStepsKeep, DocumentsStart, DocumentsStay, PTL DEF SourcesSpec
<1> QED BY <1>1, <1>3, PTL DEF RenderingsAreSound
===============================================================================
