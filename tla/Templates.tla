------------------------------- MODULE Templates -------------------------------
(***************************************************************************)
(* The deployment templates of the Kubernetes pages                           *)
(* (internal/modules/k8sops/template/service.go): a repository in memory        *)
(* behind a mutex, and calls that write it, record an audit event and take the  *)
(* write back when that fails, ignoring the outcome.  Names that differ in       *)
(* letter case are one name.  A text is a sequence of tokens, placeholders        *)
(* among them; that two tokens join to make a placeholder is left out.            *)
(***************************************************************************)
EXTENDS Naturals, Sequences, FiniteSets, SequencesExt

CONSTANTS
    TemplateCallers,
    TemplateNames,
    TemplateBodies,    \* [text, required]: tokens, and the variables that must be given
    Substitutions,     \* the values of a rendering: functions from variables to tokens
    NoTemplate,
    MaxTemplates       \* bound: templates ever created

VARIABLES
    templates,         \* [id, name, body]
    lastTemplate,
    templateCalls,
    rendered           \* the rendering that was just answered: [body, values, text]

templateVars == <<templates, lastTemplate, templateCalls, rendered>>

NoRendering == [body |-> NoTemplate]

\* Texts are sequences of tokens, and a request names finitely many variables.
ASSUME TextsAssumption ==
    /\ \A body \in TemplateBodies : body.text \in Seq(ToSet(body.text))
    /\ \A values \in Substitutions :
           /\ values = [k \in DOMAIN values |-> values[k]] /\ IsFiniteSet(DOMAIN values)
           /\ \A k \in DOMAIN values : values[k] \in Seq(ToSet(values[k]))

-------------------------------------------------------------------------------
\* Rendering

\* MUTANT: only the first occurrence is replaced.
ReplaceFirst(text, key, value) ==
    LET At == {i \in 1..Len(text) : text[i] = key}
        first == CHOOSE i \in At : \A j \in At : i <= j
    IN  IF At = {} THEN text
        ELSE SubSeq(text, 1, first - 1) \o value \o SubSeq(text, first + 1, Len(text))

\* Every token is replaced by what it stands for.
Expanded(text, meaning) ==
    FoldLeft(LAMBDA done, token : done \o meaning[token], <<>>, text)

Replaced(text, key, value) ==
    Expanded(text, [token \in ToSet(text) |-> IF token = key THEN value ELSE <<token>>])

\* Go visits the keys of a map in any order.
Orders(keys) ==
    {order \in [1..Cardinality(keys) -> keys] : \A k \in keys : \E i \in DOMAIN order : order[i] = k}

\* The texts a rendering may give; none when a required variable is left.
renderYAML(body, values) ==
    LET Result(order) ==
            FoldLeft(LAMBDA text, key : Replaced(text, key, values[key]), body.text, order)
    IN  {text \in {Result(order) : order \in Orders(DOMAIN values)} :
            ToSet(text) \cap body.required = {}}

-------------------------------------------------------------------------------
\* Calls.  A call that met another writer is disturbed: nothing is said of it.

NoTemplateCall ==
    [does |-> "nothing", phase |-> "ended", id |-> 0, name |-> "", body |-> NoTemplate,
     previous |-> NoTemplate, before |-> {}, disturbed |-> TRUE]

TemplatesInit ==
    /\ templates = {}
    /\ lastTemplate = 0
    /\ templateCalls = [c \in TemplateCallers |-> NoTemplateCall]
    /\ rendered = NoRendering

TemplateOf(id) == {t \in templates : t.id = id}

StepTo(c, call) ==
    /\ templateCalls' = [templateCalls EXCEPT ![c] = call]
    /\ rendered' = NoRendering
    /\ UNCHANGED templates

\* A write: the other calls are disturbed, and what was kept of those that ended is dropped.
Change(c, set, call) ==
    /\ templates' = set
    /\ templateCalls' = [d \in TemplateCallers |->
           CASE d = c -> call
             [] d # c /\ templateCalls[d].phase = "ended" -> NoTemplateCall
             [] OTHER -> [templateCalls[d] EXCEPT !.disturbed = TRUE]]
    /\ rendered' = NoRendering

\* What is kept of a call that ended without an audit event.
Fails(call) ==
    IF call.disturbed THEN NoTemplateCall
    ELSE [NoTemplateCall EXCEPT !.does = call.does, !.before = call.before, !.disturbed = FALSE]

BeginTemplateCall(c, call) ==
    /\ templateCalls[c].phase = "ended"
    /\ StepTo(c, [NoTemplateCall EXCEPT !.does = call.does, !.phase = call.phase, !.id = call.id,
                                        !.name = call.name, !.body = call.body,
                                        !.before = templates, !.disturbed = FALSE])

CreateTemplate(c, name, body) ==
    /\ lastTemplate < MaxTemplates
    /\ lastTemplate' = lastTemplate + 1
    /\ BeginTemplateCall(c, [does |-> "create", phase |-> "create", id |-> lastTemplate + 1,
                             name |-> name, body |-> body])

UpdateTemplate(c, id, name, body) ==
    /\ BeginTemplateCall(c, [does |-> "update", phase |-> "get", id |-> id, name |-> name,
                             body |-> body])
    /\ UNCHANGED lastTemplate

DeleteTemplate(c, id) ==
    /\ BeginTemplateCall(c, [does |-> "delete", phase |-> "delete", id |-> id, name |-> "",
                             body |-> NoTemplate])
    /\ UNCHANGED lastTemplate

\* The template is read and rendered; the result is answered when it has been recorded.
RenderTemplate(c, id, values) ==
    /\ templateCalls[c].phase = "ended"
    /\ \E t \in TemplateOf(id) : \E text \in renderYAML(t.body, values) :
           rendered' = [body |-> t.body, values |-> values, text |-> text]
    /\ UNCHANGED <<templates, lastTemplate, templateCalls>>

\* The version that an update changes, and that its undo writes back.
GetPrevious(c) ==
    /\ templateCalls[c].phase = "get"
    /\ LET call == templateCalls[c]
       IN  IF TemplateOf(call.id) = {} THEN StepTo(c, Fails(call))
           ELSE \E t \in TemplateOf(call.id) :
                    StepTo(c, [call EXCEPT !.previous = t, !.phase = "update"])
    /\ UNCHANGED lastTemplate

\* The repository refuses a second template of a name here, and only here.
RepositoryCreate(c, t, call) ==
    IF \E other \in templates : other.id = t.id \/ other.name = t.name
    THEN StepTo(c, Fails(call))
    ELSE Change(c, templates \cup {t}, call)

RepositoryUpdate(c, t, call) ==
    IF TemplateOf(t.id) = {} THEN StepTo(c, Fails(call))
    ELSE Change(c, (templates \ TemplateOf(t.id)) \cup {t}, call)

RepositoryDelete(c, id, call) ==
    IF TemplateOf(id) = {} THEN StepTo(c, Fails(call))
    ELSE Change(c, templates \ TemplateOf(id), call)

WriteTemplate(c) ==
    LET call == templateCalls[c]
        asked == [id |-> call.id, name |-> call.name, body |-> call.body]
        audited == [call EXCEPT !.phase = "audit"]
    IN  /\ \/ call.phase = "create" /\ RepositoryCreate(c, asked, audited)
           \/ call.phase = "update" /\ RepositoryUpdate(c, asked, audited)
           \/ /\ call.phase = "delete"
              /\ RepositoryDelete(c, call.id,
                     [audited EXCEPT !.previous = IF TemplateOf(call.id) = {} THEN NoTemplate
                                                  ELSE CHOOSE t \in TemplateOf(call.id) : TRUE])
        /\ UNCHANGED lastTemplate

AuditTemplate(c) ==
    /\ templateCalls[c].phase = "audit"
    /\ StepTo(c, NoTemplateCall)
    /\ UNCHANGED lastTemplate

TemplateAuditFails(c) ==
    /\ templateCalls[c].phase = "audit"
    /\ StepTo(c, [templateCalls[c] EXCEPT !.phase = "undo"])
    /\ UNCHANGED lastTemplate

\* MUTANT: only creations are taken back.
UndoesCreations(c) ==
    LET call == templateCalls[c]
    IN  /\ call.phase = "undo"
        /\ IF call.does = "create" THEN RepositoryDelete(c, call.id, Fails(call))
           ELSE StepTo(c, Fails(call))
        /\ UNCHANGED lastTemplate

\* The undo of an update writes over whatever others wrote meanwhile.
UndoTemplate(c) ==
    LET call == templateCalls[c]
    IN  /\ call.phase = "undo"
        /\ CASE call.does = "create" -> RepositoryDelete(c, call.id, Fails(call))
             [] call.does = "update" -> RepositoryUpdate(c, call.previous, Fails(call))
             [] call.does = "delete" -> RepositoryCreate(c, call.previous, Fails(call))
        /\ UNCHANGED lastTemplate

\* The repository is a variable of the process.
RestartForgetsTemplates ==
    /\ templates # {}
    /\ templates' = {}
    /\ lastTemplate' = 0
    /\ templateCalls' = [c \in TemplateCallers |-> NoTemplateCall]
    /\ rendered' = NoRendering

TemplatesNext ==
    \/ \E c \in TemplateCallers :
           \/ \E name \in TemplateNames, body \in TemplateBodies :
                  \/ CreateTemplate(c, name, body)
                  \/ \E id \in 1..lastTemplate : UpdateTemplate(c, id, name, body)
           \/ \E id \in 1..lastTemplate :
                  \/ DeleteTemplate(c, id)
                  \/ \E values \in Substitutions : RenderTemplate(c, id, values)
           \/ GetPrevious(c) \/ WriteTemplate(c)
           \/ AuditTemplate(c) \/ TemplateAuditFails(c) \/ UndoTemplate(c)
    \/ RestartForgetsTemplates

TemplatesSpec == TemplatesInit /\ [][TemplatesNext]_templateVars

-------------------------------------------------------------------------------
\* A call that ended without an audit event, and met no other writer, has left the
\* templates as they were; except that a deleted template is lost when an update had given
\* its name to another one, for then it cannot be created again.
UnrecordedLeavesTemplates ==
    \A c \in TemplateCallers :
        LET call == templateCalls[c]
            Namesakes == \E t, u \in call.before : t.id # u.id /\ t.name = u.name
        IN  call.phase = "ended" /\ ~call.disturbed =>
                \/ templates = call.before
                \/ call.does = "delete" /\ Namesakes /\ templates \subseteq call.before

\* A rendering is the simultaneous replacement of all occurrences of all variables given,
\* although they are replaced one after the other in any order: unless a value brings in a
\* placeholder.  No required variable is ever left in it.
RenderingIsSubstitution ==
    rendered # NoRendering =>
        LET Mentions == {k \in DOMAIN rendered.values :
                            ToSet(rendered.values[k]) \cap DOMAIN rendered.values # {}}
            text == rendered.body.text
            meaning == [token \in ToSet(text) |->
                           IF token \in DOMAIN rendered.values THEN rendered.values[token]
                           ELSE <<token>>]
        IN  /\ Mentions = {} => rendered.text = Expanded(text, meaning)
            /\ ToSet(rendered.text) \cap rendered.body.required = {}
===============================================================================
