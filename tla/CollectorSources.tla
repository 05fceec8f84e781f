---------------------------- MODULE CollectorSources ----------------------------
(***************************************************************************)
(* What the configuration of a collector group is rendered from               *)
(* (internal/collectorconfig): the enrichment patch, the parser rule and the    *)
(* pipeline patch of each service, each kept once per service.  One service     *)
(* changes; the patches of others are given.  Of a document the processors and   *)
(* the chain of the logs pipeline are kept, of a processor its statements.       *)
(* Service IDs differ in more than punctuation.  Platform templates and            *)
(* overrides of groups are not rendered into a group and are left out.             *)
(***************************************************************************)
EXTENDS Naturals, Sequences, FiniteSets, SequencesExt

CONSTANTS
    SourceCallers,
    ConfigService,     \* the service
    ConfigGroups,
    Neighbours,        \* enrichment and pipeline patches of other services
    ParserRules,       \* [mode, enabled, matches, legacy, attributes, resources, ottl, sample,
                       \* nested]; mappings from fields to targets, which are numbers and so
                       \* ordered; statements of the user's own, whose effect is left out;
                       \* the values of the fields of a sample, and those that only a preview
                       \* finds: inside the objects of a JSON sample, by path, and null
    BaseDocuments,     \* what may be saved as the base of a service
    Absent

VARIABLES
    enrichment,        \* the stored enrichment patch, or Absent
    parserRule,        \* the stored rule: [group, rule], or Absent
    pipelinePatch,     \* the stored pipeline patch, or Absent
    baseDocument,      \* the base of the service, or Absent
    previewed,         \* the rule that was just previewed, and what its mappings gave
    answered,          \* the rendering that was just answered
    sourceCalls,
    follows            \* history: how far the parser has followed the service's group

sourceVars == <<enrichment, parserRule, pipelinePatch, baseDocument, previewed,
                answered, sourceCalls, follows>>

-------------------------------------------------------------------------------
\* Rules

NoMapping == [k \in {} |-> Absent]

\* The second argument has precedence.
mergeMappings(legacy, current) ==
    [k \in (DOMAIN legacy) \cup (DOMAIN current) |->
        IF k \in DOMAIN current THEN current[k] ELSE legacy[k]]

\* The fields that are mapped go to their targets, in the order of a Go map.
Mapped(fields, mapping) ==
    LET Found == (DOMAIN mapping) \cap (DOMAIN fields)
    IN  {targets \in [{mapping[k] : k \in Found} -> {fields[k] : k \in Found}] :
            \A t \in DOMAIN targets : \E k \in Found : mapping[k] = t /\ targets[t] = fields[k]}

\* A field of that name comes before what is found by path.
lookupParsedField(rule) == mergeMappings(rule.nested, rule.sample)

\* MUTANT: mappings of the older form are left out.
MapsWithoutLegacy(rule) ==
    {[attributes |-> a, resources |-> r] :
        a \in Mapped(lookupParsedField(rule), rule.attributes),
        r \in Mapped(lookupParsedField(rule), rule.resources)}

applyParserMappings(rule) ==
    {[attributes |-> a, resources |-> r] :
        a \in Mapped(lookupParsedField(rule), mergeMappings(rule.legacy, rule.attributes)),
        r \in Mapped(lookupParsedField(rule), rule.resources)}

\* Whether the preview has no error.
PreviewParser(rule) ==
    CASE rule.mode = "none" -> TRUE
      [] rule.mode \in {"regex", "json"} -> rule.matches
      [] rule.mode = "ottl" -> rule.ottl # <<>>

\* The elements of a finite set, each in the place of the number of those before it.
InOrder(S, Before(_, _)) ==
    [k \in 1..Cardinality(S) |->
        CHOOSE x \in S : Cardinality({y \in S : Before(y, x)}) = k - 1]

\* A statement for each mapping, in the order of the fields.
mappingTransformStatements(kind, mapping) ==
    LET fields == InOrder(DOMAIN mapping, <)
    IN  [i \in DOMAIN fields |-> <<kind, mapping[fields[i]], fields[i]>>]

-------------------------------------------------------------------------------
\* Documents: [processors, chain].  A name is [kind, service].

ProcessorOf(kind) == [kind |-> kind, service |-> ConfigService]

Document(name, statements) ==
    [processors |-> [n \in {name} |-> statements], chain |-> <<name>>]

\* Every service has a name, so that there is always a statement; the attributes of the
\* service, which the patch repeats as they are, are left out.
BuildEnrichmentPatch(group) ==
    [service |-> ConfigService, group |-> group,
     document |-> Document(ProcessorOf("transform/enrich"), <<<<"enrich", ConfigService>>>>)]

\* A stored patch is there.
ASSUME SourcesAssumption ==
    \A group \in ConfigGroups \cup {ConfigService} : BuildEnrichmentPatch(group) # Absent

Statements(rule) ==
    CASE rule.mode = "ottl" -> rule.ottl
      [] OTHER -> <<<<"merge", rule.mode>>>>
                  \o mappingTransformStatements("attribute", mergeMappings(rule.legacy, rule.attributes))
                  \o mappingTransformStatements("resource", rule.resources)
                  \o rule.ottl

\* Only a regular expression is required to match the sample.
RefusesRule(rule) == rule.enabled /\ rule.mode = "regex" /\ ~PreviewParser(rule)

BuildPipelinePatch(saved) ==
    [service |-> ConfigService, group |-> saved.group,
     enabled |-> saved.rule.enabled /\ saved.rule.mode # "none",
     document |-> Document(ProcessorOf("transform/parser"), Statements(saved.rule))]

Lookup(processors, name) == IF name \in DOMAIN processors THEN processors[name] ELSE <<>>

\* MUTANT: a processor that is already there is left as it is.
MergeKeepsProcessors(base, patch) ==
    [processors |-> patch.processors @@ base.processors,
     chain      |-> base.chain \o patch.chain]

\* Mappings are merged key by key, sequences are joined.
MergeYAMLDocuments(base, patch) ==
    [processors |-> [n \in (DOMAIN base.processors) \cup (DOMAIN patch.processors) |->
                        Lookup(base.processors, n) \o Lookup(patch.processors, n)],
     chain      |-> base.chain \o patch.chain]

processorRank(name) ==
    CASE name.kind = "memory_limiter" -> 10
      [] name.kind = "k8sattributes" -> 20
      [] name.kind = "filter/" -> 30
      [] name.kind = "transform/enrich" -> 40
      [] name.kind = "transform/parser" -> 50
      [] name.kind = "transform/" -> 60
      [] name.kind = "batch" -> 90
      [] OTHER -> 70

uniqueScalarNames(names) ==
    FoldLeft(LAMBDA seen, n : IF Contains(seen, n) THEN seen ELSE Append(seen, n), <<>>, names)

\* Stable.
sortProcessors(names) ==
    LET Before(i, j) == \/ processorRank(names[i]) < processorRank(names[j])
                        \/ processorRank(names[i]) = processorRank(names[j]) /\ i < j
        order == InOrder(DOMAIN names, Before)
    IN  [i \in DOMAIN order |-> names[order[i]]]

normalizeProcessorChain(document) ==
    [processors |-> document.processors,
     chain      |-> sortProcessors(uniqueScalarNames(document.chain))]

\* The documents of the patches that are enabled, in the order of the patches.
EnabledDocuments(pipelines) ==
    FoldLeft(LAMBDA shown, p : IF p.enabled THEN Append(shown, p.document) ELSE shown,
             <<>>, pipelines)

\* Enrichment patches come before pipeline patches.
RenderSources(base, patches, pipelines) ==
    LET documents == base \o [i \in DOMAIN patches |-> patches[i].document]
                     \o EnabledDocuments(pipelines)
    IN  normalizeProcessorChain(FoldLeft(MergeYAMLDocuments, Head(documents), Tail(documents)))

-------------------------------------------------------------------------------
\* What is saved

IsSequence(s) == s \in Seq(ToSet(s))

IsDocument(d) ==
    /\ d = [processors |-> [n \in DOMAIN d.processors |-> d.processors[n]], chain |-> d.chain]
    /\ IsSequence(d.chain)
    /\ \A n \in DOMAIN d.processors : IsSequence(d.processors[n])

\* A base document was parsed when it was saved.
ASSUME BasesAssumption == \A d \in BaseDocuments : IsDocument(d)

\* A patch of the service named in it has one processor, whose name tells the service.
IsPatch(p, kind) ==
    LET name == [kind |-> kind, service |-> p.service]
        statements == p.document.processors[name]
    IN  p.document = Document(name, statements) /\ IsSequence(statements)

\* The patches of others are built as those of the service, and kept once per service.
BuiltForOthers(patches, kind) ==
    /\ IsFiniteSet(patches)
    /\ \A p \in patches : p.service # ConfigService /\ IsPatch(p, kind)
    /\ \A p, q \in patches : p.service = q.service => p = q

ASSUME NeighboursAssumption ==
    /\ BuiltForOthers(Neighbours.enrichment, "transform/enrich")
    /\ BuiltForOthers(Neighbours.pipelines, "transform/parser")

\* Mappings are of finitely many fields.  Statements written by hand stand for themselves: they
\* are passed on as they are, and no preview runs them.
ASSUME RulesAssumption ==
    \A rule \in ParserRules :
        /\ \A mapping \in {rule.legacy, rule.attributes, rule.resources} :
               /\ mapping = [k \in DOMAIN mapping |-> mapping[k]]
               /\ DOMAIN mapping \subseteq Nat /\ IsFiniteSet(DOMAIN mapping)
        /\ rule.sample = [k \in DOMAIN rule.sample |-> rule.sample[k]]
        /\ rule.nested = [k \in DOMAIN rule.nested |-> rule.nested[k]]
        /\ rule.mode # "json" => rule.nested = NoMapping
        /\ IsSequence(rule.ottl)
        /\ \A i \in DOMAIN rule.ottl : rule.ottl[i][1] \notin {"attribute", "resource"}

-------------------------------------------------------------------------------
\* Calls

NoSourceCall == [phase |-> "ended"]

NoAnswer == [for |-> "nobody"]

SourcesInit ==
    /\ enrichment = Absent
    /\ parserRule = Absent
    /\ pipelinePatch = Absent
    /\ baseDocument = Absent
    /\ previewed = Absent
    /\ answered = NoAnswer
    /\ sourceCalls = [c \in SourceCallers |-> NoSourceCall]
    /\ follows = "no"

\* A step of a call; the answers given before it are forgotten.
SourceStep(c, call) ==
    /\ sourceCalls' = [sourceCalls EXCEPT ![c] = call]
    /\ previewed' = Absent
    /\ answered' = NoAnswer

Begins(c) == sourceCalls[c].phase = "ended"

Documents == <<enrichment, parserRule, pipelinePatch, baseDocument>>

\* The group is checked; groups stay.
BindServiceToCollectorGroup(c, group) ==
    /\ Begins(c)
    /\ SourceStep(c, [phase |-> "enrich", patch |-> BuildEnrichmentPatch(group)])
    /\ UNCHANGED <<Documents, follows>>

\* The service is read first, then the patch whose group is kept.  A service without one
\* stands for a group of its own, which no group of collectors has.
RegenerateReadsService(c) ==
    /\ Begins(c)
    /\ SourceStep(c, [phase |-> "existing"])
    /\ UNCHANGED <<Documents, follows>>

GroupOfPatch == IF enrichment = Absent THEN ConfigService ELSE enrichment.group

RegenerateEnrichmentPatch(c) ==
    /\ sourceCalls[c].phase = "existing"
    /\ SourceStep(c, [phase |-> "enrich", patch |-> BuildEnrichmentPatch(GroupOfPatch)])
    /\ UNCHANGED <<Documents, follows>>

\* What was read of a rule before the service moved does not count any more.
UpsertEnrichmentPatch(c) ==
    /\ sourceCalls[c].phase = "enrich"
    /\ enrichment' = sourceCalls[c].patch
    /\ IF enrichment'.group = GroupOfPatch
       THEN SourceStep(c, NoSourceCall) /\ UNCHANGED follows
       ELSE /\ follows' = "no"
            /\ previewed' = Absent /\ answered' = NoAnswer
            /\ sourceCalls' = [d \in SourceCallers |->
                  CASE d = c -> NoSourceCall
                    [] d # c /\ sourceCalls[d].phase \in {"rule", "pipeline"} ->
                           [sourceCalls[d] EXCEPT !.fresh = FALSE]
                    [] OTHER -> sourceCalls[d]]
    /\ UNCHANGED <<parserRule, pipelinePatch, baseDocument>>

\* MUTANT: a rule keeps the group of the rule it replaces.
InheritsSavedGroup(c, rule, group) ==
    /\ Begins(c)
    /\ LET inherited == IF parserRule = Absent THEN GroupOfPatch ELSE parserRule.group
       IN  SourceStep(c, [phase |-> "rule", fresh |-> group = Absent,
                          saved |-> [group |-> IF group = Absent THEN inherited ELSE group,
                                     rule |-> rule]])
    /\ UNCHANGED <<Documents, follows>>

\* A request may name a group, which is taken as it is.
UpsertParserRuleReads(c, rule, group) ==
    /\ Begins(c)
    /\ SourceStep(c, [phase |-> "rule", fresh |-> group = Absent,
                      saved |-> [group |-> IF group = Absent THEN GroupOfPatch ELSE group,
                                 rule |-> rule]])
    /\ UNCHANGED <<Documents, follows>>

\* A rule that was read before it is replaced does not count any more.
UpsertParserRule(c) ==
    /\ sourceCalls[c].phase = "rule"
    /\ parserRule' = sourceCalls[c].saved
    /\ follows' = IF sourceCalls[c].fresh THEN "rule" ELSE "no"
    /\ previewed' = Absent /\ answered' = NoAnswer
    /\ sourceCalls' = [d \in SourceCallers |->
          CASE d = c -> NoSourceCall
            [] d # c /\ sourceCalls[d].phase = "pipeline" -> [sourceCalls[d] EXCEPT !.fresh = FALSE]
            [] OTHER -> sourceCalls[d]]
    /\ UNCHANGED <<enrichment, pipelinePatch, baseDocument>>

PreviewParserRule(rule) ==
    /\ rule.mode \in {"regex", "json"} /\ PreviewParser(rule)
    /\ \E result \in applyParserMappings(rule) : previewed' = [rule |-> rule, result |-> result]
    /\ answered' = NoAnswer
    /\ UNCHANGED <<Documents, sourceCalls, follows>>

GetParserRule(c) ==
    /\ Begins(c)
    /\ parserRule # Absent
    /\ ~RefusesRule(parserRule.rule)
    /\ SourceStep(c, [phase |-> "pipeline", patch |-> BuildPipelinePatch(parserRule),
                      fresh |-> follows # "no"])
    /\ UNCHANGED <<Documents, follows>>

GeneratePipelinePatch(c) ==
    /\ sourceCalls[c].phase = "pipeline"
    /\ pipelinePatch' = sourceCalls[c].patch
    /\ follows' = IF sourceCalls[c].fresh THEN "pipeline"
                  ELSE IF follows = "pipeline" THEN "rule" ELSE follows
    /\ SourceStep(c, NoSourceCall)
    /\ UNCHANGED <<enrichment, parserRule, baseDocument>>

\* Updated or inserted; the two differ in the version, which is left out.
UpsertServiceBaseReads(c, document) ==
    /\ Begins(c)
    /\ SourceStep(c, [phase |-> "base", document |-> document])
    /\ UNCHANGED <<Documents, follows>>

UpsertServiceBaseConfig(c) ==
    /\ sourceCalls[c].phase = "base"
    /\ baseDocument' = sourceCalls[c].document
    /\ SourceStep(c, NoSourceCall)
    /\ UNCHANGED <<enrichment, parserRule, pipelinePatch, follows>>

Stored(document) == IF document = Absent THEN {} ELSE {document}

\* The patches of a group come in any order.
PatchesOf(group, own, others) ==
    SetToSeqs({p \in Stored(own) \cup others : p.group = group})

Answer(c, for, base, patches, pipelines) ==
    /\ base \o patches \o EnabledDocuments(pipelines) # <<>>
    /\ sourceCalls' = [sourceCalls EXCEPT ![c] = NoSourceCall]
    /\ previewed' = Absent
    /\ answered' = [for |-> for, base |-> base, patches |-> patches, pipelines |-> pipelines,
                    document |-> RenderSources(base, patches, pipelines)]

\* A group: enrichment patches, then pipeline patches.
ConfigSourcesReads(c, group) ==
    /\ Begins(c)
    /\ \E patches \in PatchesOf(group, enrichment, Neighbours.enrichment) :
           SourceStep(c, [phase |-> "group", group |-> group, patches |-> patches])
    /\ UNCHANGED <<Documents, follows>>

ConfigSources(c) ==
    /\ sourceCalls[c].phase = "group"
    /\ \E pipelines \in PatchesOf(sourceCalls[c].group, pipelinePatch, Neighbours.pipelines) :
           Answer(c, sourceCalls[c].group, <<>>, sourceCalls[c].patches, pipelines)
    /\ UNCHANGED <<Documents, follows>>

\* A service: base, patch, pipeline patch; what is between them may change.
ServiceConfigReads(c) ==
    /\ Begins(c)
    /\ SourceStep(c, [phase |-> "service", base |-> baseDocument, patch |-> enrichment])
    /\ UNCHANGED <<Documents, follows>>

ServiceConfigSources(c) ==
    /\ sourceCalls[c].phase = "service"
    /\ LET AsSeq(d) == IF d = Absent THEN <<>> ELSE <<d>>
       IN  Answer(c, "service", AsSeq(sourceCalls[c].base), AsSeq(sourceCalls[c].patch),
                  AsSeq(pipelinePatch))
    /\ UNCHANGED <<Documents, follows>>

\* A write fails, there is nothing to render, or the process stops.
SourceCallFails(c) ==
    /\ sourceCalls[c].phase # "ended"
    /\ SourceStep(c, NoSourceCall)
    /\ UNCHANGED <<Documents, follows>>

SourcesNext ==
    \/ \E rule \in ParserRules : PreviewParserRule(rule)
    \/ \E c \in SourceCallers :
           \/ \E group \in ConfigGroups :
                  BindServiceToCollectorGroup(c, group) \/ ConfigSourcesReads(c, group)
           \/ RegenerateReadsService(c) \/ RegenerateEnrichmentPatch(c)
           \/ UpsertEnrichmentPatch(c)
           \/ \E rule \in ParserRules, group \in ConfigGroups \cup {Absent} :
                  UpsertParserRuleReads(c, rule, group)
           \/ UpsertParserRule(c) \/ GetParserRule(c) \/ GeneratePipelinePatch(c)
           \/ \E document \in BaseDocuments : UpsertServiceBaseReads(c, document)
           \/ UpsertServiceBaseConfig(c)
           \/ ConfigSources(c) \/ ServiceConfigReads(c) \/ ServiceConfigSources(c)
           \/ SourceCallFails(c)

SourcesSpec == SourcesInit /\ [][SourcesNext]_sourceVars

-------------------------------------------------------------------------------
\* A pipeline patch generated from a rule that was saved without naming a group, when
\* neither the service was moved nor the rule replaced since the rule's group was looked up,
\* is rendered into the same group as the enrichment of the service.
ParserFollowsService ==
    follows = "pipeline" => pipelinePatch.group = GroupOfPatch

\* What a rendering defines and runs is what its patches say, in any order they come: every
\* processor runs once, in the order of the ranks, so that a service is parsed after it is
\* enriched; all that the patches bring runs and has the statements of the base, then those
\* of the patch; and nothing else is added to the base.
RenderingIsSound ==
    answered.for # "nobody" =>
        LET document == answered.document
            base == IF answered.base = <<>> THEN [processors |-> NoMapping, chain |-> <<>>]
                    ELSE answered.base[1]
            Patches == {p.document : p \in ToSet(answered.patches)
                            \cup {p \in ToSet(answered.pipelines) : p.enabled}}
            Brought == UNION {DOMAIN p.processors : p \in Patches}
            chain == document.chain
        IN  /\ \A i, j \in DOMAIN chain : i < j =>
                   chain[i] # chain[j] /\ processorRank(chain[i]) <= processorRank(chain[j])
            /\ ToSet(chain) = ToSet(base.chain) \cup Brought
            /\ DOMAIN document.processors = (DOMAIN base.processors) \cup Brought
            /\ \A p \in Patches : \A n \in DOMAIN p.processors :
                   document.processors[n] = Lookup(base.processors, n) \o p.processors[n]
            /\ \A n \in (DOMAIN base.processors) \ Brought :
                   document.processors[n] = base.processors[n]

\* Statements as the collector runs them, on the fields of the sample.
Assign(mapping, target, value) ==
    [k \in (DOMAIN mapping) \cup {target} |-> IF k = target THEN value ELSE mapping[k]]

RunStatement(state, s) ==
    IF s[1] \in {"attribute", "resource"} /\ s[3] \in DOMAIN state.attributes
    THEN LET value == state.attributes[s[3]]
         IN  IF s[1] = "attribute"
             THEN [attributes |-> Assign(state.attributes, s[2], value),
                   resources  |-> state.resources]
             ELSE [attributes |-> state.attributes,
                   resources  |-> Assign(state.resources, s[2], value)]
    ELSE state

Run(rule) ==
    FoldLeft(RunStatement, [attributes |-> rule.sample, resources |-> NoMapping], Statements(rule))

\* What a preview shows of the fields of the sample, and of what it finds besides.
TargetsOf(rule, mapping) == {mapping[k] : k \in (DOMAIN mapping) \cap (DOMAIN rule.sample)}

OfFields(shown, rule, mapping) ==
    [t \in (DOMAIN shown) \cap TargetsOf(rule, mapping) |-> shown[t]]

FoundBesides(shown, rule, mapping) ==
    \A t \in (DOMAIN shown) \ TargetsOf(rule, mapping) :
        \E k \in (DOMAIN mapping) \cap (DOMAIN rule.nested) :
            mapping[k] = t /\ shown[t] = rule.nested[k]

\* What a preview shows of the fields of a sample is what the statements generated from the
\* mappings add to the sample, although it maps fields in any order and by lookup, and they
\* run one after the other: as long as no field is mapped onto one that is mapped itself, and
\* no two onto one.  What it shows besides, it found by path inside the objects of a sample,
\* or is null: the statements, which name attributes, set nothing for it.
PreviewAgrees ==
    previewed # Absent =>
        LET rule == previewed.rule
            shown == previewed.result
            mapping == mergeMappings(rule.legacy, rule.attributes)
            Targets == {mapping[k] : k \in DOMAIN mapping}
            Plain == /\ Targets \cap ((DOMAIN mapping) \cup DOMAIN rule.resources) = {}
                     /\ \A m \in {mapping, rule.resources} : IsInjective(m)
        IN  Plain =>
                /\ Run(rule) =
                       [attributes |-> mergeMappings(rule.sample,
                                                     OfFields(shown.attributes, rule, mapping)),
                        resources  |-> OfFields(shown.resources, rule, rule.resources)]
                /\ FoundBesides(shown.attributes, rule, mapping)
                /\ FoundBesides(shown.resources, rule, rule.resources)
===============================================================================
