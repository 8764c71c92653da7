--------------------------- MODULE DeploymentPlanner ---------------------------
(***************************************************************************)
(* An author edits a deployment specification and plans it, again after    *)
(* each edit and possibly on another host; the last two plans are compared *)
(* (diffPlans).                                                            *)
(***************************************************************************)
EXTENDS PlanDeployment

CONSTANT
  Authors     \* by name, [starts, resources, bindings, placements, policies, edits]: the specifications an
              \* author starts from, what an edit may put in, and how many edits

VARIABLES
  author,
  spec,       \* the deployment specification
  verdict,    \* "edited", "accepted" or "rejected"
  before, after,      \* the last two plans that were made, with the specification of each
  edits

authorVars == <<author, spec, verdict, before, after, edits>>

ASSUME AuthorsAssumption ==
  \A a \in DOMAIN Authors :
    /\ Authors[a].edits \in Nat
    /\ \A s \in Authors[a].starts : SpecificationTyped(s)
    /\ \A list \in Authors[a].resources : ResourcesTyped(list)
    /\ \A list \in Authors[a].bindings : BindingsTyped(list)
    /\ \A list \in Authors[a].placements : PlacementsTyped(list)

NoPlan == [spec |-> None]

-----------------------------------------------------------------------------
AuthorInit ==
  /\ author \in DOMAIN Authors /\ spec \in Authors[author].starts
  /\ verdict = "edited" /\ before = NoPlan /\ after = NoPlan /\ edits = 0

Edit(s) ==
  /\ s # spec
  /\ spec' = s /\ verdict' = "edited" /\ edits' = edits + 1
  /\ UNCHANGED <<author, before, after>>
EditResources(choice) == \E list \in choice.resources : Edit([spec EXCEPT !.resources = list])
EditBindings(choice) == \E list \in choice.bindings : Edit([spec EXCEPT !.bindings = list])
EditPlacements(choice) == \E list \in choice.placements : Edit([spec EXCEPT !.placements = list])
EditToCatalogRules ==
  \E h \in Hosts, chosen \in [NamesOfCatalogs(spec.catalogs) -> {b.id : b \in Elements(spec.bindings)}] :
    Edit([spec EXCEPT !.placements = CatalogPlacementRules(chosen, h)])
EditPolicies(choice) ==
  \E p \in choice.policies :
    Edit([spec EXCEPT !.live = p.live, !.validation = p.validation, !.telemetry = p.telemetry])

\* One edit of the many that the author may make.
EditSpecification ==
  \E choice \in {Authors[author]} :
    /\ edits < choice.edits
    /\ \/ EditResources(choice) \/ EditBindings(choice) \/ EditPlacements(choice) \/ EditPolicies(choice)
       \/ EditToCatalogRules

Plan(h) ==
  /\ IF Accepts(spec, h)
       THEN verdict' = "accepted" /\ before' = after /\ after' = PlanOf(spec, h)
       ELSE verdict' = "rejected" /\ UNCHANGED <<before, after>>
  /\ UNCHANGED <<author, spec, edits>>

AuthorNext == EditSpecification \/ \E h \in Hosts : Plan(h)
AuthorSpec == AuthorInit /\ [][AuthorNext]_authorVars

-----------------------------------------------------------------------------
(* Properties.                                                             *)

\* The planner holds at most the last two plans, each of a specification it accepts.
AuthorTypeOK ==
  /\ verdict \in {"edited", "accepted", "rejected"}
  /\ edits \in 0..Authors[author].edits
  /\ after = NoPlan => before = NoPlan
  /\ \A plan \in {before, after} :
       plan.spec # None => /\ plan.host \in Hosts
                           /\ DOMAIN plan.placed = Keys(plan.spec)
                           /\ DOMAIN plan.bindings = Keys(plan.spec)

\* In the configuration a plan renders, exactly one rule places each Resource, and on the
\* binding the plan says (resolvePlacementBindings; the rules are judged before they are
\* sorted and rewritten).
RulesThatPlace(plan, key) ==
  {i \in DOMAIN plan.config.placements : Matches(plan.config.placements[i], Requirement(plan.spec, key))}
ExactlyPlaced ==
  after # NoPlan =>
    \A key \in Keys(after.spec) :
      \E i \in DOMAIN after.config.placements :
        /\ RulesThatPlace(after, key) = {i}
        /\ after.config.placements[i].binding = after.placed[key]
        /\ \E j \in DOMAIN after.config.bindings : after.config.bindings[j].id = after.placed[key]

\* An engine that runs with the settings of its binding, and is what its pinned manifest
\* says, admits everything a planned Resource requires of it: a limit may exceed neither
\* the setting nor what the manifest advertises, and to append evidence append-only needs layouts
\* that keep it (selectedCapabilityProfile, configuredCapabilityProfile, validateCapabilities).
Advertises(b, contract) ==
  IF b.manifest = None
    THEN Profiles[b.profile].operations[contract]
    ELSE CHOOSE c \in Elements(b.manifest.capabilities) : c.contract = contract
AdmitsLimit(b, o, limit, value) ==
  LET settings == b.connection.settings
      mapped == limit \in DOMAIN settings.limits \cap MappedLimits(Profiles[b.profile].adapter)
  IN  /\ mapped => value <= settings.limits[limit]
      /\ ~mapped \/ b.manifest # None => value <= Advertises(b, o.contract).limits[limit]
AdmitsOperation(b, r, o) ==
  LET layouts == b.connection.settings.layouts
  IN  /\ o.contract \in IF b.manifest = None THEN DOMAIN Profiles[b.profile].operations ELSE b.manifest.available
      /\ \A limit \in DOMAIN r.limits : AdmitsLimit(b, o, limit, r.limits[limit])
      /\ \A limit \in DOMAIN o.limits : AdmitsLimit(b, o, limit, o.limits[limit])
      /\ "append-only" \in r.guarantees \cup o.guarantees =>
           /\ b.manifest # None => "append-only" \in Advertises(b, o.contract).guarantees
           /\ o.contract = EvidenceAppend /\ Profiles[b.profile].adapter = ClickHouse /\ layouts # None =>
                \A l \in Elements(layouts) : l.resource.catalog = "evidence" => l.appendOnly
EnginesAdmit ==
  after # NoPlan =>
    \A r \in Elements(after.spec.resources) :
      LET b == BindingOf(after.spec, after.placed[SelectorKey(r.selector)])
      IN  \A o \in Elements(r.operations) : AdmitsOperation(b, r, o)

\* Writing a default limit of a profile into the settings of a binding changes nothing: the
\* table of settings and the table of profiles agree on names, ranges and defaults.
DefaultLimit(profile, limit) ==
  LET o == CHOOSE c \in DOMAIN profile.operations : limit \in DOMAIN profile.operations[c].limits
  IN  profile.operations[o].limits[limit]
DefaultsConfigurable ==
  after # NoPlan =>
    \A b \in Elements(after.spec.bindings) :
      LET profile == Profiles[b.profile]
      IN  \A limit \in MappedLimits(profile.adapter) :
            /\ \E c \in DOMAIN profile.operations : limit \in DOMAIN profile.operations[c].limits
            /\ LET spelled == [keys |-> {}, limits |-> [l \in {limit} |-> DefaultLimit(profile, limit)],
                               layouts |-> None]
               IN  SettingsFit(profile, spelled) /\ ConfiguredProfile(profile, spelled, FALSE) = profile

\* Which is so of a profile whose operations bound a limit alike, within the range of its setting.
BoundsAlike(profile, limit) ==
  LET range == SettingRanges[Family(profile.adapter)][limit]
      bounds == {c \in DOMAIN profile.operations : limit \in DOMAIN profile.operations[c].limits}
  IN  \E c \in bounds :
        /\ profile.operations[c].limits[limit] \in range[1]..range[2]
        /\ \A other \in bounds : profile.operations[other].limits[limit] = profile.operations[c].limits[limit]
DefaultsInRange(profile) == \A limit \in MappedLimits(profile.adapter) : BoundsAlike(profile, limit)

\* A profile is a record of operations, and each of them one of versions, guarantees and limits.
IsOperation(o) ==
  o = [versions |-> o.versions, guarantees |-> o.guarantees, limits |-> [limit \in DOMAIN o.limits |-> o.limits[limit]]]
IsProfileRecord(p) ==
  /\ p = [field \in DOMAIN p |-> p[field]] /\ "operations" \in DOMAIN p
  /\ p.operations = [c \in DOMAIN p.operations |-> p.operations[c]]
  /\ \A c \in DOMAIN p.operations : IsOperation(p.operations[c])

\* The order in which an author lists catalogs, Resources, bindings, rules, Schemas or the
\* Resources of a rule changes nothing in the plan (the sorts of planDeployment).
Reversed(seq) == [i \in DOMAIN seq |-> seq[Len(seq) + 1 - i]]
ReorderedRequirement(r) == [r EXCEPT !.schemas = Reversed(@), !.operations = Reversed(@)]
ReorderedRule(rule) == [rule EXCEPT !.selector.resources = Reversed(@)]
Reordered(s) ==
  [s EXCEPT
     !.catalogs = Reversed(@), !.providers = Reversed(@), !.bindings = Reversed(@),
     !.resources = [i \in DOMAIN @ |-> ReorderedRequirement(Reversed(@)[i])],
     !.placements = [i \in DOMAIN @ |-> ReorderedRule(Reversed(@)[i])]]
OrderIrrelevant ==
  after # NoPlan =>
    LET other == Reordered(after.spec)
    IN  /\ Accepts(other, after.host)
        /\ PlanOf(other, after.host).config = after.config
        /\ PlanOf(other, after.host).bindings = after.bindings
        /\ PlacementBindings(other) = after.placed

\* Between two plans that differ only in rules that were added, no Resource moves: a new rule
\* that matches a placed Resource is rejected, it never takes the Resource over.
AddedRuleNeverRedirects ==
  (/\ before # NoPlan
   /\ Elements(before.spec.placements) \subseteq Elements(after.spec.placements)
   /\ before.spec.resources = after.spec.resources)
    => before.placed = after.placed

\* diffPlans is empty exactly between equal configurations, and a retained Resource whose pins,
\* rules or engine are rendered differently is among the changed ones.
PinsOf(plan, key) ==
  {plan.config.pins[i] : i \in {i \in DOMAIN plan.config.pins : SelectorKey(plan.config.pins[i].ref) = key}}
EngineOf(plan, key) ==
  {plan.config.bindings[i] :
     i \in {i \in DOMAIN plan.config.bindings : plan.config.bindings[i].id = plan.placed[key]}}
DiffTellsRendered ==
  before # NoPlan =>
    LET d == Diff(before, after)
    IN  /\ d.empty <=> before.config = after.config
        /\ \A key \in Keys(before.spec) \cap Keys(after.spec) :
             (\/ PinsOf(before, key) # PinsOf(after, key)
              \/ before.config.placements # after.config.placements
              \/ before.placed[key] = after.placed[key] /\ EngineOf(before, key) # EngineOf(after, key))
               => key \in d.changed

\* A diff that is empty hides no move but that of a Resource whose labels were edited: labels
\* choose the rule that places it (resolvePlacementBindings) and are not rendered.
DiffTellsPlacement ==
  before # NoPlan /\ Diff(before, after).empty =>
    \A key \in Keys(after.spec) :
      Requirement(before.spec, key).labels = Requirement(after.spec, key).labels
        => before.placed[key] = after.placed[key]

\* durableProjectionJob resolves placements again, from the configuration and without labels
\* (jobs/projection/index.ts): a rule it selects is the rule the planner placed by.
TemplateRules(plan, key) ==
  LET r == Requirement(plan.spec, key)
  IN  {i \in DOMAIN plan.config.placements :
         LET s == plan.config.placements[i].selector
         IN  /\ s.resources = <<>> \/ \E n \in Elements(s.resources) : SelectorKey(n) = key
             /\ s.catalog \in {None, r.selector.catalog}
             /\ DOMAIN s.labels = {}}
TemplateAgrees ==
  after # NoPlan =>
    \A key \in Keys(after.spec) : \A i \in TemplateRules(after, key) :
      after.config.placements[i].binding = after.placed[key]

\* The rules of catalogPlacementRules place every Resource of an installed catalog exactly once,
\* on the binding of its catalog: whatever else is wrong with a deployment, they are not.
BindingOfCatalog(s, catalog) == (CHOOSE rule \in Elements(s.placements) : rule.selector.catalog = catalog).binding
PlacesByCatalog(s) ==
  LET catalogs == NamesOfCatalogs(s.catalogs)
  IN  /\ \A c \in catalogs : \E rule \in Elements(s.placements) : rule.selector.catalog = c
      /\ \E h \in Hosts : s.placements = CatalogPlacementRules([c \in catalogs |-> BindingOfCatalog(s, c)], h)
CatalogRulesServe ==
  PlacesByCatalog(spec) =>
    \A r \in Elements(spec.resources) : CatalogInstalled(r.selector, spec.catalogs) =>
      \E rule \in Elements(spec.placements) :
        Matching(spec.placements, r) = {rule} /\ rule.binding = BindingOfCatalog(spec, r.selector.catalog)

\* Of a plan that is accepted: one rule places each Resource and on the binding the plan
\* says, a rule that was added never took a Resource over, and the template of a projection
\* job, which reads the rules without labels, finds the same binding; one rule per catalog
\* places everything (resolvePlacementBindings, durableProjectionJob, catalogPlacementRules).
PlacementSound == AuthorTypeOK /\ ExactlyPlaced /\ AddedRuleNeverRedirects /\ TemplateAgrees /\ CatalogRulesServe

\* The typed validators and the released schema were written apart, and agree: of what the
\* validators let through, the last check refuses a retry delay with a fraction and nothing
\* else (validateRuntimeConfig at the end of planDeployment).
RefusedLastForFractions ==
  verdict = "rejected" /\ Judged(spec) =>
    ~(IsWholeMillisecond(spec.validation.baseDelay) /\ IsWholeMillisecond(spec.validation.maxDelay))

\* A plan does not depend on the order of the lists in its specification, the diff of two plans
\* is empty exactly if nothing that was rendered differs, and then no Resource moved that kept its
\* labels; what the typed validators admit the released schema admits, but for fractions
\* (planDeployment, diffPlans, validateRuntimeConfig).
PlanFaithful == OrderIrrelevant /\ DiffTellsRendered /\ DiffTellsPlacement /\ RefusedLastForFractions

\* Planning is a function of the specification: two hosts plan the same one alike.
PlannedAlike ==
  before # NoPlan /\ before.spec = after.spec => before.config = after.config
=============================================================================
