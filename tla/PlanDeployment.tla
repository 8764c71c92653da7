----------------------------- MODULE PlanDeployment -----------------------------
(***************************************************************************)
(* planDeployment and what it calls (runtime-config/index.ts): it judges a *)
(* whole deployment specification and renders the runtime configuration,   *)
(* its fingerprint and the capability of every Resource; diffPlans says    *)
(* what changed between two plans.                                         *)
(*                                                                         *)
(* Lists are sequences, as the author wrote them.  A fingerprint is the    *)
(* value it is taken of.  localeCompare is the collation of the host that  *)
(* plans: Collation[h][t] is the place of the text t in its order.         *)
(***************************************************************************)
EXTENDS EngineCapabilities

CONSTANTS
  Profiles,           \* engine profiles by identifier
  Hosts, Collation    \* hosts that plan, and the order of texts on each

\* A profile has every field, its limits are numbers, and a host has one order, in which no two texts are alike.
IsEngineProfile(p) ==
  /\ {"id", "adapter", "contract", "catalogs", "operations", "modes", "topologies", "tls", "pins", "topology"} \subseteq DOMAIN p
  /\ \A contract \in DOMAIN p.operations : AreLimits(p.operations[contract].limits)
IsOrder(place) == \A t, u \in DOMAIN place : place[t] \in Int /\ (place[t] = place[u] => t = u)
ASSUME ProfilesAssumption == \A id \in DOMAIN Profiles : IsEngineProfile(Profiles[id])
ASSUME CollationAssumption == \A h \in Hosts : IsOrder(Collation[h])

\* What a program in TypeScript cannot get wrong: lists are lists and fields are there; and the
\* hosts order every text by which a valid list is sorted.
HasPlace(text) == \A h \in Hosts : text \in DOMAIN Collation[h]
CatalogsTyped(list) ==
  IsList(list) /\ \A c \in Elements(list) : c.name # None /\ HasPlace(c.name) /\ HasPlace("primary-" \o c.name)
ProvidersTyped(list) == IsList(list) /\ \A p \in Elements(list) : IsIdentifier(p.id) => HasPlace(p.id)
RequirementTyped(r) ==
  /\ DOMAIN r = {"selector", "dataClass", "schemas", "operations", "guarantees", "limits", "labels", "retention"}
  /\ IsList(r.schemas) /\ IsList(r.operations)
  /\ IsSelector(r.selector) => HasPlace(SelectorKey(r.selector))
ResourcesTyped(list) == IsList(list) /\ \A r \in Elements(list) : RequirementTyped(r)
BindingsTyped(list) == IsList(list) /\ \A b \in Elements(list) : IsIdentifier(b.id) => HasPlace(b.id)
RuleTyped(rule) ==
  /\ DOMAIN rule = {"id", "selector", "binding"}
  /\ IsIdentifier(rule.id) => HasPlace(rule.id)
  /\ DOMAIN rule.selector = {"resources", "catalog", "labels"}
  /\ IsList(rule.selector.resources)
  /\ \A n \in Elements(rule.selector.resources) : IsSelector(n) => HasPlace(SelectorKey(n))
PlacementsTyped(list) == IsList(list) /\ \A rule \in Elements(list) : RuleTyped(rule)
SpecificationTyped(s) ==
  /\ DOMAIN s = {"profile", "catalogs", "providers", "resources", "bindings", "placements", "live", "validation",
                 "telemetry"}
  /\ CatalogsTyped(s.catalogs) /\ ProvidersTyped(s.providers) /\ ResourcesTyped(s.resources)
  /\ BindingsTyped(s.bindings) /\ PlacementsTyped(s.placements)

Keys(s) == {SelectorKey(r.selector) : r \in Elements(s.resources)}
Requirement(s, key) == CHOOSE r \in Elements(s.resources) : SelectorKey(r.selector) = key
BindingOf(s, id) == CHOOSE b \in Elements(s.bindings) : b.id = id
ProviderIds(s) == {p.id : p \in Elements(s.providers)}

-----------------------------------------------------------------------------
(* The catalogs, Schema providers and Resources of a specification.        *)
NonEmpty(s) ==
  s.catalogs # <<>> /\ s.providers # <<>> /\ s.resources # <<>> /\ s.bindings # <<>> /\ s.placements # <<>>
CatalogsValid(s) ==
  /\ DistinctBy(s.catalogs, LAMBDA c : c.name)
  /\ \A c \in Elements(s.catalogs) :
       c.name \in CatalogNames /\ IsText(c.package, 256) /\ IsText(c.contract, 64) /\ IsFingerprint(c.pin)
ProvidersValid(s) ==
  /\ DistinctBy(s.providers, LAMBDA p : p.id)
  /\ \A p \in Elements(s.providers) :
       IsIdentifier(p.id) /\ IsText(p.package, 256) /\ IsText(p.contract, 64) /\ IsFingerprint(p.pin)
NamesOfCatalogs(catalogs) == {c.name : c \in Elements(catalogs)}
CatalogInstalled(selector, catalogs) == selector.catalog \in NamesOfCatalogs(catalogs)
ResourcesValid(s) ==
  /\ DistinctBy(s.resources, LAMBDA r : SelectorKey(r.selector))
  /\ \A r \in Elements(s.resources) :
       /\ IsRequirement(r)
       /\ CatalogInstalled(r.selector, s.catalogs)
       /\ \A schema \in Elements(r.schemas) :
            \E p \in Elements(s.providers) : p.id = schema.provider /\ p.package = schema.package

(* validateBinding: the profile of a binding and its static selection.     *)
BindingValid(b) ==
  /\ IsIdentifier(b.id) /\ IsFingerprint(b.capabilityPin)
  /\ IsConnection(b.connection) /\ IsClientPolicy(b.client) /\ IsMetadata(b)
  /\ "package-lock" \notin b.connection.extensions
  /\ b.profile \in DOMAIN Profiles
  /\ LET profile == Profiles[b.profile]
     IN  /\ profile.tls = "server" => b.connection.tls.mode # "disabled"
         /\ StaticSelection(profile, b.mode, b.topology, b.version)
         /\ PackagesPinned(profile, b.packages)
         /\ \A name \in DOMAIN b.runtimePins : IsText(name, 256) /\ IsText(b.runtimePins[name], 512)
         /\ b.manifest # None => ManifestFits(b, profile)
         /\ SettingsFit(SelectedProfile(b, profile), b.connection.settings)
BindingsValid(s) ==
  DistinctBy(s.bindings, LAMBDA b : b.id) /\ \A b \in Elements(s.bindings) : BindingValid(b)

\* The capabilities a binding is planned with.
PlannedProfile(b) ==
  ConfiguredProfile(SelectedProfile(b, Profiles[b.profile]), b.connection.settings, b.manifest # None)

-----------------------------------------------------------------------------
(* Placement.  A label predicate reads the labels of the requirement.      *)
Matches(rule, r) ==
  LET s == rule.selector
  IN  /\ s.resources # <<>> =>
           \E named \in Elements(s.resources) : SelectorKey(named) = SelectorKey(r.selector)
      /\ s.catalog \in {None, r.selector.catalog}
      /\ \A name \in DOMAIN s.labels : name \in DOMAIN r.labels /\ r.labels[name] = s.labels[name]
Matching(placements, r) == {rule \in Elements(placements) : Matches(rule, r)}

PlacementsValid(s) ==
  /\ DistinctBy(s.placements, LAMBDA p : p.id)
  /\ \A p \in Elements(s.placements) :
       /\ IsIdentifier(p.id) /\ IsIdentifier(p.binding) /\ IsPlacementSelector(p.selector)
       /\ p.binding \in {b.id : b \in Elements(s.bindings)}

\* A resolution that takes the first rule that matches.
SomeRule(placements, r) == Matching(placements, r) # {}

\* resolvePlacementBindings: neither no rule nor two.
OneRule(placements, r) == Cardinality(Matching(placements, r)) = 1
PlacementBindings(s) ==
  [key \in Keys(s) |->
     LET i == CHOOSE i \in DOMAIN s.placements :
                /\ Matches(s.placements[i], Requirement(s, key))
                /\ \A j \in 1..(i - 1) : ~Matches(s.placements[j], Requirement(s, key))
     IN  s.placements[i].binding]

-----------------------------------------------------------------------------
(* The policies, and the requirements against the planned engines.         *)
PoliciesValid(s) ==
  /\ s.live.required => s.live.enabled
  /\ s.live.enabled = (s.live.provider # None)
  /\ s.live.provider \in ProviderIds(s) \cup {None}
  /\ IsValidationPolicy(s.validation) /\ IsTelemetry(s.telemetry)
RequirementsServed(s) ==
  \A r \in Elements(s.resources) :
    LET b == BindingOf(s, PlacementBindings(s)[SelectorKey(r.selector)])
    IN  CapabilitiesProvided(r, PlannedProfile(b)) /\ LifecycleProvided(r, b)
PhysicallyPinned(s) ==
  s.validation.physical => \A b \in Elements(s.bindings) : b.connection.physical # None

-----------------------------------------------------------------------------
(* Rendering: every list is sorted on the host, objects are normalized.    *)
Precedes(h, a, b) == Collation[h][a] < Collation[h][b]
Sorted(S, Less(_, _)) ==
  [i \in 1..Cardinality(S) |-> CHOOSE x \in S : Cardinality({y \in S : Less(y, x)}) = i - 1]

SortedBy(seq, Key(_), h) == Sorted(Elements(seq), LAMBDA x, y : Precedes(h, Key(x), Key(y)))
SortedById(seq, h) == SortedBy(seq, LAMBDA x : x.id, h)

SchemaPins(s) ==
  UNION {{[ref |-> r.selector, provider |-> schema.provider, pin |-> DefinitionFingerprint(schema)] :
            schema \in Elements(r.schemas)} : r \in Elements(s.resources)}
\* By Resource, then by provider.
RenderedPins(s, h) ==
  Sorted(SchemaPins(s),
         LAMBDA x, y : \/ Precedes(h, SelectorKey(x.ref), SelectorKey(y.ref))
                       \/ x.ref = y.ref /\ Precedes(h, x.provider, y.provider))
RenderedBinding(b) ==
  LET profile == PlannedProfile(b)
      c == b.connection
  IN  [id |-> b.id, adapter |-> profile.adapter, contract |-> profile.contract,
       engineProfile |-> profile.id, version |-> b.version, endpoint |-> c.endpoint, service |-> c.service,
       namespace |-> c.namespace, tls |-> c.tls, identity |-> c.identity, secret |-> c.secret,
       client |-> b.client, capabilityPin |-> b.capabilityPin, physical |-> c.physical,
       runtimePins |-> b.runtimePins, settings |-> c.settings, extensions |-> c.extensions,
       lock |-> b.packages, acl |-> b.acl, mode |-> b.mode, topology |-> b.topology,
       migration |-> b.migration, observability |-> b.observability, recovery |-> b.recovery]
RenderedRule(rule, h) ==
  [id |-> rule.id, binding |-> rule.binding,
   selector |-> [rule.selector EXCEPT !.resources = SortedBy(rule.selector.resources, SelectorKey, h)]]
\* A rendering that keeps the order of the author.
AuthoredRules(s, h) == [i \in DOMAIN s.placements |-> RenderedRule(s.placements[i], h)]

RenderedRules(s, h) ==
  LET sorted == SortedById(s.placements, h)
  IN  [i \in DOMAIN sorted |-> RenderedRule(sorted[i], h)]
RenderedBindings(s, h) ==
  LET sorted == SortedById(s.bindings, h)
  IN  [i \in DOMAIN sorted |-> RenderedBinding(sorted[i])]
Rendered(s, h) ==
  [profile |-> s.profile, catalogs |-> SortedBy(s.catalogs, LAMBDA c : c.name, h),
   pins |-> RenderedPins(s, h), providers |-> SortedById(s.providers, h), live |-> s.live,
   bindings |-> RenderedBindings(s, h), placements |-> RenderedRules(s, h),
   validation |-> s.validation, telemetry |-> s.telemetry]

\* Each capability carries the fingerprint of the whole configuration.
\* Of several Schemas it is the sorted list: how often each definition occurs.
SchemaFingerprint(r) ==
  [pin \in {DefinitionFingerprint(schema) : schema \in Elements(r.schemas)} |->
     Cardinality({i \in DOMAIN r.schemas : DefinitionFingerprint(r.schemas[i]) = pin})]
ResourceBinding(r, config) ==
  [resource |-> SelectorKey(r.selector), schema |-> SchemaFingerprint(r), config |-> config]

PlanOf(s, h) ==
  LET config == Rendered(s, h)
  IN  [spec |-> s, host |-> h, config |-> config, placed |-> PlacementBindings(s),
       bindings |-> [key \in Keys(s) |-> ResourceBinding(Requirement(s, key), config)]]

\* validateRuntimeConfig, of what was rendered.
RuntimeConfigValid(config) ==
  /\ SchemaAccepts(config)
  /\ DistinctBy(config.catalogs, LAMBDA c : c.name)
  /\ \A i \in DOMAIN config.pins : CatalogInstalled(config.pins[i].ref, config.catalogs)

Judged(s) ==
  /\ IsText(s.profile, 512) /\ NonEmpty(s)
  /\ CatalogsValid(s) /\ ProvidersValid(s) /\ ResourcesValid(s)
  /\ BindingsValid(s) /\ PlacementsValid(s) /\ PoliciesValid(s)
  /\ \A r \in Elements(s.resources) : OneRule(s.placements, r)
  /\ RequirementsServed(s) /\ PhysicallyPinned(s)

(* planDeployment does not throw on the host h.                            *)
Accepts(s, h) == Judged(s) /\ RuntimeConfigValid(Rendered(s, h))

(* catalogPlacementRules: one rule per catalog, by the name of the catalog. *)
CatalogPlacementRules(bindings, h) ==
  LET catalogs == Sorted(DOMAIN bindings, LAMBDA x, y : Precedes(h, x, y))
  IN  [i \in DOMAIN catalogs |->
         [id |-> "primary-" \o catalogs[i], binding |-> bindings[catalogs[i]],
          selector |-> [resources |-> <<>>, catalog |-> catalogs[i], labels |-> <<>>]]]

(* diffPlans.                                                              *)
Diff(old, new) ==
  LET was == DOMAIN old.bindings
      is == DOMAIN new.bindings
      changed == {key \in was \cap is : old.bindings[key] # new.bindings[key]}
  IN  [added |-> is \ was, removed |-> was \ is, changed |-> changed,
       configChanged |-> old.config # new.config,
       empty |-> is = was /\ changed = {} /\ old.config = new.config]
=============================================================================
