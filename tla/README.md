# TLA+ models of bigbang-operator

bigbang-operator reconciles `Package` custom resources into NetworkPolicies and
Istio resources. This directory models the reconciler as a concurrent system,
the generator as a function, and the two put together as the operator; it checks
them with TLC, and proves with TLAPS what can be proved for every instance: all
safety properties that the passing runs check.

## The system

| Part | State | Operations | Talks to |
|---|---|---|---|
| Reconciler (`internal/controller/package_controller.go`, `prune.go`) | none of its own; the locals of one `Reconcile` | get, mark, render, apply, list, delete, judge | API server, caches, generator |
| Status (`status.go`, `api/v1alpha1/package_types.go`) | three conditions, `observedGeneration`, `appliedResources` | `markReconciling`, `markFailed`, `markReady` | users, kstatus |
| Watches (`SetupWithManager`, `packagesForGlobalConfig`) | informer caches, work queue | an event of a Package, of an owned object, of the global ConfigMap | reconciler |
| Generator (`pkg/generator`) | none: a pure function of Package, ConfigMap and API server ports | `Generate` and the builders of six kinds of objects | reconciler |
| Manager (`cmd/main.go`) | the process | start, restart | all |
| Environment (not in the repository) | Packages, objects, ConfigMap, the Service `default/kubernetes` | edits, deletion, drift, garbage collection | API server |

What is hard about it:

- `Reconcile` works from cached copies while users edit; a status update may be
  refused, may fail, or may take effect and lose its answer.
- A request outlives its sender: one that a broken connection or a dead or deposed
  process left behind may reach the API server after newer passes have ended.
- Nothing is persisted but the cluster itself: after a failure or a crash half
  way through apply, prune or status, the next pass must finish the work.
- The reconciler's own writes are events that wake it up again.
- Prune decides from a cache which objects to delete, by label, in a namespace
  it may share with other Packages.
- The generator builds one idea several times over (a rule as a NetworkPolicy
  and as an AuthorizationPolicy, a port for three kinds of objects), in passes
  whose order matters, from configuration that may be unreadable, and gives
  objects names that may collide.

`PROJECT.json` lists these hazards one by one, with the line where each bites
and the properties that would catch it.

What makes each part correct:

- Reconciler: it converges and comes to rest, it never stops with work undone,
  it applies before it prunes, baseline policies never go missing.
- Status: the conditions never contradict each other, a verdict is about the
  generation and the spec it is stamped with, `observedGeneration` never
  decreases.
- Generator: it refuses rather than guesses, its policies of both layers agree,
  rules of two Packages that mean one flow meet, every default has its own switch,
  routes and the ambient tunnel work end to end, everything it makes can be pruned.

## Modules

| Module | Models |
|---|---|
| `PackageStatus` | `status.go`: conditions as a function from the three types, the three `mark...` operations, and what kstatus makes of them (external) |
| `PackageLifecycle` | abstract specification: a Package is created, edited, judged for its current generation, terminated and removed |
| `PackageController` | `package_controller.go` and `prune.go`, with API server, caches, queue and garbage collector; parameterised by the generator |
| `PackageControllerProofs` | theorems about types, status, verdicts and the refinement |
| `PackageObjectsProofs` | lemmas: what one step can do to one generated object |
| `PackageInPlaceProofs` | theorems about objects while the operator is at work |
| `PackageSettledProofs` | theorem about objects when it is at rest |
| `Shorthand` | `names.go`, `shorthand.go`, and the small helpers of `networkpolicies.go` and `metadata.go` |
| `Cidrs` | `applyExcludeCIDRs`; an address is the function from `1..Width` to its bits |
| `NetworkPolicies` | `networkpolicies*.go`, `definitions.go`, `hbone.go` |
| `Routes` | `routes.go`, `ingressconfig.go` |
| `AuthorizationPolicies` | `authorizationpolicies.go` |
| `Generator` | `generator.go`, `istio.go`, `stampMetadata`, and the controller's test for a reference to `kubeAPI` |
| `InputTypes` | what the types of `api/v1alpha1`, of the shorthand and of `generator.Input` promise of an input |
| `GeneratorProofs` | lemmas about the generator, for every input |
| `SampleSpecs` | the structs of `api/v1alpha1`, one constructor each |
| `Rendering`, `MCGenerator` | the generator run on one input at a time, with the properties of what it renders; families of Packages and configurations for it |
| `ProvenanceProofs` | lemmas: what each object of a rendering is made from, and that what an input asks for is made |
| `RenderingProofs` | theorems about what is rendered |
| `Operator`, `MCOperator` | the composition of `PackageController` and `Generator`; its small instances |
| `OperatorProofs` | theorems: the generator is what the reconciler assumes of it |

The generator's modules extend one another in the order of the table, from
`Shorthand` to `Generator`. `PackageController` takes the generator as the constant
`GenerateFor`, about which it assumes its type and that a rendering made without the
ConfigMap does not depend on it. `Operator` supplies the real one: a spec of the
reconciler is the name of a Package spec, an entry of the ConfigMap that of a pool of
definitions or an ingress configuration, and `GenerateFor` is `Generate` of what
`Reconcile` hands it.
All runs of the reconciler are runs of `Operator`. An instance lists the keys its
objects have, and TLC evaluates the assumption on the type of `GenerateFor` in each
run: the generator renders no object beside them.

### PackageController

The API server is `pkgs`, `objs`, `cfg`, `svc`; the informer caches are `cPkgs`,
`cObjs`, `cCfg`; `queue` is the set of waiting requests and `w` the worker, whose
`pc` walks through the body of `Reconcile`:

    Start -> MarkReconciling -> Render -> Apply* -> (List Delete*)* -> MarkReady
                                   \         \           \
                                    ---------------------------> MarkFailed

Each API call is one step, so that every other actor may act between two calls.
A call fails in three ways: it never arrives, it takes effect and its answer is
lost, or it arrives later. For the last, `late` keeps the worker as it was when it
gave the call up (`Abandon`, on an error or in `Crash`), and `Land` lets the call
take effect at any later time: an apply or a delete whatever has happened since, a
status update only if its resourceVersion is still the current one. This is also
what is left of leader election: a deposed leader's last request. `WriteStatus` is
refused unless the worker's copy has the current resourceVersion. A write that
changes nothing makes no event, as server-side apply and status updates do.
Deliveries bring a cache up to the present; events in between are coalesced, but
`pend` remembers every owner that an undelivered event of an object names.

Bounds and simplifications:

- `Budget` says how often each disturbance may happen (edits, ConfigMap changes,
  Service changes, drift, crashes, faults, late calls, failed fan-outs). All other
  behaviour is unbounded.
- resourceVersions are counted per Package name, and a uid is the
  resourceVersion at creation.
- All Packages are in one namespace; objects elsewhere are invisible to prune.
- The worker is one (`MaxConcurrentReconciles` is left at its default). Of two
  replicas whose leadership overlaps, the older one's call in flight is modelled;
  that it goes on to further calls is not.
- Back-off after an error is not modelled: a retry may come at any time.
- `Get` of the Package reads the cache and does not fail in the model; the code
  returns an error and retries.
- `GlobalConfig` says whether `--global-config-namespace` is set; without it there
  is neither a read nor an event of the ConfigMap.
- A missing ConfigMap is one with nothing set; a malformed entry is one value.
- Prune passes over kinds of which the instance has no key.
- Messages are left out, `LastTransitionTime` is one bit (did it change), and
  `appliedResources` is a set.

Fairness: the worker, informers and the garbage collector keep going (WF), and
a request in the queue is eventually taken (`SF` of `Start(p)`: the queue is
first-in first-out with a back-off, so no request is passed over for ever even
though the worker is busy in between). Users, faults and crashes are not fair.

### Generator

A name is the sequence of its parts between hyphens, so that two ways of joining
can meet in one name. A key of the shorthand is the record of what the regular
expression captures, with `matches` for whether it does; JSON and YAML are
`decodes` flags. A Go map whose keys are sorted is a sequence of entries.
Selectors are sets of label pairs; a port of an `IntOrString` is a number or a
name; the `to` of an AuthorizationPolicy's rule is the list of its operations, each
with its ports. Error texts are left out: a result is objects in order, or an error.
`Render` is the one step: an input from `Inputs` becomes its output.

A number in a key or a route is a Go int, and what becomes of it depends on the object.
A NetworkPolicy has int32s (`Int32`: the last 32 bits, signed), the Istio objects have
uint32s (`UInt32`), and the ports of an AuthorizationPolicy are texts, of the number as
it was written. `MaxInt32` stands for Go's constant, and the only thing assumed of it is
that every port fits.

Where the code skips entries of a list or merges maps, the model says so with
`FlattenSeq` and an explicit function (`Enabled`, `applyExcludeCIDRs`, `mergeMaps`),
which both TLC and the provers can unfold.

The properties of `Rendering` find the objects they speak of by the annotations the
generator writes, which a user may write too: an additional policy annotated with
somebody else's `remote_key` is taken for that rule's. `PlainSpec` says that the user
does not write these five annotations, and `CompanionsAgree`, `ExclusionsHold` and
`MirroredRulesMeet` are about such specs. What else they leave aside is a case in which
the code itself does something else: literal rules, which are passed on without
exclusions (`ExclusionsHold`); a local key with a number that is no int32, of which the
NetworkPolicy opens another port than the AuthorizationPolicy names (`CompanionsAgree`;
see `wide_ports`); a port of a route that is a name, which counts as 0, or negative, and
two objects with one name (`RoutesAdmitTheirGateways`); and the key `""`, which means
the pods with an empty name in `egress.from` and all pods in a k8s rule
(`MirroredRulesMeet`). `DefaultsSwitchAlone` renders the Package once more with one
switch turned off, and compares the two lists of objects: they differ by the removal of
one object at most, the order included.

Not distinguished: IPv4 and IPv6; port ranges that descend once they are int32s, which
the API server rejects; named ports of inbound routes, which become 0. A number that is
no int of 64 bits is one that Atoi refuses (`fits`). A range that ends at the greatest
int is left out: the loop that writes it out for an AuthorizationPolicy never ends.

## Runs

| Run | Instance | What it checks |
|---|---|---|
| `lifecycle` | 1 Package, 2 specs (one with an outbound route, one with the kubeAPI rule), 3 edits (create, edit, delete and re-create) | `TypeOK`, `ObservedNeverGoesBack`; with fairness `Converges`, `Quiesces` and `ImplementsLifecycle`, the refinement of `PackageLifecycle` |
| `faults` | 2 edits, 1 crash, 1 fault at any call, 1 call that lands late | `StatusConsistent`, `MakeBeforeBreak`, `BaselineStays`, `SettledMeansCorrect` |
| `config` | a spec that needs a shared definition and one that needs the shared gateways; 2 edits, 2 changes of the ConfigMap (absent, sound, malformed), 1 failed fan-out | `VerdictReflectsSpec`, `SettledMeansCorrect`, `Converges` |
| `drift` | 1 manual edit or deletion of an object, 1 change of the Service, 1 fault, 1 late call | `SettledMeansCorrect`, `Converges` |
| `two_packages` | 2 Packages in a namespace without a global ConfigMap, one of the two specs cannot be rendered; 3 edits | `BaselineStays`, `Converges` |
| `generator` | about 15000 inputs: definitions x pools x ports; forms of ingress keys x meshes, ports of 33 bits among them; forms of egress keys x overrides on both ends; switches of the defaults; routes x gateway lists x configurations; user-supplied objects; CIDR rules x exclusions | `NeverGuesses`, `PortsLookedUp`, `CompanionsAgree`, `AmbientReachable`, `RoutesAdmitTheirGateways`, `EveryObjectIsPrunable`, `ExclusionsHold`, `MirroredRulesMeet`, `DefaultsSwitchAlone` |

Three edits are the shortest history in which a Package is re-created under its
old name while the reconciler still holds a copy of the first; one crash and one
fault suffice because after either the reconciler starts again from the cluster,
and their order with each other and with two edits is free. One late call may be
any call of any earlier pass. Two changes of the ConfigMap give every transition
between absent, sound and malformed. Most default policies are switched off in the
specs of these runs, so that a Package has two or three objects: two suffice for a
partial apply, and the specs differ in what is pruned. The address space of 3 bits
has every relation of two networks: equal, equal in different writing, contained,
containing, disjoint, malformed. `MaxInt32` is 65535 in all runs: TLC's own integers
have 32 bits, every port fits, and a number one bit wider comes out as a port.
`MirroredRulesMeet` gives the policies their
meaning in a cluster of four workloads, in two namespaces, with and without the
label that the selector overrides ask for, at ports inside, at the ends of and
outside of the ranges in the keys.

Of objects that one rendering contains twice, `MakeBeforeBreak` and
`SettledMeansCorrect` ask for the last (`LastOf`), which is what server-side apply
leaves. `MakeBeforeBreak` leaves runs with a late call aside, and `BaselineStays`
those in which a Package was re-created as well: an apply that was sent for the
Package deleted before can then take an object over from its successor, until the
event of that write brings it back (which `SettledMeansCorrect` and `Converges`
cover). `BaselineStays` is about objects that no other Package renders under the same
name (`Contested`): over those, two Packages of a namespace fight.

Runs that violate what the documentation says:

| Run | Claim | What the code does |
|---|---|---|
| `ready_before_pruned` | Ready is set "when desired resources are applied and pruned" | prune lists from a cache that may lag behind the apply of an earlier pass, so Ready may precede the deletion. The next event repairs it (`SettledMeansCorrect` holds). |
| `name_collision` | collisions are "last-write-wins", and no hot loop | two rules with one object name and different contents flip the object in every pass, each flip is an event, and the operator never rests |
| `service_changes` | kubeAPI ports "stay current if the Service changes" | the Service is not watched |
| `definition_rules` | "every ingress shorthand rule emits a companion AP" | definition and literal rules do not |
| `wide_ports` | "ports live on the local key" | `api:4294967376` is accepted: the NetworkPolicy opens the number's last 32 bits, port 80, and the AuthorizationPolicy names the number itself |
| `disabled_mesh` | "nothing is emitted unless istio.enabled: true" | AuthorizationPolicies look at `ambient` and `authorizationPolicies.enabled` only |

The informers' periodic resync, hours apart and set up by controller-runtime, is not
modelled; it would bring a missed change of the Service or of the ConfigMap in at last.

More differences were met without a run of their own. `docs/controller.md`
promises a Warning event for every field that is "accepted but deliberately not
honored"; `Warnings` knows `defaultsAsHooks` only, while the `namespace` of an
additional AuthorizationPolicy is ignored without one
(`authorizationpolicies.go:422`). `udp://` in a key without ports has no effect: the
policy admits every port of every protocol. The kubelet policy of ambient has no
switch of its own and selects every pod, so that ingress stays denied when all other
ingress defaults are switched off one by one. Two Packages of a namespace that
do not set `prependReleaseName` fight over the default policies, as a comment in
`generateDefaultAuthzPolicies` says; in `two_packages` one of them sets it. Under
ambient,
`generateFromNetpol: false` still suppresses the companions, although
`docs/istio.md` calls them force-enabled. The policies of a route are named after
service and gateway, so of two routes to one service through one gateway the first loses
its policies to the second, while `docs/authorization-policies.md` says that "each
inbound route emits one AP per gateway"; `RoutesAdmitTheirGateways` leaves them aside,
and the two then flip as in `name_collision`. When the Packages cannot be listed at an
event of the ConfigMap, the event is dropped, and a Ready Package stays as it was, while
`docs/global-config.md` says that any edit re-reconciles every Package;
`SettledMeansCorrect` and `Converges` leave this aside. And `applyExcludeCIDRs`
recognises the rule's own network as a string, so that the same network written with
host bits (`10.0.0.5/8` in a rule for `10.0.0.0/8`) empties the rule, while its comment
speaks of exclusions "strictly contained" in it; `ExclusionsHold` leaves this case
aside.

Every property of a passing run has a mutant: an operator named
`<definition>_<what is wrong>` next to the definition it would replace, under
which TLC finds the property violated.

## Proofs

TLAPS proves each of the following for every value of the constants: every number of
Packages, specs, objects and disturbances, and every input of the generator.

| Theorem | Module | States |
|---|---|---|
| `TypeCorrect` | `PackageControllerProofs` | `TypeOK`, and that the index of the worker, and of every worker that a late call remembers, stays in its list |
| `StatusIsConsistent` | | `StatusConsistent` |
| `ObservedIsMonotonic` | | `ObservedNeverGoesBack` |
| `VerdictIsFromSpec` | | `VerdictReflectsSpec` |
| `RefinesLifecycle` | | `Spec => Lifecycle!Spec` |
| `PruneComesLast` | `PackageInPlaceProofs` | `MakeBeforeBreak` |
| `BaselineIsKept` | | `BaselineStays` |
| `NeverStopsShort` | `PackageSettledProofs` | `SettledMeansCorrect` |
| `OperatorNeverGuesses` | `RenderingProofs` | `NeverGuesses` |
| `PortsAreLookedUp` | | `PortsLookedUp` |
| `TunnelIsReachable` | | `AmbientReachable` |
| `ObjectsArePrunable` | | `EveryObjectIsPrunable` |
| `GatewaysAreAdmitted` | | `RoutesAdmitTheirGateways` |
| `ExclusionsAreExact` | | `ExclusionsHold` |
| `LayersAgree` | | `CompanionsAgree` |
| `DefaultsAreIndependent` | | `DefaultsSwitchAlone` |
| `RulesMeet` | | `MirroredRulesMeet` |
| `UnreadableIsRefused`, `PortsOnlyWhereReferenced`, `RenderedKindsAreListed` | `OperatorProofs` | what the reconciler takes for granted of the generator |

### Status

`StatusConsistent` is not inductive: the worker computes a status from a copy it
took long ago. `IInv` adds `Versions`: no copy is newer than the last
resourceVersion given out, and a copy with the uid and the resourceVersion of the
Package at the API server is equal to it. So an update that is accepted was
computed from what it replaces, and it suffices that `markReconciling`,
`markFailed` and `markReady` turn a consistent status into one that is
consistent for the generation of the copy. `ObservedNeverGoesBack` and the
refinement follow the same way: what a step does to one Package is one of a few
cases (`PackageStep`), each of which is a step of `PackageLifecycle` or none.
`VerdictReflectsSpec` needs in addition that the list the worker holds was
rendered from its copy's spec (`WorkFromSpec`). Each of these facts is stated of
every worker in `Calls`, the present one and those of calls that may still land, so
that `Land` is one more case of the same argument.

### Objects

`PackageObjectsProofs` says once what a step can do to one object (`ObjectStep`: leave
it, deliver it to the cache, apply or delete it for a call, collect it, touch it from
outside), and the theorems argue from that, not from the actions. Two facts
of its own are used by all: while the cache of an object is behind, an event that names
its owner is on its way (`Events`), and the locals of `Reconcile` fit its stage
(`Stages`).

- `MakeBeforeBreak` speaks of the stages after `applyAll`; its inductive form
  `AppliedSoFar` speaks of every stage: what has been applied so far is in place. It
  needs that uids are fresh (`Uids`), because the garbage collector goes by them.
- `BaselineStays` starts when the status says what was applied, but the status is
  written last. `BaselineKept` starts with the apply itself (`Due`). Three more facts
  carry it: an object bears the label of a Package that renders it (`Labelled`, so
  that another Package's prune cannot list it), nobody who has met the live Package
  still works for a former one of that name (`Known`), and uids are fresh.
- `SettledMeansCorrect` goes backwards from rest. `Calm(p)` says that nothing about `p`
  is queued or on its way; `CalmStep` shows that `p` can become or stay calm only by a
  step that changes nothing `p` is made of, because every change makes an event and
  every event queues `p`. So a pass that ends calm has changed nothing, and what it
  applied, listed and reported without changing anything was in place already. The
  invariant has a half for a Package at rest (`AtRest`) and one for the Package the
  worker is at (`AtWork`: what it has applied is there, and what does not belong there
  is still to be listed or deleted). A pass may have rendered without reading
  the ConfigMap; here `UnreadableAssumption` is used.

### Generator

The generator concatenates lists of lists, so that what holds of every object needs
induction over the number of parts. `GeneratorProofs` does it once: the least natural
number outside of a set (`LeastNatural`) gives induction (`InductiveSet`), and that
gives what `FlattenSeq` returns (`FlattenSeqElements`); everything else is said of
lists element by element.

- A rendering does not depend on what it did not read. `GenerateSame` is a congruence:
  if everything the enabled rules refer to resolves to the same in two environments,
  and the routes do, then a rendering that succeeds in one is the same in the other.
  With unread definitions only package-local names resolve, and with an unread ingress
  configuration only disabled routes do (`GenerateBlind`). Without a reference to
  `kubeAPI` in quotes, no enabled rule names it, because decoding and passing over
  entries makes up no key (`ReferredToIsQuoted`, `GenerateWithoutPorts`).
- Every object is of one of six kinds, and every NetworkPolicy has well-formed rules
  (`SoundObject`), builder by builder, up to `PartsSound`. `GenerateFinishes` says that
  each object of the output is such an object after the last pass, `Injected` and
  `Stamped` what that pass does.

`ProvenanceProofs` says the same in both directions: an object is in the output iff it
is the finished form of one that some rule, route, default or raw object of the input
makes. From there:

- `GatewaysAreAdmitted` goes forward from a route: its policies and its VirtualService
  are made, the last pass neither closes a port nor changes a selector, and without a
  second object of the same name they are what server-side apply leaves.
- `ExclusionsAreExact` and `LayersAgree` go backward from an object. A plain spec
  writes none of the generated annotations, so an object that bears one is from the
  builder that writes it, and its annotation tells the key. What is left of the first
  is a fact about bits (`Within` of one address and two lengths decides inclusion of
  networks, for every `Width`, because every network has an address that differs from a
  shorter one outside of it), and of the second that the two ends of a range and the
  same range spelt out are the same numbers, in text. Here the condition on int32s is
  needed: `Conversions` says that `Int32` and `UInt32` give back what they can represent,
  and of other numbers `CompanionsAgree` is false.
- `DefaultsAreIndependent` compares two inputs. All components but one render the same
  from both, because they read nothing of `defaults` (`PolicyRulesSame` and the like), and the
  list of the one that does is the concatenation of one short list for each default, of
  which turning a switch off empties one; `FlattenSeq` and the last pass carry the
  removal of one element up to the output.
- `RulesMeet` compares a Package with a second one, which the property makes up from one
  rule of the first. The second is an input that there can be (`MirrorSound`), and it is
  rendered whenever the first is and the rule is switched on (`MirrorRenders`: the
  components that it shares with the first read neither rules nor namespaces). By
  provenance a flow is open iff one k8s rule lets it through, on either side
  (`EgressOpens`, `MirrorOpens`; a CIDR rule is about no pod). What is left is
  `MirrorLets`: selector by selector, what the builder of an egress rule writes for its
  remote end selects the same pods of the cluster as what the builder of an ingress rule
  writes for its local end, and the other way around, and the ports are the same before
  the last pass and after it.

`OperatorProofs` closes the circle: for the generator that `Operator` hands to the
reconciler, `UnreadableIsRefused` is what `UnreadableAssumption` says and
`RenderedKindsAreListed` what `KeysAssumption` needs.

### Assumptions

All are named `ASSUME`s, and TLC evaluates each of them in the runs.
`PackageController`: non-empty sets, the types of `GenerateFor` and of the budget, keys
of managed kinds, and `UnreadableAssumption`. `Rendering` and `Operator`: inputs are
what the Go types promise (`SoundInput`: lists are lists, structs have their fields).
Two clauses go beyond the types. The ends of a port range are in order (`SoundPort`,
`SoundKeyPorts`, of the int32s that go into the policy): `parsePortSpec` does not check
it, but the API server refuses such a policy. And the namespace of a Package is not `*`, which the API server refuses as well.
`Nil` stands for a Go nil, which is told apart from every value; in untyped TLA+ that has
to be said: it is no number, no port, no CIDR, no selector (`NilAssumption`,
`CidrAssumption`, `IsName`), no struct in which a switch has been turned off
(`SoundDefaults`, `StaysWith`), and no struct of the second Package of
`MirroredRulesMeet`, nor what is read of a key of its that can be read
(`MirrorAssumption`). `WorkloadsAssumption` says of the cluster in which that property is
evaluated that namespaces and pods have the labels of their names, and that no namespace
is called `*`. `WidthAssumption`: `Width` is a natural number. `MaxInt32Assumption`: `MaxInt32` is one,
of at least 65535.

### Only model-checked

- `Converges`, `Quiesces` and the fairness of `ImplementsLifecycle`: liveness is out of
  the prover's reach.

Every safety invariant and action property of the passing runs is also a theorem.

## Not modelled

Metrics and warning events (nothing reads them), the other flags, TLS, probes and
the leader election of `cmd/main.go`, deep copies and CRDs, the chart and manifests,
tests. JSON, YAML and regular expressions are abstracted as described.

## Plan

Done, in this order: `PackageStatus`, `PackageController`, `PackageLifecycle` and
the refinement, the proofs of types, status, monotonicity, refinement and verdicts,
the generator's modules and their run; then the composition in `Operator`, calls that
land late, the operator without a global ConfigMap, the meaning of shorthand rules in
a cluster, and the switches of the defaults.

Then the proofs: make before break and the baseline, the operator at rest, what a
rendering does not depend on, the tunnel and prune, and the facts the two halves of
the operator take of each other.

After these, what each object is made from, in both directions, and with it the
routes, the exclusions, the agreement of the two layers, the independence of the
defaults, and the two Packages that meet.
