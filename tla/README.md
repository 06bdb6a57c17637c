# Verification of cross-cluster-service

TLA+ models of the controllers in this repository, TLC runs that check them on
small instances, and TLAPS proofs of their safety properties for every value of
the constants. `PROJECT.json` is the index: components, runs, mutants, the map from
definitions to source lines, findings, hazards and theorems.

## The system

A `CrossService` names a *source* (DNS, static addresses, Pods, Nodes or a
Service, in this or in another cluster) and gets a selector-less Service with
EndpointSlices that follow the source.

| Part | Source | State it changes |
|---|---|---|
| CrossService controller | `internal/controller/crossservice_controller.go` | the object's status, its Service, its slices, its work queue |
| failure policy | `internal/endpoints/failure.go` | none (pure); its memory is `status.source` |
| grouping and packing | `internal/endpoints/group.go`, `planSlices` in `slice.go` | none (pure) |
| slice writer | `Writer.Reconcile` in `slice.go` | EndpointSlices, one API call at a time |
| Service reconciler | `internal/service/service.go` | the Service |
| remote client cache | `internal/clusters/cache.go` | entries, consumers, running informers, one mutex |
| RemoteCluster controller | `internal/controller/remotecluster_controller.go` | finalizer, status, cache invalidation |
| watches and indexes | `internal/controller/watches.go` | work queues, the remote event channel |
| access, validation | `internal/controller/access.go`, `validation.go` | none (pure checks) |
| resolvers | `internal/resolver/` | none (pure, over cluster reads) |
| address policy | `internal/endpoints/policy.go` | none (pure) |
| authentication | `internal/clusters/auth/` | none; yields a client config and a fingerprint |
| manager | `cmd/main.go` | wiring |
| API types, deep copies | `api/v1alpha1/` | none |

The two controllers have one worker each and run concurrently. Both read
objects through informer caches that lag behind the API server, and write with
optimistic concurrency. A failed call returns an error and the key comes back;
a conflicting status write is dropped silently.

## Modules

`FailurePolicy` holds the operators of `failure.go`. An endpoint list is a
function from addresses to a condition; time is counted in the resolution of a
serialised timestamp. Which endpoints survive `ToPersisted`'s cut is a
nondeterministic choice, because the resolver's order is not fixed.

`CrossService` is the reconcile loop of one object. `versions` is the sequence
of versions the API server has accepted and the informer has not passed yet: its
head is what the cache returns, its last element what is stored. The worker's
`pc` walks through `Get`, `RejectSpec` or `RefuseCluster` or `Resolve`,
`ApplyPolicy`, `WriteSlices`, `WriteStatus`, each one block of `Reconcile`.
`current` says whether the copy the worker holds is still the stored version,
that is, whether an update with its resourceVersion succeeds. `Deliver`, `Edit`,
`SourceSwing`, `GrantSwing`, `TimerFires`, `Tick`, `Fail` and `Restart` are what
may fall between two steps. `WriteSlices` writes what was decided; or, when the
informer's list of slices lags, or a call fails half-way (`Fail`), any mixture of
the old and the new endpoints (`Mixtures`), and another reconcile follows.

`SlicePlan` holds grouping and `planSlices` as operators on sets and functions.
`Pass` is one walk over a group's slices in name order: pass 1 (`Retained`) keeps,
pass 2 (`Filled`) fills up, pass 3 (`Chunks`) opens new slices. A plan is the
contents per name, and two sets of orphans: slices of no wanted group
(`foreign`) and slices with nothing left to hold (`emptied`).
Slice names are pairs of family and number, compared as numbers: the code
compares strings, which differs from ten slices of one family on ("-10" sorts
before "-2"); the instances stay below that, and the proofs use of `Before` only
that it is a strict total order (`BeforeOrders`), which the order of strings is too.

`SliceWriter` runs a plan against the API server call by call. `history` plays
the role of `versions`; `outdated` is the set of names written since the listed
version, the ones whose Update conflicts. Delete has no precondition, as in the
code. `SlicePacking` applies whole plans to arbitrary layouts, including ones
over the limit, to check the pure algorithm.

`EndpointBoard` is the abstract specification of the slices as their readers see
them, without names, packing, caches or versions: what is `shown`, what is
`wanted`, what the reconcile in flight has `taken` and not written yet, and
whether a reconcile is `due`. A write shows nothing but what was taken, an
abandoned reconcile leaves another one due, and the board comes to rest only with
`shown = wanted`. `SliceWriter` (`Board`) and `Publish` (`PublishBoard`) implement
it: `shown` is what the labelled slices on the server hold, each endpoint with
its condition and the family and ports of its slice; `taken` is what the rest of
the plan writes, and in `Publish` already the endpoints carried along (`job`)
from the moment the Service is written.

`ServiceObject` holds `Build`, `mergePorts`, `mergeMap` and the merge of
`service.go` as operators; `Defaulted` is what the API server fills in on a
write (external), and `Complete` says that nothing is left to fill in. Labels and
annotations are one map, and one `policy` stands for
`internalTrafficPolicy` and `sessionAffinity`, which are treated alike.

`Publish` composes the two writers as `Reconcile` does: `ReconcileService` with
its four outcomes, then the list, the plan and the writes of `SliceWriter`, with
an informer for each. `services` plays the role of `versions`. `HandService` is
anyone with a kubectl: the Service is deleted, disowned, given a selector or
another type.

`Resolvers` holds the resolvers, `Dedupe` and the address filters as operators
from the objects of a cluster (a record of object maps and DNS answers) to a
result. Endpoint lists are sets: their order is that of an informer's map or of
a DNS answer, so where `Dedupe` keeps the first of a list it may keep any.
Parsing of addresses and CIDRs, `ScopeOf` and `isSpecialPurpose` are constant
sets; a CIDR in `Malformed` does not parse.

`SourceWatch` puts the watches in front of them, for one CrossService with one
source cluster. A change of an object leaves an event; `DeliverLocal`,
`DeliverRemote` (through the bounded channel, which drops) and `Receive` turn it
into a queued key if `localSourceRefKeys` lists it. `Start` makes the
resolver's first read (Pods or Service) and `Finish` the others, so objects can
change in between. `served` is what the last reconcile resolved; what follows
resolution is left to the other modules, except that a changed status is an
event of its own. `RejectPolicy` is the error of a RemoteCluster's address
policy that does not compile, after which the key comes back.

`ClientCache` is the cache with the three goroutines that use it: the
CrossService worker (`x`), the RemoteCluster worker (`r`) and the Secret
handler. `Get` is split where the code takes the lock; the mutex is held exactly
while `x` is attaching watches or waiting for the sync. It leaves the
CrossService's own status and slices to the modules above. After a restart the
informers' first lists are events too, those of the Secrets included.

`ClientPool` is the abstract specification of the cache: clients with
credentials and users, opened one at a time, without goroutines, lock or work
queues. `ClientCache` implements it under the mapping at its end (`Pool`):
entries are the clients, and a client is being opened exactly while `Get` holds
the mutex across `start`.

`Auth` holds `Build`, the builders of the access types, the checks of the flags,
`SecretRefs` and the fingerprint as operators from an access block and the
Secrets there are to a connection or an error reason. A fingerprint is the set
of what is hashed. A client config has the server, the credentials, the audience
its tokens are minted for (scopes, or the AKS server application), the TLS
settings, the proxy, impersonation and the timeout; `SameAccess` compares what
the fingerprint covers of it. A kubeconfig is a table, the Pod the controller
runs in, the metadata service and the GKE API are a constant (external).

`RemoteAccess` puts `Auth` between the two controllers. `RBuild` and `RProbe` are
the RemoteCluster reconcile around its one remote call; `HandleSecret` is
`mapSecretToClusters` with its invalidation; `XBuild` and `XStart` are
`resolveCluster` with the namespace grant and `Get` before and under the lock.
`stamped` says whether `lastProbeTime` is the current second, on which it depends
whether a probe writes the status and so wakes the CrossServices. The lock, the
finalizer, the consumers and restarts are in `ClientCache` and not repeated.

`MC...` modules give the constants their values. `...Proofs` modules hold the
theorems about a module; `PublishProofs` builds on `SliceWriterProofs`, that and
`SlicePackingProofs` on `SlicePlanProofs`, and `RemoteAccessProofs` also holds what
is proved about `Auth`. Definitions marked "Mutant" are plausible bugs; each
property of a passing run is violated when its mutant replaces the original.

## Runs that pass

| Run | Shows |
|---|---|
| `CrossServiceWatched` | `QuietMeansConverged`: when nothing is queued, running or undelivered, status and slices are right. `ObservedIsHonest`: an invalid spec that has been observed is not Ready. `ExpiredOutageStaysDown`: a failing reconcile with a stale copy does not bring expired endpoints back. |
| `CrossServicePolled` | the same quiescence for a polled source; `EventuallyServed`; `OutageEventuallyApplied`: an outage of a polled source that lasts is acted on once the stale window is closed |
| `SliceWriter` | `QuietMeansWritten`: at rest, every endpoint is on exactly one listed slice of its group. `SyncedKeepsInPlace`: a reconcile with an up-to-date list never takes a lasting endpoint off its only slice. `ImplementsBoard`: every step is a step of `EndpointBoard` or leaves it alone |
| `Publish` | `RestMeansPublished`: when nothing is queued, running or undelivered, Service and slices are what the spec asks for, and their ports go together. `EventuallyPublished`: it comes to that, the writers' own events included. `ForeignSurvives`: node ports, the type, foreign labels and unset policies outlive every write. `PublishImplementsBoard`: the two writers together implement `EndpointBoard` |
| `SlicePacking` | `PlanPresents`, `OneChangeOneWrite`, `PlanRetains` from every layout, for endpoints that come, go and change their condition |
| `SourceWatch` | `QuietMeansFresh`: at rest, what is served is what the source gives now, or a poll is armed: every object a resolver reads is behind an index key. `EventuallyFresh`: after the last change, dropped remote events, failed lookups, mended policies and restarts included, it becomes so for good |
| `ClientCacheShared` | `EventuallyWatched`: every CrossService ends as a counted consumer of a client with the current credentials. `EventuallyReleased`: clients of no CrossService stop. `CountIsHonest`: the stored consumer count becomes right. `ImplementsPool`: every step of the cache is a step of `ClientPool` or leaves it alone |
| `RemoteAccess` | `SettledMeansJudged`: at rest the status is the verdict on the current spec and Secrets. `FingerprintTells`: a client whose fingerprint matches has the server, credentials, CA, server name and proxy a new one would have. `EventuallyAttached`: a granted CrossService ends with a client that is the current one in these, another one says denied |

## Runs that find a disagreement

Each states what a comment, a document or a test says; TLC shows the code doing
otherwise. The quotes are under `findings` in `PROJECT.json`.

| Run | What happens |
|---|---|
| `CrossServiceBlip` | A failed reconcile reads a cached status older than the last success and shrinks the slices below the failure threshold. |
| `SourceWatchChained` | A CrossService whose PodIP source is a local Service fronted by another CrossService is not enqueued when that one's slices change. |
| `ClientCacheWedge` | A cluster that stops answering during the informer sync holds the mutex, and every other CrossService stops. |
| `ClientCacheFinalize` | A Get in flight starts a client for a RemoteCluster that has just been finalized. |

More were met while modelling and are recorded as hazards: the cut of
`ToPersisted` shrinks the slices on a first failure; the status write of a
failed reconcile triggers the next one at once, so the failure threshold is
crossed without time passing; a source that never resolved is Ready below the
threshold; an edited `clusterRef` leaves a reference on the old cluster until
the CrossService goes (which is why `EventuallyReleased` and `CountIsHonest`
accept it); the Secrets
of GKE and AKS are not in `SecretRefs`, so that a failed `Build` that waits for
one is not repeated (which is why `RemoteAccess` asks for `Listed`); the
fingerprint leaves out the scopes of Google tokens, the server application of
AKS, `insecureSkipVerify`, impersonation, the timeout, the rate limits and what
the GKE API answers, so an edit of one of these alone leaves the old client
running, although `auth.go:87-88` says of the credentials that it "changes when
any of them change" (which is why `FingerprintTells` and `EventuallyAttached`
compare `SameAccess`; theorem `UnhashedInputs` states it); a plan made from a
stale list can delete the only slice an unchanged endpoint is on (which is why
`SyncedKeepsInPlace` asks for an up-to-date list); a slice that loses its
managed-by label blocks the name of its replacement; and the zone of a Pods
source does not follow the Node's label (which is why `QuietMeansFresh` leaves
it out).

## Bounds

Two addresses are enough for the failure policy, which treats endpoints alike;
`CrossServiceWatched` has a cap of one, so that the cut of `ToPersisted`
happens. The error counter stops at `ErrorCap`, at least the threshold. In the
code it counts on, and so the status of a failed reconcile always differs from
the last one; `writeStatus` keeps that, and the cap does not end the loop of
failing reconciles that wake themselves. `MaxLag` of two or three lets the
cache be one or two versions behind. Slices hold one or two endpoints
(`maxPer`), so that three or four addresses overflow; in `SlicePacking` the
endpoints of the first slices are ready, and their conditions vary from the
first plan on. Edits, swings, faults,
hand edits, rotations, removals and outages have a budget each, named in the
constants, of one or two: every property above needs at most two such events to
be broken by its mutant. `SourceWatch` has one budget of two for everything that
happens outside the controller, a channel of one, and at most two objects of a
kind: a dependency is missed, or a read torn, by one or two changes. Without a
resync period remote events may be lost for good, which the code documents, so
both its properties ask for one.

`Publish` has one address and two specs that differ in every field, because the
packing has runs of its own: what matters is which of the two informers is
behind. `ClientCacheShared` has one cluster, two CrossServices and any two of
eight kinds of change; the runs that need a second cluster, where one blocks the
other, are among those above. `RemoteAccess` has eleven access blocks, two of
which differ in nothing that is hashed, a credential with two values and a key
that does not parse, a CA that may also be missing, one edit and two changes.
Its flags allow insecure TLS and forbid exec plugins, and the cloud answers
always the same, as the fingerprint does not hash its answer.

Deadlock is not checked where the system may come to
rest. `SlicePacking` has it checked.

## Fairness

Weak fairness on the worker, the informer, the timer and the clock: goroutines
of a running process. Nothing is assumed of users, sources or faults.
`SourceWatch` has it per event kind, as each informer has its own goroutine, and
on the reader of the channel.
`ClientCache` adds strong fairness on taking a given key, because work queues
are first in, first out, and on the Secret handler, which waits for the mutex
(Go's mutex does not starve a waiter). `RemoteAccess` needs no more than weak fairness, of the
workers, the informers and the probe timer, and that outages end. `HealSpec` also assumes that every outage
of a remote cluster ends; `ClientCacheWedge` shows what happens when it does
not.

## Proofs

Every theorem holds for any value of the constants that satisfies the named
`ASSUME`s of the modules; TLC evaluates those on the instances of the runs. An
invariant the runs check is seldom inductive: the strengthenings below were
tried with TLC on the runs' instances before they were proved.

| Theorem | States |
|---|---|
| `CrossServiceProofs`: `TypeCorrect`, `StatusHonest`, `NoLostWakeup`, `OutageStaysDown` | `TypeOK`, `ObservedIsHonest`, `QuietMeansConverged`, `ExpiredOutageStaysDown` |
| `SlicePlanProofs`: `PlanIsRight` | a plan presents the list from any finite set of slices, and every slice it finds is written or deleted, never both |
| `SlicePlanProofs`: `PlanKeeps` | a slice within the limit keeps every wanted endpoint that no earlier slice carries |
| `SlicePackingProofs`: `PackingPresents`, `PackingRetains`, `PackingWritesOnce` | `PlanPresents`, `PlanRetains`, `OneChangeOneWrite` |
| `SliceWriterProofs`: `WriterTypeCorrect`, `WriterMakesGood`, `WriterKeepsInPlace`, `WriterIsBoard` | `TypeOK`, `QuietMeansWritten`, `SyncedKeepsInPlace` of `SliceWriter`, and that it implements `EndpointBoard` |
| `PublishProofs`: `PublishTypeCorrect`, `RestIsPublished`, `ForeignIsKept`, `PublishIsBoard` | `PublishTypeOK`, `RestMeansPublished`, `ForeignSurvives`, and that `Publish` implements `EndpointBoard` |
| `SourceWatchProofs`: `TypeCorrect`, `NothingMissed` | `TypeOK`, `QuietMeansFresh` |
| `SourceWatchProofs`: `ResolveReads` | what a resolver returns depends only on the objects listed for its source type |
| `SourceWatchProofs`: `OutcomeIsDetermined` | a reconcile hands on the permitted resolved addresses, each once, ready if and only if a resolved endpoint with that address is, whatever the order of the list |
| `ClientCacheProofs`: `TypeCorrect`, `CacheIsPool` | `TypeOK`, and that `ClientCache` implements `ClientPool` |
| `RemoteAccessProofs`: `BuildReads` | `Build` depends on no Secret that `SecretRefs` leaves out, for the access blocks it is complete for (`Listed`) |
| `RemoteAccessProofs`: `FingerprintIdentifies` | two successful Builds with one fingerprint have the same server, credentials, CA, server name and proxy |
| `RemoteAccessProofs`: `UnhashedInputs` | two successful Builds have one fingerprint if the access blocks differ only in the scopes or the server application, `insecureSkipVerify`, impersonation and the timeout |
| `RemoteAccessProofs`: `TypeCorrect`, `StatusIsVerdict`, `ReuseIsSafe` | `TypeOK`, `SettledMeansJudged`, `FingerprintTells` |

**CrossService.** `IInv` adds what ties the worker to the object: a worker whose
copy is `current` holds the stored version (`CurrentInv`), otherwise an event is
on its way or the key is queued (`OutdatedInv`); what each `pc` knows about
resolution and state, and that slices just written are the decided ones unless
the key is queued again (`WorkerInv`); that a worker undisturbed since its reads is
about to write what the source says (`UndisturbedInv`); how the versions in
flight differ (`LagInv`); and that a stale status stays stale until a success
(`StaleInv`). `InvInit`, `InvStep` (one step per action) and `ExpiredStep` are
combined by PTL.

**The plan.** There is no induction over the slices. A pass is a recursive
function along the name order; `PassTakes` shows that it satisfies its equation
by taking a largest initial segment of the names on which there is a solution
and extending it by the first name that is left. The passes give no endpoint to
two slices (`PassShares`, `FilledShares`) and the chunks partition what is left
(`ChunkShares`), so each endpoint is on exactly one slice or in one chunk; and
the k-th free number of a family exists and is different for different k
(`NumberIsFree`, `FreshNamesDiffer`), so no chunk lands on a slice that is there.

**One change, one write.** `PackingWritesOnce` follows from `PlanIsRight` and
`PlanKeeps` alone. From slices that present the earlier list, every endpoint of
both lists stays on its slice and is on no other (`PlanKeepsAll`). So a slice
that neither held nor gets the endpoint that changed holds what it held, and is
equal to what is planned (`OthersUntouched`); and that endpoint is in one place
before and after (`OnePlace`). `PackingInv` carries that the list is the one of
the last plan but for one change.

**The writer.** `QuietMeansWritten` needs to know what a half-done plan still
owes. `Rest` says it: while nothing is queued and no version is on its way
(`Calm`), the plan was made from the slices that are there, and every slice it
has gone through needed no write. A write of its own ends `Calm`, since it makes
a version whose event enqueues. So a plan that reaches its end in calm changed
nothing, and by `PlanIsRight` what is there presents the list.

`SyncedKeepsInPlace` is about plans that do write, so it has an invariant of its
own, `KeepInv`. `Synced` says what is on the server while a plan made from an
up-to-date list is carried out: what has been gone through is there as planned,
and what has not is there as found. `Orderly` says that every version ever
written is within the limit and holds a lasting endpoint under its one group,
which is what `PlanKeeps` asks of a slice. With them, an Update takes a lasting
endpoint off a slice only if an earlier slice had it (`UpdateInPlace`), and an
orphan goes only when all that is wanted of it was written (`DeleteInPlace`).

**The board.** `WriterIsBoard` uses `WriterInv` and nothing stronger. `PlanShows`
turns `PlanIsRight` into what the board needs: the plan's slices together hold
exactly the resolved endpoints. Creating or updating the slice of one name adds
to what is shown only what that slice of the plan holds (`PutShows`,
`WriteShows`), and deleting one adds nothing (`DropShows`); `HandShows` is the
same for edits by hand. That a step into rest is allowed is `QuietMeansWritten` in
the next state, by `PresentsShows`. In `PublishIsBoard` the reconcile takes its
endpoints when it passes the Service, where `job` is `resolved`.

**Service and slices.** `SlicesInv` is the writer's invariant with the endpoints
the reconcile has taken along (`job`), which are the resolved ones unless another
reconcile is due. `ServiceInv` says that unless one is due, the cached Service is
one the merge would not change (`Settled`) or the next event wakes the
controller. A Service that is not owned wakes nobody, so this needs the third
conjunct: a version after a deletion is the controller's own. `SettledIs` turns
a merge without effect into what the template asks for, and `UpdateKeeps` shows
what an Update cannot lose, given that the API server's copy is `Complete`: the
merge carries over only what was filled in.

**Watches.** `NothingMissed` assumes `Unchained`: no slice that a source reads
belongs to another CrossService, the case `SourceWatchChained` refutes. `IInv`
says that while no relevant event is on its way, a running reconcile's first
reads still hold (`ReadsHold`) and, at rest, what is served is what the cluster
gives (`LocalFresh`); `ResyncArmed` is the part for remote sources.
`ResolveReads` is what the index rests on: two clusters that agree on
what is listed for a source type (`Agree`) resolve alike, and
`UnkeyedPlaysNoPart` compares that list with `localSourceRefKeys`. `OutcomeIsDetermined` says how much
of an outcome is left open by the order in which a list arrives: which of several
endpoints with one address gives its ports and its zone, and no more.

**Client cache.** `WorkerInv` records what the workers know about the objects
they hold; `PoolStep` maps each action to one of `ClientPool` or to a stutter.

**Remote access.** `FingerprintIdentifies` and `ReuseIsSafe` hold for every
setting of the flags and one constant cloud, because the fingerprint does not
hash what the GKE API answers. They conclude `SameAccess` and no more, and
`UnhashedInputs` shows that no more follows: on the rest of an access block the
fingerprint does not depend. `Provenance` says that every client comes from a Build, which reduces
`FingerprintTells` to the first theorem. `ReadsHold` and `ProbesNow` tie the
reconcile around its probe to the object and the Secrets, and `BuildReads` makes
a Secret that nobody was told of irrelevant to them; `RestsJudged` is
`SettledMeansJudged` without waiting for unrelated events.

Only model-checked is all liveness (`EventuallyServed`, `OutageEventuallyApplied`,
`EventuallyPublished`, `EventuallyFresh`, `EventuallyWatched`,
`EventuallyReleased`, `CountIsHonest`, `EventuallyAttached`): fairness and ENABLED
are out of the prover's reach.

## Not modelled

* Generated deep copies; flag parsing and wiring of the manager, whose effect
  (one worker per controller, no predicates) is built into the modules; the
  provider interface, which only dispatches reads; event and condition wording;
  metrics.
* `validateSpec`: `CrossService` chooses whether a spec is valid, and the sources
  of the other instances are valid ones.
* Conditions other than Ready, Degraded, SourcesResolved and those of a
  RemoteCluster; edits of a source to another one, after which the last-known-good
  list is the old source's.
* A renamed Service, two CrossServices that ask for one Service name, and
  `ipFamilyPolicy` and `clusterIP`, which are set on creation only.
* Token exchanges, the requests that mint tokens, the parsing of kubeconfigs,
  URLs, addresses and CIDRs, and a cloud whose answer changes.
* The reasons for which `checkNamespaceAllowed` refuses: an invalid selector and
  a failing read of the namespace end the reconcile as a plain refusal does.
* The resync timer in `RemoteAccess`, which a spec may switch off; `SourceWatch`
  has it.

Where a hazard in `PROJECT.json` has no property, its note says why.
