------------------------------- MODULE Publish -------------------------------
(***************************************************************************)
(* The writing half of a CrossService reconcile: the Service first (module *)
(* ServiceObject), then its EndpointSlices (module SliceWriter), each from *)
(* an informer cache of its own, while the spec, people and the process    *)
(* change.                                                                 *)
(***************************************************************************)
EXTENDS SliceWriter, ServiceObject

CONSTANTS
    Specs,     \* specs the CrossService may have
    Backends,  \* the addresses the source gives
    Found      \* Services that may be there before the CrossService is

VARIABLES
    spec,      \* the spec of the CrossService
    services,  \* versions of the Service: Head is cached, Last the server's
    step,      \* the reconcile is "idle" or past its Service, at "slices"
    job        \* the endpoints it goes on with

published == <<spec, services, step, job>>
allVars == <<vars, published>>

LiveService == services[Len(services)]

(* What the resolver gives for a spec; tuple numbers its backend ports. *)
ResultFor(s) == [a \in Backends |-> [ports |-> s.tuple, cond |-> "ready"]]

ASSUME PublishAssumption ==
    /\ Specs \subseteq SpecType
    /\ \A s \in Specs : ResultFor(s) \in Results
    /\ \A s \in Found \ {NoService} : s \in ServiceType /\ Complete(s)

PublishInit ==
    /\ Init
    /\ spec \in Specs
    /\ resolved = ResultFor(spec)
    /\ services \in {<<s>> : s \in Found}
    /\ step = "idle"
    /\ job = NoSlices

-----------------------------------------------------------------------------

CommitService(service) ==
    /\ Len(services) < MaxLag
    /\ services' = Append(services, service)

(* Past the Service, the reconcile goes on with what it has resolved. *)
ToSlices ==
    /\ queued' = FALSE
    /\ step' = "slices"
    /\ job' = resolved

(* Mutant: the Update carries no resourceVersion. *)
ReconcileServiceUnversioned ==
    /\ step = "idle"
    /\ queued
    /\ LET current == Head(services)
           merged == Merge(current, Build(spec))
       IN  /\ IF current = NoService THEN LiveService = NoService /\ CommitService(Defaulted(Build(spec)))
              ELSE IF merged = current THEN UNCHANGED services
              ELSE CommitService(Defaulted(merged))
           /\ ToSlices
    /\ UNCHANGED <<resolved, history, pc, existing, plan, outdated, swings, faults, hands, spec>>

(* Reconciler.Reconcile.  A Create where the cache lags a Service that is  *)
(* there, and an Update from an outdated copy, are refused: the reconcile  *)
(* returns the error, touches no slice and comes back.                     *)
ReconcileService ==
    /\ step = "idle"
    /\ queued
    /\ LET current == Head(services)
           merged == Merge(current, Build(spec))
       IN  \/ /\ current = NoService
              /\ LiveService = NoService
              /\ CommitService(Defaulted(Build(spec)))
              /\ ToSlices
           \/ /\ current = NoService
              /\ LiveService # NoService
              /\ UNCHANGED <<services, queued, step, job>>
           \/ /\ current # NoService
              /\ merged = current
              /\ UNCHANGED services
              /\ ToSlices
           \/ /\ current # NoService
              /\ merged # current
              /\ Len(services) = 1
              /\ CommitService(Defaulted(merged))
              /\ ToSlices
           \/ /\ current # NoService
              /\ merged # current
              /\ Len(services) > 1
              /\ UNCHANGED <<services, queued, step, job>>
    /\ UNCHANGED <<resolved, history, pc, existing, plan, outdated, swings, faults, hands, spec>>

(* Mutant: the reconcile counts as over while its slices are being written. *)
ListSlicesStepless ==
    /\ step = "slices"
    /\ pc = "idle"
    /\ Plan(job)
    /\ step' = "idle"
    /\ UNCHANGED <<resolved, history, queued, swings, faults, hands, spec, services, job>>

(* Writer.Reconcile lists and plans for the Service. *)
ListSlices ==
    /\ step = "slices"
    /\ pc = "idle"
    /\ Plan(job)
    /\ UNCHANGED <<resolved, history, queued, swings, faults, hands, published>>

(* The steps of SliceWriter; the last one, or a refused one, is the end of *)
(* the reconcile.                                                          *)
Resume ==
    /\ step' = IF pc' = "idle" THEN "idle" ELSE step
    /\ job' = IF pc' = "idle" THEN NoSlices ELSE job
    /\ UNCHANGED <<spec, services>>

WriteSlices == (Create \/ Keep \/ Update \/ Delete \/ Done) /\ Resume

-----------------------------------------------------------------------------

DeliverSlices == Deliver /\ UNCHANGED published

IsOwned(service) == service # NoService /\ service.owner = Self

(* The Service informer's next event enqueues the owner the object has, and*)
(* the owner it had.                                                       *)
DeliverService ==
    /\ Len(services) > 1
    /\ services' = Tail(services)
    /\ queued' = (queued \/ IsOwned(services[1]) \/ IsOwned(services[2]))
    /\ UNCHANGED <<resolved, history, pc, existing, plan, outdated, swings, faults, hands,
                   spec, step, job>>

(* An edit of the CrossService; other ports lead to other backend ports. *)
EditSpec ==
    /\ swings < MaxSwings
    /\ swings' = swings + 1
    /\ \E s \in Specs \ {spec} : spec' = s /\ resolved' = ResultFor(s)
    /\ queued' = TRUE
    /\ UNCHANGED <<history, pc, existing, plan, outdated, faults, hands, services, step, job>>

FailSlices == Fail /\ Resume

RestartAll ==
    /\ Restart
    /\ services' = <<LiveService>>
    /\ step' = "idle"
    /\ job' = NoSlices
    /\ UNCHANGED spec

(* Somebody deletes the Service, disowns it, gives it a selector or changes *)
(* its type or policy.                                                     *)
HandService ==
    /\ "service" \in Hands
    /\ hands < MaxHands
    /\ hands' = hands + 1
    /\ LiveService # NoService
    /\ \E s \in {NoService,
                 [LiveService EXCEPT !.owner = "nobody", !.meta = [k \in {"theirs"} |-> "kept"]],
                 [LiveService EXCEPT !.selector = TRUE, !.policy = "Local"],
                 Defaulted([LiveService EXCEPT !.exposed = TRUE])} :
          s # LiveService /\ CommitService(s)
    /\ UNCHANGED <<resolved, history, queued, pc, existing, plan, outdated, swings, faults,
                   spec, step, job>>

HandSlices == HandDelete /\ UNCHANGED published

Reconcile == ReconcileService \/ ListSlices \/ WriteSlices

PublishNext ==
    \/ Reconcile \/ DeliverSlices \/ DeliverService
    \/ EditSpec \/ FailSlices \/ RestartAll \/ HandService \/ HandSlices

PublishSpec == PublishInit /\ [][PublishNext]_allVars

(* The worker and both informers keep going. *)
PublishFairSpec ==
    /\ PublishSpec
    /\ WF_allVars(Reconcile)
    /\ WF_allVars(DeliverSlices)
    /\ WF_allVars(DeliverService)

-----------------------------------------------------------------------------
(* Properties. *)

(* Every variable has its type. *)
PublishTypeOK ==
    /\ TypeOK
    /\ spec \in Specs
    /\ services # <<>>
    /\ \A i \in DOMAIN services :
          services[i] # NoService => services[i] \in ServiceType /\ Complete(services[i])
    /\ step \in {"idle", "slices"}
    /\ pc = "writing" => step = "slices"
    /\ job \in Results \cup {NoSlices}

AtRest == step = "idle" /\ ~queued /\ Len(history) = 1 /\ Len(services) = 1

(* The Service is the CrossService's, without a selector, with the declared *)
(* ports, and otherwise as the template asks.                              *)
Published ==
    /\ IsOwned(LiveService)
    /\ ~LiveService.selector
    /\ [n \in DOMAIN LiveService.ports |-> LiveService.ports[n].port] = spec.ports
    /\ LiveService.publishNotReady = spec.publishNotReady
    /\ spec.policy \in {"", LiveService.policy}
    /\ mergeMap(LiveService.meta, Build(spec).meta) = LiveService.meta
    /\ Presents(Listed(Server), resolved)

(* A manual edit to the Service or a slice, an edit of the spec, a refused  *)
(* write and a restart are all made good: when nothing is queued, running   *)
(* or on its way, the Service is the one the spec asks for, selector-less   *)
(* (I1), and the slices carry the backend ports that go with its ports (I2).*)
RestMeansPublished == AtRest => Published

(* Reconciling comes to an end with the Service and the slices right: what  *)
(* the API server fills in does not differ from what is asked for, and so   *)
(* does not cause one update after another (I7).                            *)
EventuallyPublished == <>[](AtRest /\ Published)

(* What the controller does not own survives its writes, even the ones made *)
(* from an old copy: node ports, target ports, the type, foreign labels,    *)
(* and a policy the template does not set.                                  *)
ForeignSurvives ==
    [][hands' = hands /\ LiveService # NoService /\ LiveService' # NoService =>
        /\ LiveService'.exposed = LiveService.exposed
        /\ \A n \in DOMAIN LiveService.ports \cap DOMAIN LiveService'.ports :
              /\ LiveService'.ports[n].nodePort = LiveService.ports[n].nodePort
              /\ LiveService'.ports[n].targetPort = LiveService.ports[n].targetPort
        /\ \A k \in DOMAIN LiveService.meta \ DOMAIN Build(spec).meta :
              k \in DOMAIN LiveService'.meta /\ LiveService'.meta[k] = LiveService.meta[k]
        /\ LiveService'.policy \in {LiveService.policy, spec.policy}]_allVars

(* What the reconcile in flight has resolved and not written yet. *)
InFlight ==
    IF pc = "writing" THEN OnSlices(plan.write)
    ELSE IF step = "slices" THEN ToShow(job)
    ELSE {}

PublishBoard == INSTANCE EndpointBoard WITH
    Endpoints <- Endpoint,
    shown <- OnSlices(Listed(Server)),
    wanted <- ToShow(resolved),
    taken <- InFlight,
    due <- ~AtRest

(* The two writers together implement the board too: what a reconcile puts *)
(* on the slices is what it had resolved when it passed the Service, even  *)
(* if the spec has changed since; a conflict on either object leads to     *)
(* another reconcile; and the pair comes to rest only where the slices     *)
(* show what the spec now resolves to.                                     *)
PublishImplementsBoard == PublishBoard!Spec
=============================================================================
