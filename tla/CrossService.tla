----------------------------- MODULE CrossService -----------------------------
(***************************************************************************)
(* internal/controller/crossservice_controller.go: the reconcile loop of   *)
(* one CrossService against the API server, its informer cache, its work   *)
(* queue and its source.                                                   *)
(*                                                                         *)
(* The controller runs one worker, so at most one reconcile of the object  *)
(* is in flight; everything else (users, the informer, the source, the     *)
(* clock, a process restart) interleaves with its steps.  The EndpointSlice*)
(* writer appears here as one write of the endpoint set, which may stop    *)
(* half-way or work from a list that lags; module SliceWriter models it    *)
(* slice by slice.                                                         *)
(***************************************************************************)
EXTENDS FailurePolicy, Sequences

CONSTANTS
    Answers,     \* endpoint lists the source may resolve to, after filtering
    Watched,     \* TRUE: a change of the source enqueues the CrossService
    Polled,      \* TRUE: a finished reconcile asks for RequeueAfter
    MaxNow,      \* bound: how far the clock runs
    MaxLag,      \* bound: versions the informer may be behind, plus one
    MaxEdits,    \* bound: user edits of the CrossService
    MaxSwings,   \* bound: changes of the source and of the cluster grant
    MaxFaults    \* bound: API errors, restarts and slice lists that lag

VARIABLES
    now,         \* r.now()
    source,      \* what a Resolve would return
    granted,     \* does resolveCluster succeed
    versions,    \* CrossService versions: Head is cached, Last is stored
    served,      \* endpoints written in the object's EndpointSlices
    queued,      \* the work queue holds the key
    timer,       \* a delayed add (RequeueAfter) is pending
    pc,          \* progress of the worker
    copy,        \* the version the worker read
    current,     \* copy is still the stored version (its resourceVersion)
    resolution,  \* the outcome of Resolve
    state,       \* what ApplyFailurePolicy decided
    edits, swings, faults

worker == <<pc, copy, current, resolution, state>>
budget == <<edits, swings, faults>>
vars == <<now, source, granted, versions, served, queued, timer, worker, budget>>

ConditionStatus == {"Unset", "True", "False"}

ObjectSpec == [generation : Nat, valid : BOOLEAN]

ObjectStatus == [observedGeneration : Nat, source : SourceStatus,
                 ready : ConditionStatus, degraded : ConditionStatus,
                 resolved : ConditionStatus, readyEndpoints : Nat, totalEndpoints : Nat]

Object == [spec : ObjectSpec, status : ObjectStatus]

NewObject == [spec   |-> [generation |-> 1, valid |-> TRUE],
              status |-> [observedGeneration |-> 0, source |-> NoSource,
                          ready |-> "Unset", degraded |-> "Unset",
                          resolved |-> "Unset",
                          readyEndpoints |-> 0, totalEndpoints |-> 0]]

Up(eps) == [ok |-> TRUE, endpoints |-> eps]

Down == [ok |-> FALSE, endpoints |-> NoEndpoints]

Outcomes == {Up(eps) : eps \in Answers} \cup {Down}

ASSUME SetupAssumption ==
    /\ Answers \subseteq EndpointSet
    /\ Watched \in BOOLEAN
    /\ Polled \in BOOLEAN

ASSUME BudgetAssumption ==
    /\ MaxNow \in Nat /\ MaxLag \in Nat /\ MaxEdits \in Nat
    /\ MaxSwings \in Nat /\ MaxFaults \in Nat

Cached == Head(versions)

Stored == versions[Len(versions)]

-----------------------------------------------------------------------------

Init ==
    /\ now = 0
    /\ source \in Outcomes
    /\ granted \in BOOLEAN
    /\ versions = <<NewObject>>
    /\ served = NoEndpoints
    /\ queued = TRUE
    /\ timer = FALSE
    /\ pc = "idle"
    /\ copy = NewObject
    /\ current = FALSE
    /\ resolution = Down
    /\ state = [endpoints |-> NoEndpoints, stale |-> FALSE, degraded |-> FALSE, errors |-> 0]
    /\ edits = 0
    /\ swings = 0
    /\ faults = 0

(* The next version of the object reaches the API server. *)
Store(object) == versions' = Append(versions, object)

(* The worker is done; what it held is dropped. *)
Finish ==
    /\ pc' = "idle"
    /\ copy' = NewObject
    /\ current' = FALSE
    /\ resolution' = Down
    /\ state' = [endpoints |-> NoEndpoints, stale |-> FALSE, degraded |-> FALSE, errors |-> 0]

(* Mutant: a conflict is retried on the object just fetched. *)
writeStatusRetry(status) ==
    IF status # copy.status
    THEN /\ Len(versions) < MaxLag
         /\ Store([Stored EXCEPT !.status =
                      [status EXCEPT !.observedGeneration = Stored.spec.generation]])
    ELSE UNCHANGED versions

(* writeStatus: an equal status is not sent, and a conflict is swallowed.  *)
(* A failed resolution always differs, as it counts one more error, also   *)
(* where the model's count stands still at its cap: every reconcile that   *)
(* fails writes, and its own write brings the key back.                    *)
writeStatus(status) ==
    LET changed == status # copy.status \/ (pc = "written" /\ ~resolution.ok)
    IN  IF changed /\ current
        THEN /\ Len(versions) < MaxLag
             /\ Store([copy EXCEPT !.status = status])
        ELSE UNCHANGED versions

-----------------------------------------------------------------------------
(* Reconcile. *)

(* The worker takes the key off the queue and reads the informer cache. *)
Get ==
    /\ pc = "idle"
    /\ queued
    /\ queued' = FALSE
    /\ pc' = "got"
    /\ copy' = Cached
    /\ current' = (Len(versions) = 1)
    /\ UNCHANGED <<now, source, granted, versions, served, timer, resolution, state, budget>>

(* validateSpec refuses: report, leave the slices alone, do not requeue. *)
RejectSpec ==
    /\ pc = "got"
    /\ ~copy.spec.valid
    /\ writeStatus([copy.status EXCEPT !.observedGeneration = copy.spec.generation,
                                       !.ready = "False"])
    /\ Finish
    /\ UNCHANGED <<now, source, granted, served, queued, timer, budget>>

(* resolveCluster refuses: the same, with SourcesResolved. *)
RefuseCluster ==
    /\ pc = "got"
    /\ copy.spec.valid
    /\ ~granted
    /\ writeStatus([copy.status EXCEPT !.observedGeneration = copy.spec.generation,
                                       !.ready = "False", !.resolved = "False"])
    /\ Finish
    /\ UNCHANGED <<now, source, granted, served, queued, timer, budget>>

Resolve ==
    /\ pc = "got"
    /\ copy.spec.valid
    /\ granted
    /\ resolution' = source
    /\ pc' = "resolved"
    /\ UNCHANGED <<now, source, granted, versions, served, queued, timer,
                   copy, current, state, budget>>

(* ApplyFailurePolicy, then the Service is reconciled. *)
ApplyPolicy ==
    /\ pc = "resolved"
    /\ state' = ApplyFailurePolicy(copy.status.source, resolution, now)
    /\ pc' = "serviced"
    /\ UNCHANGED <<now, source, granted, versions, served, queued, timer,
                   copy, current, resolution, budget>>

(* Slices that are half written, or planned from a list that lags: every   *)
(* address is as it was, as it is to be, or on none.                       *)
Mixtures(old, new) ==
    {m \in EndpointSet :
        \A a \in DOMAIN m : \/ a \in DOMAIN old /\ m[a] = old[a]
                            \/ a \in DOMAIN new /\ m[a] = new[a]}

(* An owned EndpointSlice that changes enqueues its CrossService.  Writing *)
(* may end well with the wrong slices only if an earlier write was not in  *)
(* the list, whose event is then still to come (module SliceWriter).       *)
WriteSlices ==
    /\ pc = "serviced"
    /\ \/ /\ served' = state.endpoints
          /\ queued' = (queued \/ served' # served)
          /\ UNCHANGED faults
       \/ /\ faults < MaxFaults
          /\ faults' = faults + 1
          /\ served' \in Mixtures(served, state.endpoints)
          /\ queued' = TRUE
    /\ pc' = "written"
    /\ UNCHANGED <<now, source, granted, versions, timer,
                   copy, current, resolution, state, edits, swings>>

(* Mutant: every failure is reported as stale, below the threshold too. *)
sourceStatusHasty(persisted) ==
    IF resolution.ok
    THEN [lastSuccess |-> now, lkg |-> persisted, errors |-> 0, stale |-> FALSE]
    ELSE [copy.status.source EXCEPT !.errors = state.errors, !.stale = TRUE]

(* The status.source that applyStatus fills in: a failure keeps the last   *)
(* success and what it gave.                                               *)
sourceStatus(persisted) ==
    IF resolution.ok
    THEN [lastSuccess |-> now, lkg |-> persisted, errors |-> 0, stale |-> FALSE]
    ELSE [copy.status.source EXCEPT !.errors = state.errors, !.stale = state.stale]

applyStatus(persisted) ==
    LET failed == ~resolution.ok
        total  == Cardinality(DOMAIN state.endpoints)
    IN  [observedGeneration |-> copy.spec.generation,
         source         |-> sourceStatus(persisted),
         ready          |-> IF state.degraded \/ (~failed /\ total = 0)
                            THEN "False" ELSE "True",
         degraded       |-> IF state.degraded THEN "True" ELSE "False",
         resolved       |-> IF failed THEN "False" ELSE "True",
         readyEndpoints |-> Cardinality(ReadyAddrs(state.endpoints)),
         totalEndpoints |-> total]

(* Mutant: no RequeueAfter. *)
WriteStatusOnly ==
    /\ pc = "written"
    /\ \E persisted \in ToPersisted(resolution.endpoints) : writeStatus(applyStatus(persisted))
    /\ Finish
    /\ UNCHANGED <<now, source, granted, served, queued, timer, budget>>

(* The reconcile ends with the status write and its RequeueAfter. *)
WriteStatus ==
    /\ pc = "written"
    /\ \E persisted \in ToPersisted(resolution.endpoints) : writeStatus(applyStatus(persisted))
    /\ timer' = (timer \/ Polled)
    /\ Finish
    /\ UNCHANGED <<now, source, granted, served, queued, budget>>

(* An API call of the reconcile fails: it returns the error and the key    *)
(* comes back rate limited.  A failing slice write may have written some   *)
(* of the slices.                                                          *)
Fail ==
    /\ pc \in {"got", "resolved", "serviced", "written"}
    /\ faults < MaxFaults
    /\ faults' = faults + 1
    /\ \/ pc = "serviced" /\ served' \in Mixtures(served, state.endpoints)
       \/ UNCHANGED served
    /\ queued' = TRUE
    /\ Finish
    /\ UNCHANGED <<now, source, granted, versions, timer, edits, swings>>

-----------------------------------------------------------------------------
(* Everything around the reconcile. *)

(* Mutant: a GenerationChangedPredicate drops status events. *)
DeliverSpecOnly ==
    /\ Len(versions) > 1
    /\ versions' = Tail(versions)
    /\ queued' = (queued \/ versions[2].spec # versions[1].spec)
    /\ UNCHANGED <<now, source, granted, served, timer, worker, budget>>

(* The informer delivers the next version; For() enqueues on every event. *)
Deliver ==
    /\ Len(versions) > 1
    /\ versions' = Tail(versions)
    /\ queued' = TRUE
    /\ UNCHANGED <<now, source, granted, served, timer, worker, budget>>

(* A user edits the spec. *)
Edit ==
    /\ edits < MaxEdits
    /\ Len(versions) < MaxLag
    /\ edits' = edits + 1
    /\ \E valid \in BOOLEAN :
          Store([Stored EXCEPT !.spec = [generation |-> Stored.spec.generation + 1,
                                         valid |-> valid]])
    /\ current' = FALSE
    /\ UNCHANGED <<now, source, granted, served, queued, timer,
                   pc, copy, resolution, state, swings, faults>>

(* The source answers differently, or stops or resumes answering. *)
SourceSwing ==
    /\ swings < MaxSwings
    /\ swings' = swings + 1
    /\ \E answer \in Outcomes : answer # source /\ source' = answer
    /\ queued' = (queued \/ Watched)
    /\ UNCHANGED <<now, granted, versions, served, timer, worker, edits, faults>>

(* The RemoteCluster appears, goes, or changes its grant (mapRemoteCluster). *)
GrantSwing ==
    /\ swings < MaxSwings
    /\ swings' = swings + 1
    /\ granted' = ~granted
    /\ queued' = TRUE
    /\ UNCHANGED <<now, source, versions, served, timer, worker, edits, faults>>

TimerFires ==
    /\ timer
    /\ timer' = FALSE
    /\ queued' = TRUE
    /\ UNCHANGED <<now, source, granted, versions, served, worker, budget>>

Tick ==
    /\ now < MaxNow
    /\ now' = now + 1
    /\ UNCHANGED <<source, granted, versions, served, queued, timer, worker, budget>>

(* The controller dies and restarts: the informer relists and enqueues.    *)
Restart ==
    /\ faults < MaxFaults
    /\ faults' = faults + 1
    /\ versions' = <<Stored>>
    /\ queued' = TRUE
    /\ timer' = FALSE
    /\ Finish
    /\ UNCHANGED <<now, source, granted, served, edits, swings>>

Reconcile == Get \/ RejectSpec \/ RefuseCluster \/ Resolve \/ ApplyPolicy
                 \/ WriteSlices \/ WriteStatus

Next == \/ Reconcile \/ Fail \/ Deliver \/ Edit \/ SourceSwing \/ GrantSwing
        \/ TimerFires \/ Tick \/ Restart

Spec == Init /\ [][Next]_vars

(* The worker, the informer, the delaying queue and the clock keep going;  *)
(* users, the source and faults owe nothing.                               *)
Fairness == /\ WF_vars(Reconcile)
            /\ WF_vars(Deliver)
            /\ WF_vars(TimerFires)
            /\ WF_vars(Tick)

FairSpec == Spec /\ Fairness

-----------------------------------------------------------------------------
(* Properties. *)

(* Every variable has its type, and the worker's progress is one the code has. *)
TypeOK ==
    /\ now \in Nat
    /\ source \in Resolution
    /\ granted \in BOOLEAN
    /\ versions \in Seq(Object) /\ versions # <<>>
    /\ served \in EndpointSet
    /\ queued \in BOOLEAN
    /\ timer \in BOOLEAN
    /\ pc \in {"idle", "got", "resolved", "serviced", "written"}
    /\ copy \in Object
    /\ current \in BOOLEAN
    /\ resolution \in Resolution
    /\ state \in FailureState
    /\ edits \in Nat /\ swings \in Nat /\ faults \in Nat

Eligible == Stored.spec.valid /\ granted

Quiet == pc = "idle" /\ ~queued /\ Len(versions) = 1

(* No lost wakeup.  When nothing is queued, in flight or on its way to the *)
(* informer, the stored status is about the stored spec; a refused object  *)
(* says so; a watched source that resolves is what the slices hold and what*)
(* the status counts and remembers; and a polled one has its next poll     *)
(* armed.  (writeStatus swallows conflicts, and two returns do not requeue.)*)
QuietMeansConverged ==
    Quiet =>
        LET status == Stored.status
        IN  /\ status.observedGeneration = Stored.spec.generation
            /\ ~Eligible => status.ready = "False"
            /\ Eligible /\ Watched /\ source.ok =>
                  /\ served = source.endpoints
                  /\ status.totalEndpoints = Cardinality(DOMAIN served)
                  /\ status.readyEndpoints = Cardinality(ReadyAddrs(served))
                  /\ status.source.lkg \in ToPersisted(served)
                  /\ status.source.errors = 0
                  /\ status.ready = (IF served = NoEndpoints THEN "False" ELSE "True")
            /\ Eligible /\ Polled => timer

(* A status that has observed the current generation of an invalid spec is *)
(* never Ready: a reconcile of an older spec cannot overwrite it, because  *)
(* its status write carries the resourceVersion it read.                   *)
ObservedIsHonest ==
    /\ Stored.status.observedGeneration <= Stored.spec.generation
    /\ ~Stored.spec.valid /\ Stored.status.observedGeneration = Stored.spec.generation
          => Stored.status.ready = "False"

(* Once the stored status reports an outage and its stale window is closed,*)
(* no failing reconcile decides to serve a ready endpoint, although it     *)
(* decides from a cached copy that may lag behind the stored status.       *)
ExpiredOutageStaysDown ==
    [][pc = "resolved" /\ pc' = "serviced" /\ ~resolution.ok
         /\ Stored.status.source.stale /\ ~withinStaleWindow(Stored.status.source, now)
         => ReadyAddrs(state'.endpoints) = {}]_vars

(* A source that resolves for good ends up in the slices for good. *)
EventuallyServed ==
    <>[](Eligible /\ source.ok) => <>[](served = source.endpoints)

(* A polled source that fails for good stops having ready endpoints once   *)
(* the stale window is closed.                                             *)
OutageEventuallyApplied ==
    <>[](Eligible /\ ~source.ok /\ ~withinStaleWindow(Stored.status.source, now))
        => <>[](ReadyAddrs(served) = {})

-----------------------------------------------------------------------------
(* What comments of the code say and the code does not do. *)

(* "Below the threshold this is a blip: keep serving" (failure.go:87): the *)
(* slice write of a reconcile that failed below the threshold takes no     *)
(* endpoint away.                                                          *)
BlipKeepsServing ==
    [][pc = "serviced" /\ pc' = "written" /\ ~resolution.ok /\ ~state.degraded
         => DOMAIN served \subseteq DOMAIN served']_vars
=============================================================================
