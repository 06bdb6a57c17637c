----------------------------- MODULE SliceWriter -----------------------------
(***************************************************************************)
(* Writer.Reconcile of internal/endpoints/slice.go: the EndpointSlices of  *)
(* one CrossService, written one API call at a time from what the informer *)
(* cache lists, while the source, other writers and the process change.    *)
(***************************************************************************)
EXTENDS SlicePlan, Sequences

CONSTANTS
    Results,     \* resolved lists the source may give
    Stable,      \* addresses every result holds, with one port tuple
    MaxLag,      \* bound: versions the informer may be behind, plus one
    MaxSwings,   \* bound: changes of the source
    MaxFaults,   \* bound: API errors and restarts
    Hands,       \* what people do to slices: "delete", "relabel"
    MaxHands     \* bound: how often

ASSUME ResultsAssumption ==
    /\ Results \subseteq Resolved
    /\ \A r1, r2 \in Results : \A a \in Stable :
          a \in Reachable(r1) /\ r1[a].ports = r2[a].ports

VARIABLES
    resolved,    \* what the reconcile resolves to now
    history,     \* slice maps: Head is cached, Last is the server's
    queued,      \* the CrossService is queued
    pc,          \* "idle", "writing"
    existing,    \* what list returned
    plan,        \* what is left of the plan
    outdated,    \* names written since the version list returned
    swings, faults, hands

vars == <<resolved, history, queued, pc, existing, plan, outdated, swings, faults, hands>>

NoSlices == [n \in {} |-> {}]

NoPlan == [write |-> NoSlices, foreign |-> {}, emptied |-> {}]

(* A version of the API server's slices, and the name last written. *)
Server == history[Len(history)].slices

Listed(slices) ==
    [n \in {m \in DOMAIN slices : slices[m].listed} |-> slices[n]]

Init ==
    /\ resolved \in Results
    /\ history = <<[slices |-> NoSlices, name |-> <<>>]>>
    /\ queued = TRUE
    /\ pc = "idle"
    /\ existing = NoSlices
    /\ plan = NoPlan
    /\ outdated = {}
    /\ swings = 0
    /\ faults = 0
    /\ hands = 0

-----------------------------------------------------------------------------

Commit(slices, name) ==
    /\ Len(history) < MaxLag
    /\ history' = Append(history, [slices |-> slices, name |-> name])

Put(n, slice) == Commit([m \in DOMAIN Server \cup {n} |-> IF m = n THEN slice ELSE Server[m]], n)

Drop(n) == Commit([m \in DOMAIN Server \ {n} |-> Server[m]], n)

Finish ==
    /\ pc' = "idle"
    /\ existing' = NoSlices
    /\ plan' = NoPlan
    /\ outdated' = {}

(* list and planSlices, for the endpoints of r, from the cached slices. *)
Plan(r) ==
    /\ pc' = "writing"
    /\ LET listed == Listed(Head(history).slices)
       IN  /\ existing' = listed
           /\ plan' = planSlices(listed, r)
    /\ outdated' = {history[i].name : i \in 2 .. Len(history)}

(* Reconcile resolves, lists and plans. *)
List ==
    /\ pc = "idle"
    /\ queued
    /\ queued' = FALSE
    /\ Plan(resolved)
    /\ UNCHANGED <<resolved, history, swings, faults, hands>>

FirstName(S) == CHOOSE n \in S : \A m \in S : m = n \/ Before(n, m)

NextName == FirstName(DOMAIN plan.write)

(* Orphans of no wanted group in name order, then the emptied ones, group  *)
(* by group.                                                               *)
NextOrphan ==
    LET key(n) == <<existing[n].group.family, existing[n].group.ports>>
    IN  IF plan.foreign # {} THEN FirstName(plan.foreign)
        ELSE FirstName({n \in plan.emptied :
                          \A m \in plan.emptied : key(m) = key(n) \/ Before(key(n), key(m))})

Written(n) == plan' = [plan EXCEPT !.write = [m \in DOMAIN plan.write \ {n} |-> plan.write[m]]]

(* Mutant: the error is swallowed. *)
RefusedSilently ==
    /\ UNCHANGED <<queued, history>>
    /\ Finish

(* An API call refuses: the reconcile returns the error and comes back. *)
Refused ==
    /\ queued' = TRUE
    /\ UNCHANGED history
    /\ Finish

(* The next slice of the plan has no existing object. *)
Create ==
    /\ pc = "writing"
    /\ DOMAIN plan.write # {}
    /\ NextName \notin DOMAIN existing
    /\ IF NextName \in DOMAIN Server
       THEN Refused
       ELSE /\ Put(NextName, plan.write[NextName])
            /\ Written(NextName)
            /\ UNCHANGED <<queued, pc, existing, outdated>>
    /\ UNCHANGED <<resolved, swings, faults, hands>>

(* sliceEqual: nothing is sent. *)
Keep ==
    /\ pc = "writing"
    /\ DOMAIN plan.write # {}
    /\ NextName \in DOMAIN existing
    /\ plan.write[NextName] = existing[NextName]
    /\ Written(NextName)
    /\ UNCHANGED <<resolved, history, queued, pc, existing, outdated, swings, faults, hands>>

(* An Update carries the resourceVersion that was listed. *)
Update ==
    /\ pc = "writing"
    /\ DOMAIN plan.write # {}
    /\ NextName \in DOMAIN existing
    /\ plan.write[NextName] # existing[NextName]
    /\ IF NextName \in outdated
       THEN Refused
       ELSE /\ Put(NextName, plan.write[NextName])
            /\ Written(NextName)
            /\ UNCHANGED <<queued, pc, existing, outdated>>
    /\ UNCHANGED <<resolved, swings, faults, hands>>

(* Orphans go last; Delete has no precondition, and NotFound is fine. *)
Delete ==
    /\ pc = "writing"
    /\ DOMAIN plan.write = {}
    /\ plan.foreign \cup plan.emptied # {}
    /\ IF NextOrphan \in DOMAIN Server THEN Drop(NextOrphan) ELSE UNCHANGED history
    /\ plan' = [plan EXCEPT !.foreign = @ \ {NextOrphan}, !.emptied = @ \ {NextOrphan}]
    /\ UNCHANGED <<resolved, queued, pc, existing, outdated, swings, faults, hands>>

Done ==
    /\ pc = "writing"
    /\ plan = NoPlan
    /\ Finish
    /\ UNCHANGED <<resolved, history, queued, swings, faults, hands>>

-----------------------------------------------------------------------------

(* Mutant: the controller does not watch the slices it owns. *)
DeliverUnnoticed ==
    /\ Len(history) > 1
    /\ history' = Tail(history)
    /\ UNCHANGED <<resolved, queued, pc, existing, plan, outdated, swings, faults, hands>>

(* The informer delivers the next version; an owned slice enqueues. *)
Deliver ==
    /\ Len(history) > 1
    /\ history' = Tail(history)
    /\ queued' = TRUE
    /\ UNCHANGED <<resolved, pc, existing, plan, outdated, swings, faults, hands>>

(* The source changes, which is watched. *)
Swing ==
    /\ swings < MaxSwings
    /\ swings' = swings + 1
    /\ \E r \in Results : r # resolved /\ resolved' = r
    /\ queued' = TRUE
    /\ UNCHANGED <<history, pc, existing, plan, outdated, faults, hands>>

(* An API call fails with nothing written, and the error is retried. *)
Fail ==
    /\ pc = "writing"
    /\ faults < MaxFaults
    /\ faults' = faults + 1
    /\ Refused
    /\ UNCHANGED <<resolved, swings, hands>>

(* The process restarts: the informer relists, every object is enqueued. *)
Restart ==
    /\ faults < MaxFaults
    /\ faults' = faults + 1
    /\ history' = <<history[Len(history)]>>
    /\ queued' = TRUE
    /\ Finish
    /\ UNCHANGED <<resolved, swings, hands>>

(* Somebody deletes a slice, or takes the managed-by label off it. *)
HandDelete ==
    /\ "delete" \in Hands
    /\ hands < MaxHands
    /\ hands' = hands + 1
    /\ \E n \in DOMAIN Server : Drop(n) /\ outdated' = outdated \cup {n}
    /\ UNCHANGED <<resolved, queued, pc, existing, plan, swings, faults>>

HandRelabel ==
    /\ "relabel" \in Hands
    /\ hands < MaxHands
    /\ hands' = hands + 1
    /\ \E n \in DOMAIN Server :
          /\ Put(n, [Server[n] EXCEPT !.listed = FALSE])
          /\ outdated' = outdated \cup {n}
    /\ UNCHANGED <<resolved, queued, pc, existing, plan, swings, faults>>

Write == List \/ Create \/ Keep \/ Update \/ Delete \/ Done

Next == Write \/ Deliver \/ Swing \/ Fail \/ Restart \/ HandDelete \/ HandRelabel

Spec == Init /\ [][Next]_vars

-----------------------------------------------------------------------------
(* Properties. *)

(* Every variable has its type. *)
TypeOK ==
    /\ resolved \in Results
    /\ history # <<>>
    /\ \A i \in DOMAIN history : \A n \in DOMAIN history[i].slices :
          n \in Name /\ history[i].slices[n] \in Slice
    /\ queued \in BOOLEAN
    /\ pc \in {"idle", "writing"}
    /\ \A n \in DOMAIN existing : existing[n] \in Slice
    /\ DOMAIN plan.write \cap (plan.foreign \cup plan.emptied) = {}

Quiet == pc = "idle" /\ ~queued /\ Len(history) = 1

(* When nothing is queued, running or on its way, the slices that carry    *)
(* the writer's labels present the resolved endpoints: stale lists, refused*)
(* writes and half-done plans are all followed by another reconcile that   *)
(* sees them.                                                              *)
QuietMeansWritten == Quiet => Presents(Listed(Server), resolved)

(* a is on slice n and stays there, or another slice holds it already. *)
InPlace(a, n) ==
    a \in DOMAIN Server[n].eps =>
        \/ n \in DOMAIN Server' /\ a \in DOMAIN Server'[n].eps
        \/ \E m \in DOMAIN Server \ {n} : a \in DOMAIN Server[m].eps

(* A reconcile whose list was up to date takes no endpoint that never      *)
(* leaves the source off the slice it is on, unless another slice holds it *)
(* already (I12): not by packing, not by an abort between two writes, and  *)
(* not when it cleans up what reconciles with stale lists left behind.     *)
SyncedKeepsInPlace ==
    [][hands' = hands /\ outdated = {} =>
        \A a \in Stable : \A n \in DOMAIN Server : InPlace(a, n)]_vars

(* The endpoints on slices, and those of a resolved list, each with its    *)
(* condition and the family and ports of its slice.                        *)
Endpoint == [addr : Addresses, cond : Conditions, group : Group]

ShownBy(slice) ==
    {[addr |-> a, cond |-> slice.eps[a], group |-> slice.group] : a \in DOMAIN slice.eps}

OnSlices(slices) == UNION {ShownBy(slices[n]) : n \in DOMAIN slices}

ToShow(r) == {[addr |-> a, cond |-> r[a].cond, group |-> GroupKey(r, a)] : a \in Reachable(r)}

Board == INSTANCE EndpointBoard WITH
    Endpoints <- Endpoint,
    shown <- OnSlices(Listed(Server)),
    wanted <- ToShow(resolved),
    taken <- OnSlices(plan.write),
    due <- ~Quiet

(* The writer implements the abstract board: whatever list it plans from,  *)
(* it puts nothing on a slice but an endpoint, with its condition and its  *)
(* ports, that the reconcile in flight has resolved; a refused call or a   *)
(* restart is followed by another reconcile; and it comes to rest only     *)
(* where the slices show exactly what the source resolves to.              *)
ImplementsBoard == Board!Spec
=============================================================================
