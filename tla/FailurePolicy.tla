---------------------------- MODULE FailurePolicy ----------------------------
(***************************************************************************)
(* internal/endpoints/failure.go: what a CrossService serves when its      *)
(* source resolves, and what it serves when it does not.                   *)
(*                                                                         *)
(* An endpoint list with distinct addresses is a function from the         *)
(* addresses to a condition.  "draining" is an endpoint that is serving    *)
(* but not ready; zone, hostname and ports are carried along by the code   *)
(* without being looked at, and are left out.  One unit of time is the     *)
(* resolution of a serialised metav1.Time.                                 *)
(***************************************************************************)
EXTENDS Integers, FiniteSets

CONSTANTS
    Addrs,          \* addresses a source may resolve to
    Policy,         \* spec.failurePolicy, a member of PolicySpec
    MaxPersisted,   \* MaxPersistedEndpoints
    ErrorCap,       \* bound: ConsecutiveErrors is not counted past this
    Nil             \* an absent timestamp or duration

StaleAction == {"Remove", "MarkNotReady"}

(* A nil policy is the record with every field unset. *)
PolicySpec == [failureThreshold : Nat,
               staleThreshold   : Nat \cup {Nil},
               onStale          : StaleAction \cup {""}]

Cond == {"ready", "notReady", "draining"}

EndpointSet == UNION {[S -> Cond] : S \in SUBSET Addrs}

NoEndpoints == [a \in {} |-> "ready"]

(* PersistedEndpoint keeps only Ready of the three conditions. *)
PersistedSet == UNION {[S -> {"ready", "notReady"}] : S \in SUBSET Addrs}

ReadyAddrs(eps) == {a \in DOMAIN eps : eps[a] = "ready"}

(* The part of status.source the policy reads; a nil status is NoSource. *)
SourceStatus == [lastSuccess : Nat \cup {Nil}, lkg : PersistedSet,
                 errors : 0 .. ErrorCap, stale : BOOLEAN]

NoSource == [lastSuccess |-> Nil, lkg |-> NoEndpoints, errors |-> 0, stale |-> FALSE]

FailureState == [endpoints : EndpointSet, stale : BOOLEAN, degraded : BOOLEAN,
                 errors : 0 .. ErrorCap]

Resolution == [ok : BOOLEAN, endpoints : EndpointSet]

-----------------------------------------------------------------------------

(* The defaults of the code: three failures, five minutes, MarkNotReady. *)
FailurePolicyDefaults(p) ==
    [threshold |-> IF p.failureThreshold > 0 THEN p.failureThreshold ELSE 3,
     stale     |-> IF p.staleThreshold # Nil THEN p.staleThreshold ELSE 5,
     onStale   |-> IF p.onStale # "" THEN p.onStale ELSE "MarkNotReady"]

Threshold == FailurePolicyDefaults(Policy).threshold

(* Mutant: every condition is persisted, not only Ready. *)
ToPersistedWhole(eps) == {[a \in S |-> eps[a]] : S \in SUBSET DOMAIN eps}

(* The first MaxPersistedEndpoints of the resolver's list.  That list is in *)
(* no particular order, so which addresses survive the cut is not fixed.   *)
ToPersisted(eps) ==
    {[a \in S |-> IF eps[a] = "ready" THEN "ready" ELSE "notReady"] :
        S \in {T \in SUBSET DOMAIN eps :
                  \/ T = DOMAIN eps /\ Cardinality(T) <= MaxPersisted
                  \/ T # DOMAIN eps /\ Cardinality(T) = MaxPersisted}}

endpointsFromStatus(prev) == prev.lkg

withinStaleWindow(prev, now) ==
    /\ prev.lastSuccess # Nil
    /\ now - prev.lastSuccess <= FailurePolicyDefaults(Policy).stale

(* An int32 in the code, which counts on; here counting stops at ErrorCap, *)
(* which is at least the threshold.  That the count changed once more,     *)
(* which the comparison of statuses notices, is kept by writeStatus.       *)
NextErrors(n) == IF n < ErrorCap THEN n + 1 ELSE n

ApplyFailurePolicy(prev, resolution, now) ==
    LET errors   == NextErrors(prev.errors)
        good     == endpointsFromStatus(prev)
        degraded == errors >= Threshold
        expired  == degraded /\ ~withinStaleWindow(prev, now)
    IN  IF resolution.ok
        THEN [endpoints |-> resolution.endpoints, stale |-> FALSE,
              degraded |-> FALSE, errors |-> 0]
        ELSE [endpoints |->
                CASE ~expired -> good
                  [] expired /\ FailurePolicyDefaults(Policy).onStale = "Remove" -> NoEndpoints
                  [] OTHER -> [a \in DOMAIN good |-> "notReady"],
              stale |-> degraded, degraded |-> degraded, errors |-> errors]

ASSUME PolicyAssumption == Policy \in PolicySpec

ASSUME BoundsAssumption ==
    /\ IsFiniteSet(Addrs)
    /\ MaxPersisted \in Nat
    /\ ErrorCap \in Nat
    /\ ErrorCap >= Threshold
    /\ Nil \notin Nat
=============================================================================
