----------------------------- MODULE SourceWatch -----------------------------
(***************************************************************************)
(* internal/controller/watches.go with the resolvers: how a change in the  *)
(* source cluster reaches the CrossService that depends on it.             *)
(*                                                                         *)
(* One CrossService, one source cluster, local or remote.  cluster is what *)
(* the informers hold (and what DNS answers); a change of an informer's    *)
(* object leaves an event behind, which a handler turns into index keys.   *)
(* Remote events go through a bounded channel that drops.  What comes after*)
(* resolution (failure policy, Service, slices) is in CrossService and     *)
(* SliceWriter; of the status write only the event it causes is here.      *)
(***************************************************************************)
EXTENDS Resolvers, Sequences

CONSTANTS
    Sources,        \* spec.source, with spec.ports
    Clusters,       \* RemoteCluster specs: [policy, resync]
    InitialCluster, \* the cluster's objects at the start
    Values,         \* kind -> the states an object of that kind may be in
    Objects,        \* kind -> names
    ChanCap,        \* capacity of the remote event channel
    MaxChanges      \* bound: changes in the source cluster, of DNS answers and
                    \* of specs, and restarts of the process, together

Kinds == {"pods", "nodes", "service", "slices"}

ASSUME WatchAssumption ==
    /\ DOMAIN Objects = Kinds \cup {"dns", "srv"}
    /\ DOMAIN Values = DOMAIN Objects
    /\ DOMAIN InitialCluster = DOMAIN Objects
    /\ ChanCap \in Nat \ {0}
    /\ MaxChanges \in Nat

ASSUME SourcesAssumption ==
    \A s \in Sources :
        /\ s.remote \in BOOLEAN
        /\ s.type \in {"Pods", "Nodes", "Service", "DNS", "Static"}
        /\ s.type = "Service" => s.via \in {"NodePort", "LoadBalancer", "PodIP"}
        /\ s.type = "DNS" =>
              s.hosts \subseteq DOMAIN InitialCluster[IF s.recordType = "SRV" THEN "srv" ELSE "dns"]
        /\ \A n \in DOMAIN s.ports : s.ports[n].port \in Nat \ {0} /\ s.ports[n].targetNumber \in Nat

(* Port numbers are positive; a nodePort is 0 when there is none. *)
Positive(ports) == \A n \in DOMAIN ports : ports[n] \in Nat \ {0}

ValidObject(kind, v) ==
    /\ kind \in {"pods", "slices"} => Positive(v.ports)
    /\ kind = "service" =>
          \A n \in DOMAIN v.ports : v.ports[n].port \in Nat \ {0} /\ v.ports[n].nodePort \in Nat
    /\ kind = "srv" /\ v # None => \A t \in v : t.port \in Nat \ {0}

ASSUME ObjectsAssumption ==
    \A kind \in DOMAIN Objects :
        /\ \A n \in DOMAIN InitialCluster[kind] : ValidObject(kind, InitialCluster[kind][n])
        /\ \A v \in Values[kind] : ValidObject(kind, v)

VARIABLES
    source,      \* the cached spec.source
    rc,          \* the cached RemoteCluster it is bound to; None if it is local
    cluster,     \* the informers' objects and the DNS answers
    events,      \* events the informers have not handed out yet
    channel,     \* keys in the remote event channel
    queued,      \* the CrossService is queued
    timer,       \* a RequeueAfter is pending
    pc,          \* "idle", "reading"
    got,         \* what the running reconcile has read so far
    served,      \* what the last reconcile resolved
    changes

vars == <<source, rc, cluster, events, channel, queued, timer, pc, got, served, changes>>

Init ==
    /\ source \in Sources
    /\ rc \in IF source.remote THEN Clusters ELSE {None}
    /\ cluster = InitialCluster
    /\ events = {}
    /\ channel = <<>>
    /\ queued = TRUE
    /\ timer = FALSE
    /\ pc = "idle"
    /\ got = None
    /\ served = Failed
    /\ changes = 0

-----------------------------------------------------------------------------
(* Index keys *)

(* Mutant: a Service reached through NodePorts depends on the Service only.*)
localSourceRefKeysServiceOnly(src) ==
    CASE src.type = "Pods"    -> {"pods"}
      [] src.type = "Nodes"   -> {"nodes"}
      [] src.type = "Service" -> {"service"} \cup (IF src.via = "PodIP" THEN {"slices"} ELSE {})
      [] OTHER                -> {}

localSourceRefKeys(src) ==
    CASE src.type = "Pods"    -> {"pods"}
      [] src.type = "Nodes"   -> {"nodes"}
      [] src.type = "Service" -> {"service"}
                                 \cup (IF src.via = "NodePort" THEN {"nodes"} ELSE {})
                                 \cup (IF src.via = "PodIP" THEN {"slices"} ELSE {})
      [] OTHER                -> {}

(* mapPod, mapNode, mapService, mapEndpointSlice; for a remote cluster the *)
(* key functions of RemoteWatcher, which do not look at the managed-by     *)
(* label.                                                                  *)
KeysOf(kind, obj) ==
    IF kind # "slices" THEN {kind}
    ELSE IF obj.service = "svc" /\ (source.remote \/ ~obj.managed) THEN {"slices"} ELSE {}

-----------------------------------------------------------------------------
(* The source cluster *)

Changed ==
    /\ changes < MaxChanges
    /\ changes' = changes + 1

(* An object is created or updated.  EnqueueRequestsFromMapFunc maps the   *)
(* old and the new object, remoteHandler only the new one.                 *)
Put(kind) ==
    /\ Changed
    /\ \E n \in Objects[kind], v \in Values[kind] :
          LET objs == cluster[kind]
          IN  /\ n \in DOMAIN objs => objs[n] # v
              /\ cluster' = [cluster EXCEPT ![kind] =
                                [m \in DOMAIN objs \cup {n} |-> IF m = n THEN v ELSE objs[m]]]
              /\ events' = events \cup KeysOf(kind, v)
                              \cup (IF n \in DOMAIN objs /\ ~source.remote
                                    THEN KeysOf(kind, objs[n]) ELSE {})
    /\ UNCHANGED <<source, rc, channel, queued, timer, pc, got, served>>

(* An object goes.  If a remote watch missed it, the event is a tombstone, *)
(* and remoteHandler drops it.                                             *)
Remove(kind) ==
    /\ Changed
    /\ \E n \in DOMAIN cluster[kind] :
          LET objs == cluster[kind]
          IN  /\ cluster' = [cluster EXCEPT ![kind] = [m \in DOMAIN objs \ {n} |-> objs[m]]]
              /\ \/ events' = events \cup KeysOf(kind, objs[n])
                 \/ source.remote /\ UNCHANGED events
    /\ UNCHANGED <<source, rc, channel, queued, timer, pc, got, served>>

(* DNS answers change without an event. *)
Redirect(kind) ==
    /\ Changed
    /\ \E n \in Objects[kind], v \in Values[kind] :
          /\ cluster[kind][n] # v
          /\ cluster' = [cluster EXCEPT ![kind][n] = v]
    /\ UNCHANGED <<source, rc, events, channel, queued, timer, pc, got, served>>

-----------------------------------------------------------------------------
(* From an event to the queue *)

(* The CrossService itself changed, or its RemoteCluster                   *)
(* (mapRemoteCluster).                                                     *)
DeliverOwn(e) ==
    /\ e \in events \cap {"self", "cluster"}
    /\ events' = events \ {e}
    /\ queued' = TRUE
    /\ UNCHANGED <<source, rc, cluster, channel, timer, pc, got, served, changes>>

(* enqueueForKey, from a watch of the manager. *)
DeliverLocal(e) ==
    /\ ~source.remote
    /\ e \in events \cap Kinds
    /\ events' = events \ {e}
    /\ queued' = (queued \/ e \in localSourceRefKeys(source))
    /\ UNCHANGED <<source, rc, cluster, channel, timer, pc, got, served, changes>>

(* remoteHandler: send, or drop when the channel is full. *)
DeliverRemote(e) ==
    /\ source.remote
    /\ e \in events \cap Kinds
    /\ events' = events \ {e}
    /\ channel' = IF Len(channel) < ChanCap THEN Append(channel, e) ELSE channel
    /\ UNCHANGED <<source, rc, cluster, queued, timer, pc, got, served, changes>>

(* mapRemote *)
Receive ==
    /\ channel # <<>>
    /\ channel' = Tail(channel)
    /\ queued' = (queued \/ Head(channel) \in localSourceRefKeys(source))
    /\ UNCHANGED <<source, rc, cluster, events, timer, pc, got, served, changes>>

TimerFires ==
    /\ timer
    /\ timer' = FALSE
    /\ queued' = TRUE
    /\ UNCHANGED <<source, rc, cluster, events, channel, pc, got, served, changes>>

-----------------------------------------------------------------------------
(* The reconcile *)

(* Reconcile reads the CrossService and the RemoteCluster, and Resolve the *)
(* Pods or the Service.                                                    *)
Start ==
    /\ pc = "idle"
    /\ queued
    /\ queued' = FALSE
    /\ pc' = "reading"
    /\ got' = [source |-> source, rc |-> rc, pods |-> cluster.pods, service |-> cluster.service]
    /\ UNCHANGED <<source, rc, cluster, events, channel, timer, served, changes>>

(* Mutant: a failure that is written to the status is not an event, as with*)
(* a predicate on For() that ignores the status.                           *)
FinishUnnoticed ==
    /\ pc = "reading"
    /\ ~PolicyError(got.source, got.rc)
    /\ \E out \in Outcomes(got.source, got.rc,
                           [cluster EXCEPT !.pods = got.pods, !.service = got.service]) :
          /\ served' = out
          /\ timer' = (timer \/ Polled(got.source, got.rc, out.ttl))
    /\ pc' = "idle"
    /\ got' = None
    /\ UNCHANGED <<source, rc, cluster, events, channel, queued, changes>>

(* Resolve reads the Nodes, the slices or DNS, and the reconcile goes      *)
(* through.  A failure always changes the status (consecutiveErrors), a    *)
(* success does unless lastSuccessTime is the same second; For() has no    *)
(* predicate, so a changed status is an event.                             *)
Finish ==
    /\ pc = "reading"
    /\ ~PolicyError(got.source, got.rc)
    /\ \E out \in Outcomes(got.source, got.rc,
                           [cluster EXCEPT !.pods = got.pods, !.service = got.service]) :
          /\ served' = out
          /\ timer' = (timer \/ Polled(got.source, got.rc, out.ttl))
          /\ \/ events' = events \cup {"self"}
             \/ out.ok /\ UNCHANGED events
    /\ pc' = "idle"
    /\ got' = None
    /\ UNCHANGED <<source, rc, cluster, channel, queued, changes>>

(* filterAddresses fails: the reconcile returns its error, whatever Resolve*)
(* gave, and the key comes back rate limited.                              *)
RejectPolicy ==
    /\ pc = "reading"
    /\ PolicyError(got.source, got.rc)
    /\ queued' = TRUE
    /\ pc' = "idle"
    /\ got' = None
    /\ UNCHANGED <<source, rc, cluster, events, channel, timer, served, changes>>

-----------------------------------------------------------------------------
(* People and the process *)

(* spec.source is edited; a changed clusterRef is in ClientCache. *)
EditSource ==
    /\ Changed
    /\ \E s \in Sources : s # source /\ s.remote = source.remote /\ source' = s
    /\ events' = events \cup {"self"}
    /\ UNCHANGED <<rc, cluster, channel, queued, timer, pc, got, served>>

EditCluster ==
    /\ source.remote
    /\ Changed
    /\ \E c \in Clusters : c # rc /\ rc' = c
    /\ events' = events \cup {"cluster"}
    /\ UNCHANGED <<source, cluster, channel, queued, timer, pc, got, served>>

(* Queue, timers and channel are in memory; the first list of CrossServices*)
(* enqueues them all.                                                      *)
Restart ==
    /\ Changed
    /\ events' = {}
    /\ channel' = <<>>
    /\ queued' = TRUE
    /\ timer' = FALSE
    /\ pc' = "idle"
    /\ got' = None
    /\ UNCHANGED <<source, rc, cluster, served>>

Change == (\E k \in Kinds : Put(k) \/ Remove(k)) \/ (\E k \in {"dns", "srv"} : Redirect(k))

Events == Kinds \cup {"self", "cluster"}

Deliver(e) == DeliverOwn(e) \/ DeliverLocal(e) \/ DeliverRemote(e)

Next == Change \/ (\E e \in Events : Deliver(e)) \/ Receive \/ TimerFires \/ Start \/ Finish
        \/ RejectPolicy \/ EditSource \/ EditCluster \/ Restart

Spec == Init /\ [][Next]_vars

(* Each informer, the channel's reader, the delaying queue and the worker  *)
(* are goroutines that run.                                                *)
FairSpec == Spec /\ (\A e \in Events : WF_vars(Deliver(e))) /\ WF_vars(Receive)
                 /\ WF_vars(TimerFires) /\ WF_vars(Start) /\ WF_vars(Finish \/ RejectPolicy)

-----------------------------------------------------------------------------
(* Properties. *)

(* Every variable has its type; an endpoint has a number for every port    *)
(* that some spec declares.                                                *)
TypeOK ==
    /\ source \in Sources
    /\ rc \in IF source.remote THEN Clusters ELSE {None}
    /\ events \subseteq Events
    /\ channel \in Seq(Kinds) /\ Len(channel) <= ChanCap
    /\ queued \in BOOLEAN /\ timer \in BOOLEAN
    /\ pc \in {"idle", "reading"}
    /\ pc = "reading" => got.source \in Sources /\ got.source.remote = source.remote
    /\ \A e \in served.eps : \E s \in Sources : e.portMap \in [DOMAIN s.ports -> Nat \ {0}]

Quiet == pc = "idle" /\ ~queued /\ events = {} /\ channel = <<>>

(* A Pods source takes its zones from Nodes, which it is not indexed by. *)
Watched(out) ==
    IF source.type = "Pods" THEN [out EXCEPT !.eps = {[e EXCEPT !.zone = ""] : e \in @}] ELSE out

Fresh == \E out \in Outcomes(source, rc, cluster) : Watched(served) = Watched(out)

(* When nothing is queued, running or on its way, what is served is what   *)
(* the source gives now, or a poll is armed: every object a resolver reads *)
(* is behind an index key, also when it changes between the resolver's two *)
(* reads, and a remote event that was dropped is made up for.              *)
QuietMeansFresh == Quiet /\ (source.remote => rc.resync) => Fresh \/ timer

(* Once the cluster, DNS and the specs stop changing, what is served       *)
(* becomes what the source gives and stays so, although remote events are  *)
(* dropped, lookups fail for a while, a policy does not compile until it is*)
(* mended, and the process restarts.                                       *)
EventuallyFresh ==
    <>[]((source.remote => rc.resync) /\ ~PolicyError(source, rc)) => <>[]Fresh

(* "DNS is the only source that must poll; everything else is driven by    *)
(* watches" (crossservice_controller.go, requeueAfter), and of slices of   *)
(* this controller, that they "are already covered by Owns()" (watches.go, *)
(* mapEndpointSlice).                                                      *)
DrivenByWatches == Quiet /\ ~source.remote /\ source.type # "DNS" => Fresh
=============================================================================
