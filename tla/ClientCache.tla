----------------------------- MODULE ClientCache -----------------------------
(***************************************************************************)
(* internal/clusters/cache.go: the shared cache of remote-cluster clients, *)
(* with the three goroutines that use it: the CrossService worker, the     *)
(* RemoteCluster worker and the informer goroutine that runs the Secret    *)
(* handler.                                                                *)
(*                                                                         *)
(* CachingProvider.mu guards entries.  Every critical section is one step, *)
(* except Get's: it holds mu across start, which attaches the watches      *)
(* (OnStart) and then waits for the informers to sync.  What the workers   *)
(* do with the CrossService's own status and slices is left to modules     *)
(* CrossService and SliceWriter.                                           *)
(***************************************************************************)
EXTENDS Integers, FiniteSets, Functions

CONSTANTS
    Clusters,      \* RemoteCluster names
    Services,      \* CrossServices
    NoCluster,     \* stands for the clusterRef of a deleted CrossService
    Local,         \* no clusterRef: the source is in the local cluster
    InitialPhase,  \* what the controller finds: new or present clusters
    InitialRef,    \* the clusterRef each CrossService starts with
    Kinds,         \* disturbances that happen: rotate, edit, rebind, remove,
                   \* delete, outage, fail, restart
    MaxChanges     \* bound: how many disturbances

ASSUME SetupAssumption ==
    /\ IsFiniteSet(Services) /\ Services # {}
    /\ InitialRef \in [Services -> Clusters] /\ {NoCluster, Local} \cap Clusters = {}
    /\ NoCluster # Local
    /\ InitialPhase \in {"new", "present"}

VARIABLES
    phase,     \* RemoteCluster: new (no finalizer), present, deleting, gone
    cred,      \* the fingerprint auth.Build computes for the cluster now
    down,      \* clusters whose API server does not answer
    ref,       \* clusterRef of every CrossService
    entries,   \* CachingProvider.entries
    status,    \* RemoteCluster status: consumerCount and Ready
    stamped,   \* clusters whose lastProbeTime is the current second
    secrets,   \* clusters whose Secret event the handler has not run yet
    queueX, queueR,  \* the two work queues
    x,         \* the CrossService worker
    r,         \* the RemoteCluster worker
    changes    \* disturbances so far

objects == <<phase, cred, ref>>
vars == <<objects, down, entries, status, stamped, secrets, queueX, queueR, x, r, changes>>

Idle(w) == w.pc = "idle"

(* mu is held exactly while Get is inside start. *)
Unlocked == x.pc \notin {"attach", "sync"}

Referencing(cl) == {c \in Services : ref[c] = cl}

Without(es, cl) == Restrict(es, DOMAIN es \ {cl})

Consumers(cl) == IF cl \in DOMAIN entries THEN Cardinality(entries[cl].consumers) ELSE 0

XIdle == [pc |-> "idle", key |-> CHOOSE c \in Services : TRUE, cluster |-> NoCluster,
          built |-> 0, failed |-> FALSE]

RIdle == [pc |-> "idle", key |-> NoCluster, count |-> 0]

Entry == [fingerprint : Nat, consumers : SUBSET Services]

Status == [count : 0..Cardinality(Services), ready : BOOLEAN]

XWorker == [pc : {"idle", "release", "fetch", "built", "attach", "sync", "acquire"},
            key : Services, cluster : Clusters \cup {NoCluster}, built : Nat, failed : BOOLEAN]

RWorker == [pc : {"idle", "count", "probe", "invalidate", "unfinalize"},
            key : Clusters \cup {NoCluster}, count : 0..Cardinality(Services)]

(* Every variable has its type; and while Get holds mu across start there is *)
(* no entry for the cluster it is starting, so no other goroutine can find   *)
(* the cancelled client.                                                     *)
TypeOK ==
    /\ phase \in [Clusters -> {"new", "present", "deleting", "gone"}]
    /\ cred \in [Clusters -> Nat]
    /\ down \subseteq Clusters /\ stamped \subseteq Clusters /\ secrets \subseteq Clusters
    /\ ref \in [Services -> Clusters \cup {NoCluster, Local}]
    /\ DOMAIN entries \subseteq Clusters
    /\ entries \in [DOMAIN entries -> Entry]
    /\ status \in [Clusters -> Status]
    /\ queueX \subseteq Services /\ queueR \subseteq Clusters
    /\ x \in XWorker /\ r \in RWorker
    /\ ~Unlocked => x.cluster \notin DOMAIN entries

(* The controller has just started, and the Secret handler has run. *)
Init ==
    /\ phase = [cl \in Clusters |-> InitialPhase]
    /\ cred = [cl \in Clusters |-> 0]
    /\ ref = InitialRef
    /\ entries = <<>>
    /\ status = [cl \in Clusters |-> [count |-> 0, ready |-> FALSE]]
    /\ down = {} /\ stamped = {}
    /\ queueX = Services /\ queueR = Clusters /\ secrets = {}
    /\ x = XIdle /\ r = RIdle
    /\ changes = 0

Disturb(kind) ==
    /\ kind \in Kinds /\ changes < MaxChanges
    /\ changes' = changes + 1

(* A RemoteCluster event: its own controller and, through mapRemoteCluster,  *)
(* every CrossService bound to it.                                           *)
Notify(cl) ==
    /\ queueX' = queueX \cup Referencing(cl)
    /\ queueR' = queueR \cup {cl}
-----------------------------------------------------------------------------
(* The CrossService worker. *)

(* Reconcile up to the resolver: a deleted object goes to ReleaseAll, a      *)
(* missing RemoteCluster ends the reconcile in resolveCluster, and a local   *)
(* source never comes to the cache.                                          *)
XTake(c) ==
    /\ Idle(x) /\ c \in queueX
    /\ queueX' = queueX \ {c}
    /\ x' = IF ref[c] = NoCluster THEN [XIdle EXCEPT !.pc = "release", !.key = c]
            ELSE IF ref[c] = Local \/ phase[ref[c]] = "gone" THEN XIdle
            ELSE [XIdle EXCEPT !.pc = "fetch", !.key = c, !.cluster = ref[c]]
    /\ UNCHANGED <<objects, down, entries, status, stamped, secrets, queueR, r, changes>>

(* Get before the lock: Fetch the RemoteCluster and Build from its Secrets. *)
XBuild ==
    /\ x.pc = "fetch"
    /\ x' = IF phase[x.cluster] = "gone"
            THEN [x EXCEPT !.pc = "acquire", !.failed = TRUE]
            ELSE [x EXCEPT !.pc = "built", !.built = cred[x.cluster]]
    /\ UNCHANGED <<objects, down, entries, status, stamped, secrets, queueX, queueR, r, changes>>

(* Mutant: the stale entry is cancelled and left in the map. *)
XEnterUndeleted ==
    /\ x.pc = "built"
    /\ x' = [x EXCEPT !.pc = IF /\ x.cluster \in DOMAIN entries
                                /\ entries[x.cluster].fingerprint = x.built
                             THEN "acquire" ELSE "attach"]
    /\ UNCHANGED <<objects, down, entries, status, stamped, secrets, queueX, queueR, r, changes>>

(* Mutant: an entry is reused whatever credentials it was built from. *)
XEnterAnyCredential ==
    /\ x.pc = "built"
    /\ x' = [x EXCEPT !.pc = IF x.cluster \in DOMAIN entries THEN "acquire" ELSE "attach"]
    /\ UNCHANGED <<objects, down, entries, status, stamped, secrets, queueX, queueR, r, changes>>

(* Get takes the lock: reuse the entry, or cancel it and start another. *)
XEnter ==
    /\ x.pc = "built"
    /\ \/ /\ x.cluster \in DOMAIN entries
          /\ entries[x.cluster].fingerprint = x.built
          /\ x' = [x EXCEPT !.pc = "acquire"]
          /\ UNCHANGED entries
       \/ /\ x.cluster \in DOMAIN entries => entries[x.cluster].fingerprint # x.built
          /\ entries' = Without(entries, x.cluster)
          /\ x' = [x EXCEPT !.pc = "attach"]
    /\ UNCHANGED <<objects, down, status, stamped, secrets, queueX, queueR, r, changes>>

(* OnStart: the informers' first discovery call needs a live API server. *)
XAttach ==
    /\ x.pc = "attach"
    /\ x' = IF x.cluster \in down
            THEN [x EXCEPT !.pc = "acquire", !.failed = TRUE]
            ELSE [x EXCEPT !.pc = "sync"]
    /\ UNCHANGED <<objects, down, entries, status, stamped, secrets, queueX, queueR, r, changes>>

(* WaitForCacheSync on BaseCtx: no deadline, so it returns only once the     *)
(* remote API server has answered every list.                                *)
XSync ==
    /\ x.pc = "sync"
    /\ x.cluster \notin down
    /\ entries' = [cl \in DOMAIN entries \cup {x.cluster} |->
                     IF cl = x.cluster THEN [fingerprint |-> x.built, consumers |-> {}]
                     ELSE entries[cl]]
    /\ x' = [x EXCEPT !.pc = "acquire"]
    /\ UNCHANGED <<objects, down, status, stamped, secrets, queueX, queueR, r, changes>>

(* Mutant: Acquire replaces the consumers by the one that calls. *)
XAcquireAlone ==
    /\ x.pc = "acquire"
    /\ entries' = [cl \in DOMAIN entries |->
                     IF cl = x.cluster
                     THEN [entries[cl] EXCEPT !.consumers = {x.key}] ELSE entries[cl]]
    /\ queueX' = IF x.failed THEN queueX \cup {x.key} ELSE queueX
    /\ x' = XIdle
    /\ UNCHANGED <<objects, down, status, stamped, secrets, queueR, r, changes>>

(* Acquire, and the end of the reconcile: a failed Resolve counts one more   *)
(* consecutive error, and that status write enqueues the object again.       *)
XAcquire ==
    /\ x.pc = "acquire"
    /\ entries' = [cl \in DOMAIN entries |->
                     IF cl = x.cluster
                     THEN [entries[cl] EXCEPT !.consumers = @ \cup {x.key}] ELSE entries[cl]]
    /\ queueX' = IF x.failed THEN queueX \cup {x.key} ELSE queueX
    /\ x' = XIdle
    /\ UNCHANGED <<objects, down, status, stamped, secrets, queueR, r, changes>>

(* Mutant: the last reference goes and the informers keep running. *)
XReleaseKeeping ==
    /\ x.pc = "release"
    /\ entries' = [cl \in DOMAIN entries |-> [entries[cl] EXCEPT !.consumers = @ \ {x.key}]]
    /\ x' = XIdle
    /\ UNCHANGED <<objects, down, status, stamped, secrets, queueX, queueR, r, changes>>

(* ReleaseAll: drop the deleted CrossService everywhere and stop whatever    *)
(* nobody references any more.                                               *)
XRelease ==
    /\ x.pc = "release"
    /\ LET left == [cl \in DOMAIN entries |-> entries[cl].consumers \ {x.key}]
       IN entries' = [cl \in {k \in DOMAIN entries : left[k] # {}} |->
                        [entries[cl] EXCEPT !.consumers = left[cl]]]
    /\ x' = XIdle
    /\ UNCHANGED <<objects, down, status, stamped, secrets, queueX, queueR, r, changes>>

XRun == XBuild \/ XEnter \/ XAttach \/ XSync \/ XAcquire \/ XRelease

-----------------------------------------------------------------------------
(* The RemoteCluster worker. *)

(* Reconcile: a missing object ends it, a deleted one is finalized, a new    *)
(* one gets its finalizer (an Update, hence an event) and is probed.         *)
RTake(cl) ==
    /\ Idle(r) /\ cl \in queueR
    /\ \/ /\ phase[cl] = "gone"
          /\ queueR' = queueR \ {cl}
          /\ UNCHANGED <<phase, queueX, r>>
       \/ /\ phase[cl] = "deleting"
          /\ queueR' = queueR \ {cl}
          /\ r' = [RIdle EXCEPT !.pc = "invalidate", !.key = cl]
          /\ UNCHANGED <<phase, queueX>>
       \/ /\ phase[cl] = "present"
          /\ queueR' = queueR \ {cl}
          /\ r' = [RIdle EXCEPT !.pc = "count", !.key = cl]
          /\ UNCHANGED <<phase, queueX>>
       \/ /\ phase[cl] = "new"
          /\ phase' = [phase EXCEPT ![cl] = "present"]
          /\ Notify(cl)
          /\ r' = [RIdle EXCEPT !.pc = "count", !.key = cl]
    /\ UNCHANGED <<cred, ref, down, entries, status, stamped, secrets, x, changes>>

(* status.ConsumerCount = Provider.Consumers(name), under mu. *)
RCount ==
    /\ r.pc = "count" /\ Unlocked
    /\ r' = [r EXCEPT !.pc = "probe", !.count = Consumers(r.key)]
    /\ UNCHANGED <<objects, down, entries, status, stamped, secrets, queueX, queueR, x, changes>>

(* Mutant: only a change of readiness is worth a status write. *)
RProbeReadyOnly ==
    LET up == r.key \notin down
    IN /\ r.pc = "probe"
       /\ IF phase[r.key] = "present" /\ status[r.key].ready # up
          THEN /\ status' = [status EXCEPT ![r.key] = [count |-> r.count, ready |-> up]]
               /\ Notify(r.key)
          ELSE UNCHANGED <<status, queueX, queueR>>
       /\ r' = RIdle
       /\ UNCHANGED <<objects, down, entries, stamped, secrets, x, changes>>

(* Probe and writeStatus.  A successful probe stamps lastProbeTime, which    *)
(* the API server keeps to the second: the write is an event unless nothing  *)
(* changed within that second.  A failed probe leaves lastProbeTime alone.   *)
(* The write of an object deleted meanwhile is a conflict, and is swallowed. *)
RProbe ==
    LET up == r.key \notin down
        new == [count |-> r.count, ready |-> up]
    IN /\ r.pc = "probe"
       /\ IF /\ phase[r.key] = "present"
             /\ status[r.key] # new \/ (up /\ r.key \notin stamped)
          THEN /\ status' = [status EXCEPT ![r.key] = new]
               /\ stamped' = IF up THEN stamped \cup {r.key} ELSE stamped
               /\ Notify(r.key)
          ELSE UNCHANGED <<status, stamped, queueX, queueR>>
       /\ r' = RIdle
       /\ UNCHANGED <<objects, down, entries, secrets, x, changes>>

(* finalize: Invalidate, then the Update that removes the finalizer. *)
RInvalidate ==
    /\ r.pc = "invalidate" /\ Unlocked
    /\ entries' = Without(entries, r.key)
    /\ r' = [r EXCEPT !.pc = "unfinalize"]
    /\ UNCHANGED <<objects, down, status, stamped, secrets, queueX, queueR, x, changes>>

RUnfinalize ==
    /\ r.pc = "unfinalize"
    /\ phase' = [phase EXCEPT ![r.key] = "gone"]
    /\ Notify(r.key)
    /\ r' = RIdle
    /\ UNCHANGED <<cred, ref, down, entries, status, stamped, secrets, x, changes>>

(* A failed write returns an error, and the key comes back. *)
RFail ==
    /\ r.pc \in {"unfinalize", "probe"}
    /\ Disturb("fail")
    /\ queueR' = queueR \cup {r.key}
    /\ r' = RIdle
    /\ UNCHANGED <<objects, down, entries, status, stamped, secrets, queueX, x>>

(* RequeueAfter: the probe interval of a cluster that is there. *)
RTimer(cl) ==
    /\ phase[cl] = "present" /\ cl \notin queueR
    /\ queueR' = queueR \cup {cl}
    /\ UNCHANGED <<objects, down, entries, status, stamped, secrets, queueX, x, r, changes>>

RRun == RCount \/ RProbe \/ RInvalidate \/ RUnfinalize

(* mapSecretToClusters, in the Secret informer's goroutine. *)
HandleSecret(cl) ==
    /\ Unlocked /\ cl \in secrets
    /\ secrets' = secrets \ {cl}
    /\ entries' = Without(entries, cl)
    /\ queueR' = queueR \cup {cl}
    /\ UNCHANGED <<objects, down, status, stamped, queueX, x, r, changes>>

-----------------------------------------------------------------------------
(* Users, remote clusters, the clock and the process. *)

(* New bytes in a Secret: the handler will see them. *)
RotateSecret ==
    /\ Disturb("rotate")
    /\ \E cl \in Clusters :
         /\ phase[cl] # "gone"
         /\ cred' = [cred EXCEPT ![cl] = @ + 1]
         /\ secrets' = secrets \cup {cl}
    /\ UNCHANGED <<phase, ref, down, entries, status, stamped, queueX, queueR, x, r>>

(* A new connection in the RemoteCluster's spec: nothing calls Invalidate. *)
EditCluster ==
    /\ Disturb("edit")
    /\ \E cl \in Clusters :
         /\ phase[cl] \in {"new", "present"}
         /\ cred' = [cred EXCEPT ![cl] = @ + 1]
         /\ Notify(cl)
    /\ UNCHANGED <<phase, ref, down, entries, status, stamped, secrets, x, r>>

(* kubectl delete: the finalizer holds the object back, if it is there. *)
RemoveCluster ==
    /\ Disturb("remove")
    /\ \E cl \in Clusters :
         /\ phase[cl] \in {"new", "present"}
         /\ phase' = [phase EXCEPT ![cl] = IF @ = "new" THEN "gone" ELSE "deleting"]
         /\ Notify(cl)
    /\ UNCHANGED <<cred, ref, down, entries, status, stamped, secrets, x, r>>

(* Another clusterRef, or none.  Nothing releases the old one. *)
EditRef ==
    /\ Disturb("rebind")
    /\ \E c \in Services, cl \in Clusters \cup {Local} :
         /\ ref[c] \notin {cl, NoCluster}
         /\ ref' = [ref EXCEPT ![c] = cl]
         /\ queueX' = queueX \cup {c}
    /\ UNCHANGED <<phase, cred, down, entries, status, stamped, secrets, queueR, x, r>>

DeleteService ==
    /\ Disturb("delete")
    /\ \E c \in Services :
         /\ ref[c] # NoCluster
         /\ ref' = [ref EXCEPT ![c] = NoCluster]
         /\ queueX' = queueX \cup {c}
    /\ UNCHANGED <<phase, cred, down, entries, status, stamped, secrets, queueR, x, r>>

Outage ==
    /\ Disturb("outage")
    /\ \E cl \in Clusters \ down : down' = down \cup {cl}
    /\ UNCHANGED <<objects, entries, status, stamped, secrets, queueX, queueR, x, r>>

Recover(cl) ==
    /\ cl \in down
    /\ down' = down \ {cl}
    /\ UNCHANGED <<objects, entries, status, stamped, secrets, queueX, queueR, x, r, changes>>

Tick ==
    /\ stamped # {}
    /\ stamped' = {}
    /\ UNCHANGED <<objects, down, entries, status, secrets, queueX, queueR, x, r, changes>>

(* The process dies: the cache, the queues and the workers go; the informers *)
(* then list every object that is left, the Secrets included, and the        *)
(* workers do not wait until the Secret handler has run.                     *)
Restart ==
    /\ Disturb("restart")
    /\ entries' = <<>>
    /\ queueX' = {c \in Services : ref[c] # NoCluster}
    /\ queueR' = {cl \in Clusters : phase[cl] # "gone"}
    /\ secrets' = {cl \in Clusters : phase[cl] # "gone"}
    /\ x' = XIdle /\ r' = RIdle
    /\ UNCHANGED <<objects, down, status, stamped>>

Next ==
    \/ \E c \in Services : XTake(c)
    \/ \E cl \in Clusters : RTake(cl) \/ RTimer(cl) \/ HandleSecret(cl) \/ Recover(cl)
    \/ XRun \/ RRun \/ RFail
    \/ RotateSecret \/ EditCluster \/ RemoveCluster \/ EditRef \/ DeleteService
    \/ Outage \/ Tick \/ Restart

Spec == Init /\ [][Next]_vars

(* Both workers and the informer goroutine keep running, the probe timer     *)
(* fires and time passes.  A work queue is first in, first out, so a key     *)
(* that waits while the worker keeps coming free is taken: strong fairness.  *)
FairSpec ==
    /\ Spec
    /\ WF_vars(XRun) /\ WF_vars(RRun) /\ WF_vars(Tick)
    /\ \A c \in Services : SF_vars(XTake(c))
    /\ \A cl \in Clusters : SF_vars(RTake(cl)) /\ WF_vars(RTimer(cl)) /\ SF_vars(HandleSecret(cl))

(* Besides, every outage of a remote cluster ends. *)
HealSpec == FairSpec /\ \A cl \in Clusters : WF_vars(Recover(cl))
-----------------------------------------------------------------------------
(* The CrossService is a counted consumer of a running client of its         *)
(* cluster, built from the credentials the cluster has now.                  *)
Attached(c) ==
    /\ ref[c] \in DOMAIN entries
    /\ entries[ref[c]].fingerprint = cred[ref[c]]
    /\ c \in entries[ref[c]].consumers

(* Once changes stop, every CrossService bound to a RemoteCluster that is    *)
(* there and up ends attached to it, whatever rotation, edit, deletion,      *)
(* outage or restart came between the steps of Get, Acquire, Invalidate and  *)
(* ReleaseAll: the two controllers never wait for each other's event.        *)
EventuallyWatched ==
    <>[](\A c \in Services :
           (/\ ref[c] \in Clusters
            /\ phase[ref[c]] = "present"
            /\ ref[c] \notin down) => Attached(c))

(* Once changes stop, every running client has a CrossService that is there  *)
(* and uses it: the last ReleaseAll stops the informers.  After a rebinding  *)
(* the old client still counts the CrossService, and lives as long as it.    *)
EventuallyReleased ==
    <>[](\A cl \in DOMAIN entries : \E c \in Services :
           ref[c] = cl \/ (ref[c] # NoCluster /\ c \in entries[cl].consumers))

(* Once changes stop, status.consumerCount is how many CrossServices use the *)
(* cluster's client, none of them deleted: a count read between another      *)
(* worker's Get and Acquire, or before a rotation, does not stay.            *)
CountIsHonest ==
    <>[](\A cl \in Clusters : phase[cl] = "present" =>
           /\ status[cl].count = Consumers(cl)
           /\ cl \in DOMAIN entries => \A c \in entries[cl].consumers : ref[c] # NoCluster)

(* The cache is a client pool: the entries are its clients, and while Get    *)
(* holds mu across start a client is being opened. *)
Pool == INSTANCE ClientPool WITH
    clients <- entries,
    opening <- IF Unlocked THEN {} ELSE {x.cluster},
    issued  <- cred,
    live    <- {c \in Services : ref[c] # NoCluster}

(* Whatever the two workers, the Secret handler and the process do between   *)
(* the steps of Get, the cache does what the pool promises: no consumer of a *)
(* running client is lost, its credentials never change under it, nothing    *)
(* touches the entries while a client is started, and only ReleaseAll of a   *)
(* deleted CrossService takes a consumer off.                                *)
ImplementsPool == Pool!Spec

(* finalize "tears the cached connection down": once a RemoteCluster is      *)
(* gone, its client is gone too or will be.                                  *)
GoneMeansTornDown ==
    <>[](\A cl \in DOMAIN entries : phase[cl] # "gone")
=============================================================================
