---------------------------- MODULE RemoteAccess ----------------------------
(***************************************************************************)
(* How a RemoteCluster becomes usable and stays so: the RemoteCluster      *)
(* controller builds and probes the connection and reports on it, the      *)
(* Secret watch follows what it is built from, and a CrossService that its *)
(* namespace's grant lets in gets a client for it.                         *)
(*                                                                         *)
(* One RemoteCluster and one CrossService.  The locking, the finalizer, the*)
(* consumers and restarts are in module ClientCache.  The resync timer is  *)
(* left out: a spec may switch it off.                                     *)
(***************************************************************************)
EXTENDS Auth

CONSTANTS
    Accesses,     \* access blocks the RemoteCluster may have
    Grants,       \* allowedNamespaces blocks: None or a NamespaceSelector
    Initial,      \* access block and grant to start with
    Contents,     \* Secret name -> contents it may get; None: it is deleted
    Initially,    \* the Secrets to start with
    TheCloud,     \* ambient credentials and the GKE API's answer
    MaxLag,       \* bound: RemoteCluster versions the cache may be behind, plus one
    Kinds,        \* what happens: edit, secret, label, outage
    MaxEdits,     \* bound: edits of the RemoteCluster
    MaxChanges    \* bound: changes of all kinds

(* allowedNamespaces: names says whether it names the namespace. *)
NamespaceSelector == [names : BOOLEAN, selector : BOOLEAN]

ASSUME AccessesAssumption ==
    Accesses \subseteq ClusterAccess /\ \A a \in Accesses : HasCredential(a)

ASSUME SetupAssumption ==
    /\ Grants \subseteq NamespaceSelector \cup {None}
    /\ Initial.access \in Accesses /\ Initial.grant \in Grants
    /\ DOMAIN Initially = DOMAIN Contents
    /\ \A n \in DOMAIN Contents : Initially[n] \in Contents[n]
    /\ MaxLag \in Nat \ {0}

ConditionStatus == {"unknown", "true", "false"}

Reasons ==
    {"", "AccessTypeNotImplemented", "InvalidSpec", "AuthenticationFailed", "NetworkUnreachable"}

(* Where a connection may lead; "" before there is one. *)
Hosts ==
    {"", "local"} \cup {a.server : a \in Accesses}
    \cup (UNION {{Kubeconfigs[raw][c].server : c \in DOMAIN Kubeconfigs[raw]} : raw \in DOMAIN Kubeconfigs})
    \cup (UNION {{gke.endpoint, gke.private} : gke \in {TheCloud.gke} \ {None}})

RemoteClusterStatus ==
    [authenticated : ConditionStatus, reachable : ConditionStatus, ready : ConditionStatus,
     reason : Reasons, host : Hosts, observed : Nat]

RemoteCluster ==
    [access : Accesses, grant : Grants, generation : Nat, status : RemoteClusterStatus]

VARIABLES
    rcs,        \* versions of the RemoteCluster: Head is cached, Last the server's
    secrets,    \* the Secrets of the credentials namespace, None: there is none
    labelled,   \* the namespace's labels match the grant's selector
    up,         \* the remote API server answers
    stamped,    \* lastProbeTime is the current second
    handling,   \* Secrets whose event the handler has not run yet
    entry,      \* the cached client, or None
    used,       \* what the CrossService says: new, denied, failed, attached
    queueR, queueX, \* the two work queues: queued or not
    timerR,     \* the RequeueAfter of the probe is running
    r, x,       \* the two workers
    edits, changes

objects == <<secrets, labelled, up>>
queues == <<queueR, queueX, timerR>>
budget == <<edits, changes>>
vars == <<rcs, objects, stamped, handling, entry, used, queues, r, x, budget>>

(* Build for an access block, with the Secrets there are. *)
BuildNow(access) ==
    Build(access, [n \in {m \in DOMAIN secrets : secrets[m] # None} |-> secrets[n]], TheCloud)

Cached == Head(rcs)
Live == rcs[Len(rcs)]

RIdle == [pc |-> "idle", status |-> None, generation |-> 0, fresh |-> FALSE, host |-> ""]
XIdle == [pc |-> "idle", built |-> None]

NoStatus == [authenticated |-> "unknown", reachable |-> "unknown", ready |-> "unknown",
             reason |-> "", host |-> "", observed |-> 0]

Init ==
    /\ rcs = <<[access |-> Initial.access, grant |-> Initial.grant, generation |-> 0,
              status |-> NoStatus]>>
    /\ secrets = Initially
    /\ labelled = TRUE
    /\ up = TRUE /\ stamped = FALSE
    /\ handling = {}
    /\ entry = None
    /\ used = "new"
    /\ queueR = TRUE /\ queueX = TRUE
    /\ timerR = FALSE
    /\ r = RIdle /\ x = XIdle
    /\ edits = 0 /\ changes = 0

-----------------------------------------------------------------------------
(* The grant. *)

(* checkNamespaceAllowed fails closed: the namespace is named, or the      *)
(* selector there is matches its labels.                                   *)
checkNamespaceAllowed(grant) ==
    /\ grant # None
    /\ grant.names \/ (grant.selector /\ labelled)

-----------------------------------------------------------------------------
(* The RemoteCluster worker. *)

(* writeStatus, of an object read as old and, if fresh, not written since: *)
(* nothing to write, a conflict that is swallowed, or a write.  The        *)
(* consumer count of the status is in module ClientCache.                  *)
WriteStatus(old, status, fresh, moved) ==
    IF (status = old /\ ~moved) \/ ~fresh THEN UNCHANGED rcs
    ELSE /\ Len(rcs) < MaxLag
         /\ rcs' = Append(rcs, [Live EXCEPT !.status = status])

Failed(rc, reason) ==
    [rc.status EXCEPT !.authenticated = "false", !.ready = "false", !.reason = reason,
                      !.observed = rc.generation]

(* The status after a probe that was answered or not. *)
Probed(answered) ==
    [authenticated |-> "true", reachable |-> IF answered THEN "true" ELSE "false",
     ready |-> IF answered THEN "true" ELSE "false",
     reason |-> IF answered THEN "" ELSE "NetworkUnreachable",
     host |-> r.host, observed |-> r.generation]

(* Reconcile up to the probe: Get and Build, all from the manager's cache. *)
(* A failure is reported and not retried on a timer, and leaves Reachable  *)
(* as it was.  The second may have ended since the last status write.      *)
RBuild ==
    /\ r.pc = "idle" /\ queueR
    /\ queueR' = FALSE
    /\ stamped' \in {stamped, FALSE}
    /\ \E built \in {BuildNow(Cached.access)} :
          \/ /\ built.ok
             /\ r' = [pc |-> "probe", status |-> Cached.status, generation |-> Cached.generation,
                      fresh |-> Len(rcs) = 1, host |-> built.config.connection.host]
             /\ UNCHANGED rcs
          \/ /\ ~built.ok
             /\ WriteStatus(Cached.status, Failed(Cached, built.reason), Len(rcs) = 1, FALSE)
             /\ UNCHANGED r
    /\ UNCHANGED <<objects, handling, entry, used, queueX, timerR, x, budget>>

(* Mutant: lastProbeTime is kept to the hour. *)
RProbeUnstamped ==
    /\ r.pc = "probe"
    /\ WriteStatus(r.status, Probed(up), r.fresh, FALSE)
    /\ timerR' = TRUE
    /\ r' = RIdle
    /\ UNCHANGED <<objects, stamped, handling, entry, used, queueR, queueX, x, budget>>

(* Probe, and the status either way.  lastProbeTime, kept to the second,   *)
(* moves when the probe succeeds.                                          *)
RProbe ==
    /\ r.pc = "probe"
    /\ WriteStatus(r.status, Probed(up), r.fresh, up /\ ~stamped)
    /\ stamped' = (stamped \/ (up /\ r.fresh))
    /\ timerR' = TRUE
    /\ r' = RIdle
    /\ UNCHANGED <<objects, handling, entry, used, queueR, queueX, x, budget>>

(* The probe interval is longer than a second. *)
RTimer ==
    /\ timerR
    /\ timerR' = FALSE
    /\ queueR' = TRUE
    /\ stamped' = FALSE
    /\ UNCHANGED <<rcs, objects, handling, entry, used, queueX, r, x, budget>>

-----------------------------------------------------------------------------
(* Informers. *)

(* A RemoteCluster event: its own controller, and mapRemoteCluster. *)
DeliverCluster ==
    /\ Len(rcs) > 1
    /\ rcs' = Tail(rcs)
    /\ queueR' = TRUE /\ queueX' = TRUE
    /\ UNCHANGED <<objects, stamped, handling, entry, used, timerR, r, x, budget>>

(* mapSecretToClusters, by the index over the cached RemoteCluster. *)
HandleSecret(n) ==
    /\ n \in handling
    /\ handling' = handling \ {n}
    /\ IF n \in SecretRefs(Cached.access)
       THEN entry' = None /\ queueR' = TRUE
       ELSE UNCHANGED <<entry, queueR>>
    /\ UNCHANGED <<rcs, objects, stamped, used, queueX, timerR, r, x, budget>>

-----------------------------------------------------------------------------
(* The CrossService worker, up to the client. *)

(* A status write of its own enqueues the CrossService again.  A failed    *)
(* Resolve is always one: it counts one more error.                        *)
XFail ==
    /\ used' = "failed"
    /\ queueX' = TRUE
    /\ x' = XIdle

(* Mutant: Get goes on with what Build returned, error or not. *)
XBuildUnchecked ==
    /\ x.pc = "idle" /\ queueX
    /\ queueX' = FALSE
    /\ IF checkNamespaceAllowed(Cached.grant)
       THEN /\ x' = [pc |-> "start", built |-> BuildNow(Cached.access)]
            /\ UNCHANGED used
       ELSE used' = "denied" /\ UNCHANGED x
    /\ UNCHANGED <<rcs, objects, stamped, handling, entry, queueR, timerR, r, budget>>

(* resolveCluster with its check of the grant, and Get before the lock:    *)
(* Fetch and Build, all from the manager's cache.                          *)
XBuild ==
    /\ x.pc = "idle" /\ queueX
    /\ \/ /\ ~checkNamespaceAllowed(Cached.grant)
          /\ used' = "denied"
          /\ queueX' = (used # "denied")
          /\ UNCHANGED x
       \/ /\ checkNamespaceAllowed(Cached.grant)
          /\ \E built \in {BuildNow(Cached.access)} :
                \/ /\ ~built.ok
                   /\ XFail
                \/ /\ built.ok
                   /\ queueX' = FALSE
                   /\ x' = [pc |-> "start", built |-> built]
                   /\ UNCHANGED used
    /\ UNCHANGED <<rcs, objects, stamped, handling, entry, queueR, timerR, r, budget>>

(* Get under the lock: a client with the same fingerprint is reused, any   *)
(* other is replaced.                                                      *)
XStart ==
    /\ x.pc = "start"
    /\ LET client == [fingerprint |-> x.built.fingerprint, config |-> x.built.config]
           reusable == entry # None /\ entry.fingerprint = x.built.fingerprint
       IN  \/ /\ reusable
              /\ UNCHANGED entry
              /\ used' = "attached"
              /\ queueX' = (queueX \/ used # "attached")
              /\ x' = XIdle
           \/ /\ ~reusable
              /\ up
              /\ entry' = client
              /\ used' = "attached"
              /\ queueX' = (queueX \/ used # "attached")
              /\ x' = XIdle
           \/ /\ ~reusable
              /\ ~up
              /\ entry' = None
              /\ XFail
    /\ UNCHANGED <<rcs, objects, stamped, handling, queueR, timerR, r, budget>>

-----------------------------------------------------------------------------
(* Operators, the remote cluster, the clock and the process. *)

Change(kind) ==
    /\ kind \in Kinds /\ changes < MaxChanges
    /\ changes' = changes + 1

(* An edit of the access block or of the grant outdates what the worker    *)
(* has read.                                                               *)
EditCluster ==
    /\ Change("edit")
    /\ edits < MaxEdits
    /\ edits' = edits + 1
    /\ Len(rcs) < MaxLag
    /\ \/ \E a \in Accesses \ {Live.access} : rcs' = Append(rcs, [Live EXCEPT !.access = a, !.generation = @ + 1])
       \/ \E g \in Grants \ {Live.grant} : rcs' = Append(rcs, [Live EXCEPT !.grant = g, !.generation = @ + 1])
    /\ r' = [r EXCEPT !.fresh = FALSE]
    /\ UNCHANGED <<objects, stamped, handling, entry, used, queues, x>>

(* A Secret comes, goes or changes. *)
ChangeSecret ==
    /\ Change("secret")
    /\ \E n \in DOMAIN secrets : \E v \in Contents[n] \ {secrets[n]} :
          /\ secrets' = [secrets EXCEPT ![n] = v]
          /\ handling' = handling \cup {n}
    /\ UNCHANGED <<rcs, labelled, up, stamped, entry, used, queues, r, x, edits>>

(* Namespaces are read, and not watched. *)
Relabel ==
    /\ Change("label")
    /\ labelled' = ~labelled
    /\ UNCHANGED <<rcs, secrets, up, stamped, handling, entry, used, queues, r, x, edits>>

Outage ==
    /\ Change("outage")
    /\ up
    /\ up' = FALSE
    /\ UNCHANGED <<rcs, secrets, labelled, stamped, handling, entry, used, queues, r, x, edits>>

Recover ==
    /\ ~up
    /\ up' = TRUE
    /\ UNCHANGED <<rcs, secrets, labelled, stamped, handling, entry, used, queues, r, x, budget>>

Next ==
    \/ RBuild \/ RProbe \/ RTimer \/ XBuild \/ XStart
    \/ DeliverCluster \/ \E n \in DOMAIN secrets : HandleSecret(n)
    \/ EditCluster \/ ChangeSecret \/ Relabel \/ Outage \/ Recover

Spec == Init /\ [][Next]_vars

(* The workers, the informers and the probe timer go on, and outages end.  *)
FairSpec ==
    /\ Spec
    /\ WF_vars(RBuild \/ RProbe) /\ WF_vars(XBuild \/ XStart)
    /\ WF_vars(DeliverCluster) /\ WF_vars(\E n \in DOMAIN secrets : HandleSecret(n))
    /\ WF_vars(RTimer) /\ WF_vars(Recover)

-----------------------------------------------------------------------------
(* Properties. *)

(* What a Build would give now. *)
Now == BuildNow(Live.access)

(* Every variable has its type, and a CrossService goes on to the client   *)
(* cache only with a connection that was built.                            *)
TypeOK ==
    /\ rcs \in Seq(RemoteCluster) /\ Len(rcs) \in 1 .. MaxLag
    /\ DOMAIN secrets = DOMAIN Contents
    /\ \A n \in DOMAIN secrets : secrets[n] \in Contents[n]
    /\ handling \subseteq DOMAIN secrets
    /\ used \in {"new", "denied", "failed", "attached"}
    /\ {labelled, up, stamped, queueR, queueX, timerR} \subseteq BOOLEAN
    /\ r.pc \in {"idle", "probe"} /\ x.pc \in {"idle", "start"}
    /\ x.pc = "start" => x.built.ok

(* Nothing is left for the RemoteCluster controller to do now. *)
Settled == r.pc = "idle" /\ ~queueR /\ handling = {} /\ Len(rcs) = 1

(* When the controller rests, the status is the verdict on the spec and    *)
(* the Secrets there are: an error names its reason and the object is not  *)
(* Ready; a connection that was built is authenticated, has its endpoint in*)
(* the status, and the next probe is on its way.  A Build that failed is   *)
(* not repeated on a timer because "the Secret and spec watches will       *)
(* retrigger when something actually changes".                             *)
SettledMeansJudged ==
    Settled /\ Listed(Live.access) =>
        IF Now.ok
        THEN /\ Live.status.authenticated = "true"
             /\ Live.status.host = Now.config.connection.host
             /\ Live.status.observed = Live.generation
             /\ timerR
        ELSE /\ Live.status.authenticated = "false" /\ Live.status.ready = "false"
             /\ Live.status.reason = Now.reason

(* A client whose fingerprint is the one a Build gives now talks to the    *)
(* server, with the credentials, under the CA and the server name and      *)
(* through the proxy that a new client would: reusing it misses no rotation*)
(* of these.  It may still mint tokens for other scopes or another server  *)
(* application, skip verification otherwise, or impersonate or time out    *)
(* otherwise, as these inputs are not hashed; what the GKE API answers is  *)
(* not hashed either, and stays the same here.                             *)
FingerprintTells ==
    entry # None /\ Now.ok /\ entry.fingerprint = Now.fingerprint =>
        SameAccess(entry.config, Now.config)

(* Once changes stop, a CrossService whose namespace is granted the cluster *)
(* has a client with the server, the credentials, the CA and the proxy of   *)
(* the spec and the Secrets there are, and says so; one that is not granted *)
(* says denied.  Namespaces are not watched: it is the probe's              *)
(* lastProbeTime that has the grant looked at again.                        *)
EventuallyAttached ==
    <>[](Now.ok /\ Listed(Live.access) =>
           IF checkNamespaceAllowed(Live.grant)
           THEN /\ used = "attached"
                /\ entry # None
                /\ SameAccess(entry.config, Now.config)
           ELSE used = "denied")
=============================================================================
