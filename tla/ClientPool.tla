----------------------------- MODULE ClientPool -----------------------------
(***************************************************************************)
(* What a shared cache of remote-cluster clients promises, with the workers*)
(* and the handler left out: at most one client per cluster, one opened at *)
(* a time with everything else shut out meanwhile, never a change of the   *)
(* credentials under a running client, and no user forgotten.  Module      *)
(* ClientCache implements it.                                              *)
(***************************************************************************)
EXTENDS Naturals, Functions

CONSTANTS
    Clusters,   \* RemoteCluster names
    Services    \* CrossServices

VARIABLES
    clients,    \* cluster -> credentials and users of its running client
    opening,    \* the cluster a client is being opened for, if any
    issued,     \* the newest credentials of every cluster
    live        \* CrossServices that are not deleted

vars == <<clients, opening, issued, live>>

Init ==
    /\ clients = <<>>
    /\ opening = {}
    /\ issued = [cl \in Clusters |-> 0]
    /\ live = Services

-----------------------------------------------------------------------------
(* The pool. *)

(* The client there is, if any, is stopped before the next one is opened. *)
Begin(cl) ==
    /\ opening = {}
    /\ opening' = {cl}
    /\ clients' = Restrict(clients, DOMAIN clients \ {cl})
    /\ UNCHANGED <<issued, live>>

(* A client starts without users, with credentials the cluster has had. *)
Open(cl) ==
    /\ opening = {cl}
    /\ opening' = {}
    /\ cl \notin DOMAIN clients
    /\ \E k \in 0 .. issued[cl] :
          clients' = [d \in DOMAIN clients \cup {cl} |->
                        IF d = cl THEN [fingerprint |-> k, consumers |-> {}] ELSE clients[d]]
    /\ UNCHANGED <<issued, live>>

Abort ==
    /\ opening # {}
    /\ opening' = {}
    /\ UNCHANGED <<clients, issued, live>>

Join(cl, c) ==
    /\ opening = {} /\ cl \in DOMAIN clients
    /\ clients' = [clients EXCEPT ![cl].consumers = @ \cup {c}]
    /\ UNCHANGED <<opening, issued, live>>

(* Only a deleted CrossService leaves, and with the last user the client. *)
Leave(c) ==
    /\ opening = {} /\ c \notin live
    /\ clients' = [cl \in {d \in DOMAIN clients : clients[d].consumers \ {c} # {}} |->
                     [clients[cl] EXCEPT !.consumers = @ \ {c}]]
    /\ UNCHANGED <<opening, issued, live>>

Close(cl) ==
    /\ opening = {}
    /\ clients' = Restrict(clients, DOMAIN clients \ {cl})
    /\ UNCHANGED <<opening, issued, live>>

-----------------------------------------------------------------------------
(* What happens to it. *)

Issue(cl) ==
    /\ issued' = [issued EXCEPT ![cl] = @ + 1]
    /\ UNCHANGED <<clients, opening, live>>

Depart(c) ==
    /\ live' = live \ {c}
    /\ UNCHANGED <<clients, opening, issued>>

Crash ==
    /\ clients' = <<>>
    /\ opening' = {}
    /\ UNCHANGED <<issued, live>>

Next ==
    \/ \E cl \in Clusters : Begin(cl) \/ Open(cl) \/ Close(cl) \/ Issue(cl)
    \/ \E c \in Services : Leave(c) \/ Depart(c) \/ \E cl \in Clusters : Join(cl, c)
    \/ Abort \/ Crash

Spec == Init /\ [][Next]_vars
=============================================================================
