--------------------------- MODULE MCRemoteAccess ---------------------------
(* Small instances of RemoteAccess for TLC. *)
EXTENDS RemoteAccess, TLC

Ref(n) == [name |-> n, key |-> ""]

Token ==
    [type |-> "Token", server |-> "s1", subject |-> "", credential |-> Ref("cred"), ownCA |-> None,
     ambient |-> "", private |-> FALSE, audience |-> "", tls |-> [ca |-> Ref("ca"), serverName |-> "", insecure |-> FALSE],
     proxy |-> None, impersonate |-> None, timeout |-> 0]

(* Variants with a CA of their own, and without a tls block. *)
Own(type) == [Token EXCEPT !.type = type, !.tls = None, !.ownCA = Ref("ca")]

Workload == [Token EXCEPT !.type = "WorkloadIdentity", !.credential = None, !.subject = "wi"]

(* The second block differs from the first in everything that is not       *)
(* hashed and in nothing else.  AKS without a client secret is not         *)
(* implemented.                                                            *)
MCAccesses ==
    {Workload,
     [Workload EXCEPT !.audience = "narrow", !.tls.insecure = TRUE, !.impersonate = "viewer",
                      !.timeout = 5],
     Token,
     [Token EXCEPT !.server = "s2", !.proxy = "p1"],
     [Token EXCEPT !.type = "Kubeconfig", !.tls = None, !.subject = "main"],
     Own("ClientCertificate"),
     [Own("GoogleToken") EXCEPT !.ambient = "robot"],
     [Token EXCEPT !.type = "GKE", !.tls = None, !.credential = None, !.subject = "gke"],
     [Token EXCEPT !.type = "InCluster", !.tls = None, !.credential = None],
     [Own("AKS") EXCEPT !.subject = "app", !.audience = "server"],
     [Own("AKS") EXCEPT !.credential = None]}

Selected == [names |-> FALSE, selector |-> TRUE]
MCGrants == {None, Selected}

MCInitial == [access |-> Workload, grant |-> Selected]

(* The certificate of a keypair may stay when its key is replaced. *)
Data(token, kubeconfig, key, pair, client) ==
    ("token" :> token) @@ ("value" :> kubeconfig) @@ ("key.json" :> key)
    @@ ("tls.crt" :> "cert") @@ ("tls.key" :> pair) @@ ("clientSecret" :> client)

Data1 == Data("token1", "kubeconfig1", "key1", "pair1", "client1")
Data2 == Data("token2", "kubeconfig2", "key2", "pair2", "client2")
Data3 == Data("token1", "kubeconfig1", "garbled", "pair1", "client1")

MCContents == [cred |-> {Data1, Data2, Data3}, ca |-> {None, "ca.crt" :> "ca1", "ca.crt" :> "ca2"}]

MCPresent == [cred |-> Data1, ca |-> "ca.crt" :> "ca1"]

(* The second kubeconfig uses a plugin. *)
MCKubeconfigs ==
    [v \in {"kubeconfig1", "kubeconfig2"} |->
        "main" :> [server |-> "s1", credential |-> v, ca |-> None, insecure |-> FALSE,
                   exec |-> v = "kubeconfig2"]]

MCOptions == [allowInsecureTLS |-> TRUE, allowExecCredentials |-> FALSE]

MCCloud == [pod |-> TRUE, adc |-> TRUE, gke |-> [endpoint |-> "public", private |-> "", ca |-> "gkeCA"]]
=============================================================================
