-------------------------------- MODULE Auth --------------------------------
(***************************************************************************)
(* internal/clusters/auth: the connection that Build makes of a            *)
(* RemoteCluster's access block and the Secrets it names, and the          *)
(* fingerprint that stands for it in the client cache.                     *)
(*                                                                         *)
(* Secrets maps the name of a Secret to its data (key -> value).  A        *)
(* fingerprint is the set of what is hashed, label by label: SHA-256 is    *)
(* taken as injective, and the order in which a type adds its labels is    *)
(* fixed.                                                                  *)
(***************************************************************************)
EXTENDS Integers, Sequences, FiniteSets

CONSTANTS
    None,
    Options,      \* allowInsecureTLS and allowExecCredentials of the flags
    Kubeconfigs,  \* what a kubeconfig that parses says: value -> context -> connection
    Malformed     \* proxy URLs and Google keys that do not parse

ASSUME OptionsAssumption ==
    Options \in [allowInsecureTLS : BOOLEAN, allowExecCredentials : BOOLEAN]

AccessTypes ==
    {"InCluster", "Token", "Kubeconfig", "GoogleToken", "WorkloadIdentity", "GKE", "ConnectGateway",
     "ClientCertificate", "ProjectedServiceAccount", "ExecPlugin", "EKS", "AKS"}

(* Key "" stands for the default keys. *)
SecretKeyRef == [name : STRING, key : STRING]

TLSConfig == [ca : SecretKeyRef \cup {None}, serverName : STRING, insecure : BOOLEAN]

(* The access block with the block of its type folded in: what is not set, *)
(* or the type does not have, is None, or "".  subject is the identity of  *)
(* WorkloadIdentity and AKS, the GKE cluster, the context of a kubeconfig; *)
(* credential and ownCA are the type's own references, ambient is          *)
(* impersonateServiceAccount, private is usePrivateEndpoint, audience is   *)
(* what tokens are asked for: the scopes of the Google types, the server   *)
(* application of AKS.                                                     *)
ClusterAccess ==
    [type : AccessTypes, server : STRING, subject : STRING, ambient : STRING, private : BOOLEAN,
     audience : STRING,
     credential : SecretKeyRef \cup {None}, ownCA : SecretKeyRef \cup {None},
     tls : TLSConfig \cup {None}, proxy : STRING \cup {None}, impersonate : STRING \cup {None},
     timeout : Nat]

(* The blocks of these types have a Secret reference that is not optional. *)
HasCredential(access) ==
    access.type \in {"Token", "Kubeconfig", "ClientCertificate"} => access.credential # None

-----------------------------------------------------------------------------

(* The error of a Build, by the reason reasonForClusterError gives for it. *)
Error(reason) == [ok |-> FALSE, reason |-> reason]

NotImplemented == Error("AccessTypeNotImplemented")
NotPermitted == Error("InvalidSpec")
Unusable == Error("AuthenticationFailed")

(* Secrets.Value: the key the reference names, or the first default there  *)
(* is; empty values are not in the data.                                   *)
Value(secrets, ref, defaultKeys) ==
    LET candidates == IF ref.key # "" THEN <<ref.key>> ELSE defaultKeys
        there == {i \in DOMAIN candidates : candidates[i] \in DOMAIN secrets[ref.name]}
    IN  IF ref.name \notin DOMAIN secrets THEN None
        ELSE IF there = {} THEN None
        ELSE secrets[ref.name][candidates[CHOOSE i \in there : \A j \in there : i <= j]]

(* tlsFrom: the CA of the variant, or else the one of the tls block. *)
CARef(access) ==
    IF access.ownCA # None THEN access.ownCA
    ELSE IF access.tls # None THEN access.tls.ca ELSE None

CAMissing(access, secrets) ==
    CARef(access) # None /\ Value(secrets, CARef(access), <<"ca.crt">>) = None

TLSOf(access, secrets) ==
    [ca |-> IF CARef(access) = None THEN None ELSE Value(secrets, CARef(access), <<"ca.crt">>),
     serverName |-> IF access.tls = None THEN "" ELSE access.tls.serverName,
     insecure |-> access.tls # None /\ access.tls.insecure]

TLSPrint(access, secrets) ==
    LET tls == TLSOf(access, secrets)
    IN  (IF tls.ca # None THEN {<<"ca", tls.ca>>} ELSE {})
        \cup (IF access.tls # None THEN {<<"serverName", tls.serverName>>} ELSE {})

(* defaultGoogleScope and aksServerApplicationID *)
Audience(access) == IF access.audience = "" THEN "default" ELSE access.audience

(* audience is None where no token is minted. *)
Connected(host, credential, audience, tls, print) ==
    [ok |-> TRUE, fingerprint |-> print,
     config |-> [host |-> host, credential |-> credential, audience |-> audience, tls |-> tls]]

-----------------------------------------------------------------------------
(* One builder per access type.  The surroundings of the controller are    *)
(* [pod, adc, gke]: whether it runs in a Pod, whether there are ambient    *)
(* credentials to find, and what the GKE API says of the cluster, or None. *)

buildInCluster(cloud) ==
    IF ~cloud.pod THEN Unusable ELSE Connected("local", <<"serviceaccount">>, None, None, {})

buildToken(access, secrets) ==
    LET token == Value(secrets, access.credential, <<"token">>)
    IN  IF token = None \/ CAMissing(access, secrets) THEN Unusable
        ELSE Connected(access.server, <<token>>, None, TLSOf(access, secrets),
                       TLSPrint(access, secrets)
                       \cup {<<"server", access.server>>, <<"token", token>>})

buildKubeconfig(access, secrets) ==
    LET raw == Value(secrets, access.credential, <<"value", "config">>)
    IN  IF raw = None \/ raw \notin DOMAIN Kubeconfigs THEN Unusable
        ELSE IF access.subject \notin DOMAIN Kubeconfigs[raw] THEN Unusable
        ELSE LET c == Kubeconfigs[raw][access.subject]
             IN  IF c.exec /\ ~Options.allowExecCredentials THEN NotPermitted
                 ELSE IF c.insecure /\ ~Options.allowInsecureTLS THEN NotPermitted
                 ELSE Connected(c.server, <<c.credential>>, None,
                                [ca |-> c.ca, serverName |-> "", insecure |-> c.insecure],
                                {<<"kubeconfig", raw>>, <<"context", access.subject>>})

(* googleTokenSource: the identity, the scopes of its tokens, and what is  *)
(* hashed, which the scopes are not; None if there is no identity or its   *)
(* key does not parse.                                                     *)
googleTokenSource(access, secrets, cloud) ==
    LET key == Value(secrets, access.credential, <<"key.json">>)
        base == IF access.credential # None THEN IF key \in Malformed THEN None ELSE key
                ELSE IF cloud.adc THEN "adc" ELSE None
        hashed == IF access.credential # None THEN <<"gcpKey", key>> ELSE <<"gcpCreds", "adc">>
    IN  IF base = None THEN None
        ELSE [identity |-> <<base, access.ambient>>, scopes |-> Audience(access),
              print |-> {hashed} \cup (IF access.ambient # "" THEN {<<"impersonate", access.ambient>>}
                                                              ELSE {})]

buildGoogleToken(access, secrets, cloud) ==
    LET source == googleTokenSource(access, secrets, cloud)
    IN  IF source = None \/ CAMissing(access, secrets) THEN Unusable
        ELSE Connected(access.server, source.identity, source.scopes, TLSOf(access, secrets),
                       TLSPrint(access, secrets) \cup source.print
                       \cup {<<"server", access.server>>})

(* The scopes are not hashed. *)
buildWorkloadIdentity(access, secrets, cloud) ==
    IF ~cloud.adc \/ CAMissing(access, secrets) THEN Unusable
    ELSE Connected(access.server, <<"adc", access.ambient>>, Audience(access), TLSOf(access, secrets),
                   TLSPrint(access, secrets)
                   \cup (IF access.ambient # "" THEN {<<"impersonate", access.ambient>>} ELSE {})
                   \cup {<<"server", access.server>>, <<"wiIdentity", access.subject>>})

(* Mutant: the key of the pair is not hashed. *)
buildClientCertificateHalf(access, secrets) ==
    LET cert == Value(secrets, [access.credential EXCEPT !.key = "tls.crt"], <<>>)
        key == Value(secrets, [access.credential EXCEPT !.key = "tls.key"], <<>>)
    IN  IF cert = None \/ key = None \/ CAMissing(access, secrets) THEN Unusable
        ELSE Connected(access.server, <<cert, key>>, None, TLSOf(access, secrets),
                       TLSPrint(access, secrets)
                       \cup {<<"server", access.server>>, <<"clientCert", cert>>})

(* A keypair: two keys of one Secret. *)
buildClientCertificate(access, secrets) ==
    LET cert == Value(secrets, [access.credential EXCEPT !.key = "tls.crt"], <<>>)
        key == Value(secrets, [access.credential EXCEPT !.key = "tls.key"], <<>>)
    IN  IF cert = None \/ key = None \/ CAMissing(access, secrets) THEN Unusable
        ELSE Connected(access.server, <<cert, key>>, None, TLSOf(access, secrets),
                       TLSPrint(access, secrets)
                       \cup {<<"server", access.server>>, <<"clientCert", cert>>,
                             <<"clientKey", key>>})

(* discoverGKECluster: the endpoint, "" if the API fails or has none. *)
discoverGKECluster(access, cloud) ==
    IF cloud.gke = None THEN ""
    ELSE IF access.private THEN cloud.gke.private ELSE cloud.gke.endpoint

(* A discovered CA wins; neither it nor the endpoint is hashed. *)
buildGKE(access, secrets, cloud) ==
    LET source == googleTokenSource(access, secrets, cloud)
        endpoint == discoverGKECluster(access, cloud)
        tls == TLSOf(access, secrets)
    IN  IF source = None \/ endpoint = "" \/ CAMissing(access, secrets) THEN Unusable
        ELSE Connected(endpoint, source.identity, source.scopes,
                       [ca |-> IF cloud.gke.ca # None THEN cloud.gke.ca ELSE tls.ca,
                        serverName |-> tls.serverName, insecure |-> tls.insecure],
                       TLSPrint(access, secrets) \cup source.print
                       \cup {<<"gkeCluster", access.subject>>, <<"gkePrivate", access.private>>})

(* The audience of the tokens is not hashed. *)
buildAKS(access, secrets) ==
    LET secret == Value(secrets, access.credential, <<"clientSecret">>)
    IN  IF access.credential = None THEN NotImplemented
        ELSE IF secret = None \/ CAMissing(access, secrets) THEN Unusable
        ELSE Connected(access.server, <<access.subject, secret>>, Audience(access),
                       TLSOf(access, secrets),
                       TLSPrint(access, secrets)
                       \cup {<<"server", access.server>>, <<"azureClient", access.subject>>,
                             <<"azureSecret", secret>>})

-----------------------------------------------------------------------------

checkTLSPermitted(access) ==
    access.tls # None /\ access.tls.insecure => Options.allowInsecureTLS

Dispatch(access, secrets, cloud) ==
    CASE access.type = "InCluster"         -> buildInCluster(cloud)
      [] access.type = "Token"             -> buildToken(access, secrets)
      [] access.type = "Kubeconfig"        -> buildKubeconfig(access, secrets)
      [] access.type = "GoogleToken"       -> buildGoogleToken(access, secrets, cloud)
      [] access.type = "WorkloadIdentity"  -> buildWorkloadIdentity(access, secrets, cloud)
      [] access.type = "ClientCertificate" -> buildClientCertificate(access, secrets)
      [] access.type = "GKE"               -> buildGKE(access, secrets, cloud)
      [] access.type = "AKS"               -> buildAKS(access, secrets)
      [] OTHER                             -> NotImplemented

(* applyClientTuning, applyImpersonation and applyProxy, of which only the *)
(* proxy is hashed.                                                        *)
Tuned(access, built) ==
    [built EXCEPT
        !.config = [connection |-> @, proxy |-> access.proxy,
                    impersonate |-> access.impersonate, timeout |-> access.timeout],
        !.fingerprint = @ \cup {<<"type", access.type>>}
                          \cup (IF access.proxy = None THEN {} ELSE {<<"proxy", access.proxy>>})]

Build(access, secrets, cloud) ==
    LET built == Dispatch(access, secrets, cloud)
    IN  IF ~checkTLSPermitted(access) THEN NotPermitted
        ELSE IF ~built.ok THEN built
        ELSE IF access.proxy \in Malformed THEN Unusable
        ELSE Tuned(access, built)

(* The part of a client that its fingerprint stands for: the server, the   *)
(* credentials, the CA, the server name and the proxy.  Not hashed, and    *)
(* not compared: the audience of minted tokens, insecureSkipVerify,        *)
(* impersonation and the timeout.                                          *)
SameConnection(c1, c2) ==
    /\ c1.host = c2.host /\ c1.credential = c2.credential
    /\ c1.tls = c2.tls \/ (c1.tls.ca = c2.tls.ca /\ c1.tls.serverName = c2.tls.serverName)

SameAccess(c1, c2) == SameConnection(c1.connection, c2.connection) /\ c1.proxy = c2.proxy

(* Mutant: the CA of the tls block is forgotten. *)
SecretRefsOwn(access) ==
    {ref.name : ref \in {access.ownCA, access.credential} \ {None}}

(* SecretRefs: what the index, and through it the Secret watch, knows of.  *)
(* It knows nothing of the Secrets of the GKE and AKS variants.            *)
SecretRefs(access) ==
    LET shared  == IF access.tls # None THEN {access.tls.ca} ELSE {}
        variant == IF access.type \in {"GKE", "AKS"} THEN {}
                   ELSE {access.ownCA, access.credential}
    IN  {ref.name : ref \in (shared \cup variant) \ {None}}

(* The Secret watch knows of every Secret the access block reads: not so   *)
(* for the ones of GKE and AKS, which SecretRefs leaves out.               *)
Listed(access) ==
    access.type \in {"GKE", "AKS"} => access.credential = None /\ access.ownCA = None
=============================================================================
