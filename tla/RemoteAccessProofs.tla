------------------------- MODULE RemoteAccessProofs -------------------------
(***************************************************************************)
(* The RemoteCluster controller and the client cache keep their promises   *)
(* for every set of access blocks, grants and Secrets, and any number of   *)
(* changes: the status is the verdict on what there is whenever the        *)
(* controller rests, and no client is reused for another connection.       *)
(***************************************************************************)
EXTENDS RemoteAccess, TLAPS

(* A Secret is there and says the same, or is not there, in s and in t. *)
SameSecret(s, t, n) ==
    /\ n \in DOMAIN s <=> n \in DOMAIN t
    /\ n \in DOMAIN s => s[n] = t[n]

-----------------------------------------------------------------------------
(* What Build reads. *)

(* Secrets.Value reads no Secret but the one its reference names. *)
LEMMA ValueReads ==
    ASSUME NEW s, NEW t, NEW ref, NEW keys, SameSecret(s, t, ref.name)
    PROVE  Value(s, ref, keys) = Value(t, ref, keys)
  <1>1. CASE ref.name \in DOMAIN s
    <2>1. ref.name \in DOMAIN t /\ s[ref.name] = t[ref.name]
      BY <1>1, Zenon DEF SameSecret
    <2> QED  BY <1>1, <2>1 DEF Value
  <1>2. CASE ref.name \notin DOMAIN s
    <2>1. ref.name \notin DOMAIN t
      BY <1>2, Zenon DEF SameSecret
    <2> QED  BY <1>2, <2>1, Zenon DEF Value
  <1> QED  BY <1>1, <1>2, Zenon

(* tlsFrom reads the Secret of the CA reference only. *)
LEMMA TLSReads ==
    ASSUME NEW a \in ClusterAccess, NEW s, NEW t,
           CARef(a) # None => SameSecret(s, t, CARef(a).name)
    PROVE  /\ CAMissing(a, s) = CAMissing(a, t)
           /\ TLSOf(a, s) = TLSOf(a, t)
           /\ TLSPrint(a, s) = TLSPrint(a, t)
  <1>1. CASE CARef(a) = None
    BY <1>1, Zenon DEF CAMissing, TLSOf, TLSPrint
  <1>2. CASE CARef(a) # None
    <2>1. Value(s, CARef(a), <<"ca.crt">>) = Value(t, CARef(a), <<"ca.crt">>)
      BY <1>2, ValueReads
    <2> QED  BY <2>1, Zenon DEF CAMissing, TLSOf, TLSPrint
  <1> QED  BY <1>1, <1>2, Zenon

(* The references an access block reads are the ones SecretRefs lists. *)
LEMMA ListedReads ==
    ASSUME NEW a \in ClusterAccess, Listed(a)
    PROVE  /\ CARef(a) # None => CARef(a).name \in SecretRefs(a)
           /\ a.credential # None => a.credential.name \in SecretRefs(a)
  <1>1. CASE a.type \in {"GKE", "AKS"}
    BY <1>1, Zenon DEF Listed, CARef, SecretRefs
  <1>2. CASE a.type \notin {"GKE", "AKS"}
    BY <1>2, Zenon DEF CARef, SecretRefs
  <1> QED  BY <1>1, <1>2, Zenon

(* Build of a block the Secret watch knows all about depends on no Secret  *)
(* the watch would not react to.                                           *)
THEOREM BuildReads ==
    ASSUME NEW a \in ClusterAccess, HasCredential(a), Listed(a), NEW s, NEW t, NEW cloud,
           \A n \in SecretRefs(a) : SameSecret(s, t, n)
    PROVE  Build(a, s, cloud) = Build(a, t, cloud)
  <1>1. /\ CAMissing(a, s) = CAMissing(a, t)
        /\ TLSOf(a, s) = TLSOf(a, t)
        /\ TLSPrint(a, s) = TLSPrint(a, t)
    BY ListedReads, TLSReads, Zenon
  <1>2. ASSUME NEW keys, a.credential # None
        PROVE  Value(s, a.credential, keys) = Value(t, a.credential, keys)
    BY <1>2, ListedReads, ValueReads
  <1>3. ASSUME NEW k \in STRING, a.credential # None
        PROVE  LET ref == [a.credential EXCEPT !.key = k]
               IN  Value(s, ref, <<>>) = Value(t, ref, <<>>)
    <2> DEFINE ref == [a.credential EXCEPT !.key = k]
    <2>1. a.credential \in SecretKeyRef
      BY <1>3, Zenon DEF ClusterAccess
    <2>2. ref.name = a.credential.name
      BY <2>1, Zenon DEF SecretKeyRef
    <2>3. SameSecret(s, t, ref.name)
      BY <1>3, <2>2, ListedReads, Zenon
    <2> HIDE DEF ref
    <2>4. Value(s, ref, <<>>) = Value(t, ref, <<>>)
      BY <2>3, ValueReads
    <2> QED  BY <2>4, Zenon DEF ref
  <1>4. googleTokenSource(a, s, cloud) = googleTokenSource(a, t, cloud)
    <2>1. CASE a.credential = None
      BY <2>1, Zenon DEF googleTokenSource
    <2>2. CASE a.credential # None
      <3>1. Value(s, a.credential, <<"key.json">>) = Value(t, a.credential, <<"key.json">>)
        BY <2>2, <1>2, Zenon
      <3> QED  BY <3>1, Zenon DEF googleTokenSource
    <2> QED  BY <2>1, <2>2, Zenon
  <1>5. Dispatch(a, s, cloud) = Dispatch(a, t, cloud)
    <2>1. CASE a.type = "Token"
      BY <2>1, <1>1, <1>2 DEF HasCredential, Dispatch, buildToken
    <2>2. CASE a.type = "Kubeconfig"
      BY <2>2, <1>2 DEF HasCredential, Dispatch, buildKubeconfig
    <2>3. CASE a.type = "GoogleToken"
      BY <2>3, <1>1, <1>4, Zenon DEF Dispatch, buildGoogleToken
    <2>4. CASE a.type = "WorkloadIdentity"
      BY <2>4, <1>1, Zenon DEF Dispatch, buildWorkloadIdentity
    <2>5. CASE a.type = "ClientCertificate"
      BY <2>5, <1>1, <1>3 DEF HasCredential, Dispatch, buildClientCertificate
    <2>6. CASE a.type = "GKE"
      BY <2>6, <1>1, <1>4, Zenon DEF Dispatch, buildGKE
    <2>7. CASE a.type = "AKS"
      <3>1. CASE a.credential = None
        BY <2>7, <3>1, Zenon DEF Dispatch, buildAKS
      <3>2. CASE a.credential # None
        BY <2>7, <3>2, <1>1, <1>2 DEF Dispatch, buildAKS
      <3> QED  BY <3>1, <3>2, Zenon
    <2>8. CASE a.type \notin {"Token", "Kubeconfig", "GoogleToken", "WorkloadIdentity",
                              "ClientCertificate", "GKE", "AKS"}
      BY <2>8, Zenon DEF Dispatch
    <2> QED  BY <2>1, <2>2, <2>3, <2>4, <2>5, <2>6, <2>7, <2>8, Zenon
  <1> QED  BY <1>5, Zenon DEF Build

-----------------------------------------------------------------------------
(* What the fingerprint tells apart. *)

(* What a builder that succeeds returns, type by type; token, raw and the  *)
(* others are the values it reads.                                         *)
LEMMA ErrorNotOk ==
    /\ ~NotImplemented.ok
    /\ ~NotPermitted.ok
    /\ ~Unusable.ok
  BY Zenon DEF NotImplemented, NotPermitted, Unusable, Error

(* A Token connection. *)
LEMMA TokenBuilt ==
    ASSUME NEW a, NEW s, NEW cloud, a.type = "Token", Dispatch(a, s, cloud).ok
    PROVE  \E token :
             Dispatch(a, s, cloud) = Connected(a.server, <<token>>, None, TLSOf(a, s),
                 TLSPrint(a, s) \cup {<<"server", a.server>>, <<"token", token>>})
  <1>1. Dispatch(a, s, cloud) = buildToken(a, s)
    BY Zenon DEF Dispatch
  <1> DEFINE token == Value(s, a.credential, <<"token">>)
  <1>2. ~(token = None \/ CAMissing(a, s))
    BY <1>1, ErrorNotOk, Zenon DEF buildToken
  <1>3. buildToken(a, s) = Connected(a.server, <<token>>, None, TLSOf(a, s),
                 TLSPrint(a, s) \cup {<<"server", a.server>>, <<"token", token>>})
    BY <1>2, Zenon DEF buildToken
  <1> QED  BY <1>1, <1>3, Zenon

(* The connection of a keypair. *)
KeyPair(a, s, cert, key) ==
    Connected(a.server, <<cert, key>>, None, TLSOf(a, s),
              TLSPrint(a, s) \cup {<<"server", a.server>>, <<"clientCert", cert>>,
                                   <<"clientKey", key>>})

(* A keypair. *)
LEMMA CertificateBuilt ==
    ASSUME NEW a, NEW s, NEW cloud, a.type = "ClientCertificate", Dispatch(a, s, cloud).ok
    PROVE  \E cert, key :
             Dispatch(a, s, cloud) = KeyPair(a, s, cert, key)
  <1>1. Dispatch(a, s, cloud) = buildClientCertificate(a, s)
    BY Zenon DEF Dispatch
  <1> DEFINE cert == Value(s, [a.credential EXCEPT !.key = "tls.crt"], <<>>)
             key == Value(s, [a.credential EXCEPT !.key = "tls.key"], <<>>)
  <1>2. ~(cert = None \/ key = None \/ CAMissing(a, s))
    BY <1>1, ErrorNotOk, Zenon DEF buildClientCertificate
  <1>3. buildClientCertificate(a, s) = KeyPair(a, s, cert, key)
    BY <1>2, Zenon DEF buildClientCertificate, KeyPair
  <1> QED  BY <1>1, <1>3, Zenon

(* A client secret of Azure. *)
LEMMA AzureBuilt ==
    ASSUME NEW a, NEW s, NEW cloud, a.type = "AKS", Dispatch(a, s, cloud).ok
    PROVE  \E secret :
             Dispatch(a, s, cloud) = Connected(a.server, <<a.subject, secret>>, Audience(a), TLSOf(a, s),
                 TLSPrint(a, s) \cup {<<"server", a.server>>, <<"azureClient", a.subject>>,
                                      <<"azureSecret", secret>>})
  <1>1. Dispatch(a, s, cloud) = buildAKS(a, s)
    BY Zenon DEF Dispatch
  <1> DEFINE secret == Value(s, a.credential, <<"clientSecret">>)
  <1>2. ~(a.credential = None \/ secret = None \/ CAMissing(a, s))
    BY <1>1, ErrorNotOk, Zenon DEF buildAKS
  <1>3. buildAKS(a, s) = Connected(a.server, <<a.subject, secret>>, Audience(a), TLSOf(a, s),
                 TLSPrint(a, s) \cup {<<"server", a.server>>, <<"azureClient", a.subject>>,
                                      <<"azureSecret", secret>>})
    BY <1>2, Zenon DEF buildAKS
  <1> QED  BY <1>1, <1>3, Zenon

(* The connection of a context of a kubeconfig. *)
Context(raw, context) ==
    LET c == Kubeconfigs[raw][context]
    IN  Connected(c.server, <<c.credential>>, None,
                  [ca |-> c.ca, serverName |-> "", insecure |-> c.insecure],
                  {<<"kubeconfig", raw>>, <<"context", context>>})

(* A context of a kubeconfig. *)
LEMMA KubeconfigBuilt ==
    ASSUME NEW a, NEW s, NEW cloud, a.type = "Kubeconfig", Dispatch(a, s, cloud).ok
    PROVE  \E raw :
             /\ raw \in DOMAIN Kubeconfigs /\ a.subject \in DOMAIN Kubeconfigs[raw]
             /\ Dispatch(a, s, cloud) = Context(raw, a.subject)
  <1>1. Dispatch(a, s, cloud) = buildKubeconfig(a, s)
    BY Zenon DEF Dispatch
  <1> DEFINE raw == Value(s, a.credential, <<"value", "config">>)
             c == Kubeconfigs[raw][a.subject]
  <1>2. /\ ~(raw = None \/ raw \notin DOMAIN Kubeconfigs)
        /\ ~(a.subject \notin DOMAIN Kubeconfigs[raw])
        /\ ~(c.exec /\ ~Options.allowExecCredentials)
        /\ ~(c.insecure /\ ~Options.allowInsecureTLS)
    BY <1>1, ErrorNotOk, Zenon DEF buildKubeconfig
  <1>3. buildKubeconfig(a, s) = Context(raw, a.subject)
    BY <1>2, Zenon DEF buildKubeconfig, Context
  <1> QED  BY <1>1, <1>2, <1>3, Zenon

(* A Google identity: an account key or the ambient credentials, as itself *)
(* or as the service account it impersonates.                              *)
GooglePrint(keyed, base, ambient) ==
    {IF keyed THEN <<"gcpKey", base>> ELSE <<"gcpCreds", "adc">>}
    \cup (IF ambient # "" THEN {<<"impersonate", ambient>>} ELSE {})

(* googleTokenSource, when there is a token source. *)
LEMMA GoogleSource ==
    ASSUME NEW a, NEW s, NEW cloud, googleTokenSource(a, s, cloud) # None
    PROVE  \E keyed \in BOOLEAN : \E base :
             /\ ~keyed => base = "adc"
             /\ googleTokenSource(a, s, cloud) =
                  [identity |-> <<base, a.ambient>>, scopes |-> Audience(a), print |-> GooglePrint(keyed, base, a.ambient)]
  <1>1. CASE a.credential # None
    <2> DEFINE key == Value(s, a.credential, <<"key.json">>)
    <2>1. key # None /\ key \notin Malformed
      BY <1>1, Zenon DEF googleTokenSource
    <2>2. googleTokenSource(a, s, cloud) =
            [identity |-> <<key, a.ambient>>, scopes |-> Audience(a), print |-> GooglePrint(TRUE, key, a.ambient)]
      BY <1>1, <2>1, Zenon DEF googleTokenSource, GooglePrint
    <2> QED  BY <2>2, Zenon
  <1>2. CASE a.credential = None
    <2>1. cloud.adc /\ "adc" # None
      BY <1>2, Zenon DEF googleTokenSource
    <2>2. googleTokenSource(a, s, cloud) =
            [identity |-> <<"adc", a.ambient>>, scopes |-> Audience(a), print |-> GooglePrint(FALSE, "adc", a.ambient)]
      BY <1>2, <2>1, Zenon DEF googleTokenSource, GooglePrint
    <2> QED  BY <2>2, Zenon
  <1> QED  BY <1>1, <1>2, Zenon

(* The connections of a Google token and of a GKE cluster. *)
GoogleToken(a, s, keyed, base) ==
    Connected(a.server, <<base, a.ambient>>, Audience(a), TLSOf(a, s),
              TLSPrint(a, s) \cup GooglePrint(keyed, base, a.ambient) \cup {<<"server", a.server>>})

DiscoveredTLS(tls, cloud) ==
    [ca |-> IF cloud.gke.ca # None THEN cloud.gke.ca ELSE tls.ca,
     serverName |-> tls.serverName, insecure |-> tls.insecure]

GKECluster(a, s, cloud, keyed, base) ==
    Connected(discoverGKECluster(a, cloud), <<base, a.ambient>>, Audience(a),
              DiscoveredTLS(TLSOf(a, s), cloud),
              TLSPrint(a, s) \cup GooglePrint(keyed, base, a.ambient)
              \cup {<<"gkeCluster", a.subject>>, <<"gkePrivate", a.private>>})

(* A token of Google. *)
LEMMA GoogleBuilt ==
    ASSUME NEW a, NEW s, NEW cloud, a.type = "GoogleToken", Dispatch(a, s, cloud).ok
    PROVE  \E keyed \in BOOLEAN : \E base :
             /\ ~keyed => base = "adc"
             /\ Dispatch(a, s, cloud) = GoogleToken(a, s, keyed, base)
  <1>1. Dispatch(a, s, cloud) = buildGoogleToken(a, s, cloud)
    BY Zenon DEF Dispatch
  <1> DEFINE source == googleTokenSource(a, s, cloud)
  <1>2. ~(source = None \/ CAMissing(a, s))
    BY <1>1, ErrorNotOk, Zenon DEF buildGoogleToken
  <1>3. buildGoogleToken(a, s, cloud) = Connected(a.server, source.identity, source.scopes, TLSOf(a, s),
                    TLSPrint(a, s) \cup source.print \cup {<<"server", a.server>>})
    BY <1>2, Zenon DEF buildGoogleToken
  <1>k. PICK keyed \in BOOLEAN : \E base :
             /\ ~keyed => base = "adc"
             /\ source = [identity |-> <<base, a.ambient>>, scopes |-> Audience(a), print |-> GooglePrint(keyed, base, a.ambient)]
    BY <1>2, GoogleSource, Zenon
  <1>4. PICK base :
             /\ ~keyed => base = "adc"
             /\ source = [identity |-> <<base, a.ambient>>, scopes |-> Audience(a), print |-> GooglePrint(keyed, base, a.ambient)]
    BY <1>k, Zenon
  <1>5. /\ source.identity = <<base, a.ambient>> /\ source.scopes = Audience(a)
        /\ source.print = GooglePrint(keyed, base, a.ambient)
    BY <1>4
  <1> HIDE DEF source
  <1>6. Dispatch(a, s, cloud) = GoogleToken(a, s, keyed, base)
    BY <1>1, <1>3, <1>5, Zenon DEF GoogleToken
  <1> QED  BY <1>4, <1>6, Zenon

(* A GKE cluster: the endpoint and the CA the API gives are not hashed. *)
LEMMA GKEBuilt ==
    ASSUME NEW a, NEW s, NEW cloud, a.type = "GKE", Dispatch(a, s, cloud).ok
    PROVE  \E keyed \in BOOLEAN : \E base :
             /\ ~keyed => base = "adc"
             /\ Dispatch(a, s, cloud) = GKECluster(a, s, cloud, keyed, base)
  <1>1. Dispatch(a, s, cloud) = buildGKE(a, s, cloud)
    BY Zenon DEF Dispatch
  <1> DEFINE source == googleTokenSource(a, s, cloud)
             tls == DiscoveredTLS(TLSOf(a, s), cloud)
  <1>2. ~(source = None \/ discoverGKECluster(a, cloud) = "" \/ CAMissing(a, s))
    BY <1>1, ErrorNotOk, Zenon DEF buildGKE
  <1>3. buildGKE(a, s, cloud) = Connected(discoverGKECluster(a, cloud), source.identity, source.scopes, tls,
                    TLSPrint(a, s) \cup source.print
                    \cup {<<"gkeCluster", a.subject>>, <<"gkePrivate", a.private>>})
    BY <1>2, Zenon DEF buildGKE, DiscoveredTLS
  <1>k. PICK keyed \in BOOLEAN : \E base :
             /\ ~keyed => base = "adc"
             /\ source = [identity |-> <<base, a.ambient>>, scopes |-> Audience(a), print |-> GooglePrint(keyed, base, a.ambient)]
    BY <1>2, GoogleSource, Zenon
  <1>4. PICK base :
             /\ ~keyed => base = "adc"
             /\ source = [identity |-> <<base, a.ambient>>, scopes |-> Audience(a), print |-> GooglePrint(keyed, base, a.ambient)]
    BY <1>k, Zenon
  <1>5. /\ source.identity = <<base, a.ambient>> /\ source.scopes = Audience(a)
        /\ source.print = GooglePrint(keyed, base, a.ambient)
    BY <1>4
  <1> HIDE DEF source
  <1>6. Dispatch(a, s, cloud) = GKECluster(a, s, cloud, keyed, base)
    BY <1>1, <1>3, <1>5, Zenon DEF GKECluster
  <1> QED  BY <1>4, <1>6, Zenon

(* A federated identity. *)
LEMMA WorkloadBuilt ==
    ASSUME NEW a, NEW s, NEW cloud, a.type = "WorkloadIdentity", Dispatch(a, s, cloud).ok
    PROVE  Dispatch(a, s, cloud) = Connected(a.server, <<"adc", a.ambient>>, Audience(a), TLSOf(a, s),
               TLSPrint(a, s) \cup (IF a.ambient # "" THEN {<<"impersonate", a.ambient>>} ELSE {})
               \cup {<<"server", a.server>>, <<"wiIdentity", a.subject>>})
  <1>1. Dispatch(a, s, cloud) = buildWorkloadIdentity(a, s, cloud)
    BY Zenon DEF Dispatch
  <1>2. ~(~cloud.adc \/ CAMissing(a, s))
    BY <1>1, ErrorNotOk, Zenon DEF buildWorkloadIdentity
  <1> QED  BY <1>1, <1>2, Zenon DEF buildWorkloadIdentity

(* A type with TLS settings hashes them together with a rest that uses     *)
(* other labels.                                                           *)
WithTLS(a, s, rest) == TLSPrint(a, s) \cup rest
NoTLSLabel(rest) == \A v : <<"ca", v>> \notin rest /\ <<"serverName", v>> \notin rest

(* TLS settings with the same CA and the same server name. *)
SameTLS(t1, t2) == t1.ca = t2.ca /\ t1.serverName = t2.serverName

(* The hash of the TLS settings tells them apart, whatever else is hashed  *)
(* under other labels; insecureSkipVerify is not hashed.                   *)
LEMMA TLSTells ==
    ASSUME NEW a \in ClusterAccess, NEW b \in ClusterAccess, NEW s, NEW t, NEW F, NEW G,
           NoTLSLabel(F), NoTLSLabel(G), WithTLS(a, s, F) = WithTLS(b, t, G)
    PROVE  SameTLS(TLSOf(a, s), TLSOf(b, t)) /\ F = G
  <1>p. TLSPrint(a, s) \cup F = TLSPrint(b, t) \cup G
    BY Zenon DEF WithTLS
  <1> DEFINE ta == TLSOf(a, s)
             tb == TLSOf(b, t)
             ca1 == IF CARef(a) = None THEN None ELSE Value(s, CARef(a), <<"ca.crt">>)
             ca2 == IF CARef(b) = None THEN None ELSE Value(t, CARef(b), <<"ca.crt">>)
             n1 == IF a.tls = None THEN "" ELSE a.tls.serverName
             n2 == IF b.tls = None THEN "" ELSE b.tls.serverName
  <1>1. ta.ca = ca1 /\ ta.serverName = n1
    BY Zenon DEF TLSOf
  <1>2. tb.ca = ca2 /\ tb.serverName = n2
    BY Zenon DEF TLSOf
  <1>3. TLSPrint(a, s) = (IF ca1 # None THEN {<<"ca", ca1>>} ELSE {})
                         \cup (IF a.tls # None THEN {<<"serverName", n1>>} ELSE {})
    <2> HIDE DEF ca1, n1, ta
    <2> QED  BY <1>1, Zenon DEF TLSPrint, ta
  <1>4. TLSPrint(b, t) = (IF ca2 # None THEN {<<"ca", ca2>>} ELSE {})
                         \cup (IF b.tls # None THEN {<<"serverName", n2>>} ELSE {})
    <2> HIDE DEF ca2, n2, tb
    <2> QED  BY <1>2, Zenon DEF TLSPrint, tb
  <1>n. (a.tls = None => n1 = "") /\ (b.tls = None => n2 = "")
    BY Zenon
  <1> HIDE DEF ca1, ca2, n1, n2, ta, tb
  <1>5. ca1 = ca2
    BY <1>3, <1>4, <1>p, Zenon DEF NoTLSLabel
  <1>6. n1 = n2
    BY <1>3, <1>4, <1>n, <1>p, Zenon DEF NoTLSLabel
  <1>7. F = G
    <2>1. \A p \in TLSPrint(a, s) : p \notin F \cup G
      BY <1>3, Zenon DEF NoTLSLabel
    <2>2. \A p \in TLSPrint(b, t) : p \notin F \cup G
      BY <1>4, Zenon DEF NoTLSLabel
    <2> QED  BY <2>1, <2>2, <1>p, Zenon
  <1> QED  BY <1>1, <1>2, <1>5, <1>6, <1>7, Zenon DEF ta, tb, SameTLS

(* A Google identity, hashed together with a rest that uses other labels. *)
WithGoogle(keyed, base, ambient, rest) == GooglePrint(keyed, base, ambient) \cup rest
NoGoogleLabel(rest) ==
    \A v : <<"gcpKey", v>> \notin rest /\ <<"gcpCreds", v>> \notin rest /\ <<"impersonate", v>> \notin rest

(* The hash of a Google identity tells it apart. *)
LEMMA GoogleTells ==
    ASSUME NEW k \in BOOLEAN, NEW l \in BOOLEAN, NEW c, NEW d, NEW m, NEW n, NEW F, NEW G,
           ~k => c = "adc", ~l => d = "adc",
           NoGoogleLabel(F), NoGoogleLabel(G), WithGoogle(k, c, m, F) = WithGoogle(l, d, n, G)
    PROVE  c = d /\ m = n /\ F = G
  <1> DEFINE idc == IF k THEN <<"gcpKey", c>> ELSE <<"gcpCreds", "adc">>
             idd == IF l THEN <<"gcpKey", d>> ELSE <<"gcpCreds", "adc">>
             imc == IF m # "" THEN {<<"impersonate", m>>} ELSE {}
             imd == IF n # "" THEN {<<"impersonate", n>>} ELSE {}
  <1>1. {idc} \cup imc \cup F = {idd} \cup imd \cup G
    BY Zenon DEF WithGoogle, GooglePrint
  <1>2. c = d
    <2>1. idc \in {idd} \cup imd \cup G
      BY <1>1, Zenon
    <2>2. idc = idd
      BY <2>1, Zenon DEF NoGoogleLabel
    <2> QED  BY <2>2, Zenon
  <1>3. m = n
    <2>1. ASSUME m # ""  PROVE m = n
      BY <2>1, <1>1, Zenon DEF NoGoogleLabel
    <2>2. ASSUME n # ""  PROVE m = n
      BY <2>2, <1>1, Zenon DEF NoGoogleLabel
    <2> QED  BY <2>1, <2>2, Zenon
  <1>4. F = G
    <2>1. idc = idd /\ imc = imd
      BY <1>1, <1>3, Zenon DEF NoGoogleLabel
    <2>2. idc \notin F \cup G /\ \A v \in imc : v \notin F \cup G
      BY Zenon DEF NoGoogleLabel
    <2> HIDE DEF idc, idd, imc, imd
    <2> QED  BY <1>1, <2>1, <2>2
  <1> QED  BY <1>2, <1>3, <1>4, Zenon

(* The types Dispatch has a builder for. *)
Implemented ==
    {"InCluster", "Token", "Kubeconfig", "GoogleToken", "WorkloadIdentity", "ClientCertificate",
     "GKE", "AKS"}

(* A builder that succeeds is one of those. *)
LEMMA OkImplemented ==
    ASSUME NEW a, NEW s, NEW cloud, Dispatch(a, s, cloud).ok
    PROVE  a.type \in Implemented
  <1>1. SUFFICES ASSUME a.type \notin Implemented PROVE FALSE
    BY Zenon
  <1>2. Dispatch(a, s, cloud) = NotImplemented
    BY <1>1, Zenon DEF Implemented, Dispatch
  <1> QED  BY <1>2, ErrorNotOk, Zenon

(* Two Token connections with one fingerprint are the same. *)
LEMMA TokenTells ==
    ASSUME NEW a \in ClusterAccess, NEW b \in ClusterAccess, NEW s, NEW t, NEW cloud,
           a.type = "Token", b.type = "Token",
           Dispatch(a, s, cloud).ok, Dispatch(b, t, cloud).ok,
           Dispatch(a, s, cloud).fingerprint = Dispatch(b, t, cloud).fingerprint
    PROVE  SameConnection(Dispatch(a, s, cloud).config, Dispatch(b, t, cloud).config)
  <1>1. PICK token1 :
          Dispatch(a, s, cloud) = Connected(a.server, <<token1>>, None, TLSOf(a, s),
              TLSPrint(a, s) \cup {<<"server", a.server>>, <<"token", token1>>})
    BY TokenBuilt, Zenon
  <1>2. PICK token2 :
          Dispatch(b, t, cloud) = Connected(b.server, <<token2>>, None, TLSOf(b, t),
              TLSPrint(b, t) \cup {<<"server", b.server>>, <<"token", token2>>})
    BY TokenBuilt, Zenon
  <1> DEFINE F == {<<"server", a.server>>, <<"token", token1>>}
             G == {<<"server", b.server>>, <<"token", token2>>}
  <1>3. NoTLSLabel(F) /\ NoTLSLabel(G)
    BY Zenon DEF NoTLSLabel
  <1>4. ASSUME F = G
        PROVE  a.server = b.server /\ token1 = token2
    <2>1. <<"server", a.server>> \in G /\ <<"token", token1>> \in G
      BY <1>4, Zenon
    <2> QED  BY <2>1, Zenon
  <1> HIDE DEF F, G
  <1>5. WithTLS(a, s, F) = WithTLS(b, t, G)
    BY <1>1, <1>2 DEF Connected, WithTLS, F, G
  <1>6. SameTLS(TLSOf(a, s), TLSOf(b, t)) /\ F = G
    BY <1>3, <1>5, TLSTells
  <1> QED  BY <1>1, <1>2, <1>4, <1>6 DEF Connected, SameTLS, SameConnection

(* Two keypairs with one fingerprint are the same. *)
LEMMA CertificateTells ==
    ASSUME NEW a \in ClusterAccess, NEW b \in ClusterAccess, NEW s, NEW t, NEW cloud,
           a.type = "ClientCertificate", b.type = "ClientCertificate",
           Dispatch(a, s, cloud).ok, Dispatch(b, t, cloud).ok,
           Dispatch(a, s, cloud).fingerprint = Dispatch(b, t, cloud).fingerprint
    PROVE  SameConnection(Dispatch(a, s, cloud).config, Dispatch(b, t, cloud).config)
  <1>1. PICK cert1, key1 : Dispatch(a, s, cloud) = KeyPair(a, s, cert1, key1)
    BY CertificateBuilt, Zenon
  <1>2. PICK cert2, key2 : Dispatch(b, t, cloud) = KeyPair(b, t, cert2, key2)
    BY CertificateBuilt, Zenon
  <1> DEFINE F == {<<"server", a.server>>, <<"clientCert", cert1>>, <<"clientKey", key1>>}
             G == {<<"server", b.server>>, <<"clientCert", cert2>>, <<"clientKey", key2>>}
  <1>3. NoTLSLabel(F) /\ NoTLSLabel(G)
    BY Zenon DEF NoTLSLabel
  <1>4. ASSUME F = G
        PROVE  a.server = b.server /\ cert1 = cert2 /\ key1 = key2
    <2>1. <<"server", a.server>> \in G /\ <<"clientCert", cert1>> \in G /\ <<"clientKey", key1>> \in G
      BY <1>4, Zenon
    <2> QED  BY <2>1, Zenon
  <1> HIDE DEF F, G
  <1>5. WithTLS(a, s, F) = WithTLS(b, t, G)
    BY <1>1, <1>2 DEF KeyPair, Connected, WithTLS, F, G
  <1>6. SameTLS(TLSOf(a, s), TLSOf(b, t)) /\ F = G
    BY <1>3, <1>5, TLSTells
  <1> QED  BY <1>1, <1>2, <1>4, <1>6 DEF KeyPair, Connected, SameTLS, SameConnection

(* Two client secrets of Azure with one fingerprint are the same. *)
LEMMA AzureTells ==
    ASSUME NEW a \in ClusterAccess, NEW b \in ClusterAccess, NEW s, NEW t, NEW cloud,
           a.type = "AKS", b.type = "AKS",
           Dispatch(a, s, cloud).ok, Dispatch(b, t, cloud).ok,
           Dispatch(a, s, cloud).fingerprint = Dispatch(b, t, cloud).fingerprint
    PROVE  SameConnection(Dispatch(a, s, cloud).config, Dispatch(b, t, cloud).config)
  <1>1. PICK secret1 :
          Dispatch(a, s, cloud) = Connected(a.server, <<a.subject, secret1>>, Audience(a), TLSOf(a, s),
              TLSPrint(a, s) \cup {<<"server", a.server>>, <<"azureClient", a.subject>>, <<"azureSecret", secret1>>})
    BY AzureBuilt, Zenon
  <1>2. PICK secret2 :
          Dispatch(b, t, cloud) = Connected(b.server, <<b.subject, secret2>>, Audience(b), TLSOf(b, t),
              TLSPrint(b, t) \cup {<<"server", b.server>>, <<"azureClient", b.subject>>, <<"azureSecret", secret2>>})
    BY AzureBuilt, Zenon
  <1> DEFINE F == {<<"server", a.server>>, <<"azureClient", a.subject>>, <<"azureSecret", secret1>>}
             G == {<<"server", b.server>>, <<"azureClient", b.subject>>, <<"azureSecret", secret2>>}
  <1>3. NoTLSLabel(F) /\ NoTLSLabel(G)
    BY Zenon DEF NoTLSLabel
  <1>4. ASSUME F = G
        PROVE  a.server = b.server /\ a.subject = b.subject /\ secret1 = secret2
    <2>1. <<"server", a.server>> \in G /\ <<"azureClient", a.subject>> \in G /\ <<"azureSecret", secret1>> \in G
      BY <1>4, Zenon
    <2> QED  BY <2>1, Zenon
  <1> HIDE DEF F, G
  <1>5. WithTLS(a, s, F) = WithTLS(b, t, G)
    BY <1>1, <1>2 DEF Connected, WithTLS, F, G
  <1>6. SameTLS(TLSOf(a, s), TLSOf(b, t)) /\ F = G
    BY <1>3, <1>5, TLSTells
  <1> QED  BY <1>1, <1>2, <1>4, <1>6 DEF Connected, SameTLS, SameConnection

(* Two Google tokens with one fingerprint are the same. *)
LEMMA GoogleTokenTells ==
    ASSUME NEW a \in ClusterAccess, NEW b \in ClusterAccess, NEW s, NEW t, NEW cloud,
           a.type = "GoogleToken", b.type = "GoogleToken",
           Dispatch(a, s, cloud).ok, Dispatch(b, t, cloud).ok,
           Dispatch(a, s, cloud).fingerprint = Dispatch(b, t, cloud).fingerprint
    PROVE  SameConnection(Dispatch(a, s, cloud).config, Dispatch(b, t, cloud).config)
  <1>1. PICK k, c : k \in BOOLEAN /\ (~k => c = "adc") /\ Dispatch(a, s, cloud) = GoogleToken(a, s, k, c)
    BY GoogleBuilt, Zenon
  <1>2. PICK l, d : l \in BOOLEAN /\ (~l => d = "adc") /\ Dispatch(b, t, cloud) = GoogleToken(b, t, l, d)
    BY GoogleBuilt, Zenon
  <1> DEFINE F == {<<"server", a.server>>}
             G == {<<"server", b.server>>}
             P == WithGoogle(k, c, a.ambient, F)
             Q == WithGoogle(l, d, b.ambient, G)
  <1>3. NoGoogleLabel(F) /\ NoGoogleLabel(G)
    BY Zenon DEF NoGoogleLabel
  <1>4. NoTLSLabel(P) /\ NoTLSLabel(Q)
    BY Zenon DEF NoTLSLabel, WithGoogle, GooglePrint
  <1>5. ASSUME F = G  PROVE a.server = b.server
    <2>1. <<"server", a.server>> \in G
      BY <1>5, Zenon
    <2> QED  BY <2>1, Zenon
  <1>6. WithTLS(a, s, P) = WithTLS(b, t, Q)
    BY <1>1, <1>2 DEF GoogleToken, Connected, WithTLS, WithGoogle
  <1> HIDE DEF F, G, P, Q
  <1>7. SameTLS(TLSOf(a, s), TLSOf(b, t)) /\ P = Q
    BY <1>4, <1>6, TLSTells
  <1>8. c = d /\ a.ambient = b.ambient /\ F = G
    BY <1>1, <1>2, <1>3, <1>7, GoogleTells DEF P, Q
  <1> QED  BY <1>1, <1>2, <1>5, <1>7, <1>8 DEF GoogleToken, Connected, SameTLS, SameConnection

(* Two GKE connections with one fingerprint are the same, as long as the   *)
(* GKE API gives the same answer.                                          *)
LEMMA GKETells ==
    ASSUME NEW a \in ClusterAccess, NEW b \in ClusterAccess, NEW s, NEW t, NEW cloud,
           a.type = "GKE", b.type = "GKE",
           Dispatch(a, s, cloud).ok, Dispatch(b, t, cloud).ok,
           Dispatch(a, s, cloud).fingerprint = Dispatch(b, t, cloud).fingerprint
    PROVE  SameConnection(Dispatch(a, s, cloud).config, Dispatch(b, t, cloud).config)
  <1>1. PICK k, c : k \in BOOLEAN /\ (~k => c = "adc") /\ Dispatch(a, s, cloud) = GKECluster(a, s, cloud, k, c)
    BY GKEBuilt, Zenon
  <1>2. PICK l, d : l \in BOOLEAN /\ (~l => d = "adc") /\ Dispatch(b, t, cloud) = GKECluster(b, t, cloud, l, d)
    BY GKEBuilt, Zenon
  <1> DEFINE F == {<<"gkeCluster", a.subject>>, <<"gkePrivate", a.private>>}
             G == {<<"gkeCluster", b.subject>>, <<"gkePrivate", b.private>>}
             P == WithGoogle(k, c, a.ambient, F)
             Q == WithGoogle(l, d, b.ambient, G)
  <1>3. NoGoogleLabel(F) /\ NoGoogleLabel(G)
    BY Zenon DEF NoGoogleLabel
  <1>4. NoTLSLabel(P) /\ NoTLSLabel(Q)
    BY Zenon DEF NoTLSLabel, WithGoogle, GooglePrint
  <1>5. ASSUME F = G  PROVE a.private = b.private
    <2>1. <<"gkePrivate", a.private>> \in G
      BY <1>5, Zenon
    <2> QED  BY <2>1, Zenon
  <1>6. WithTLS(a, s, P) = WithTLS(b, t, Q)
    BY <1>1, <1>2 DEF GKECluster, Connected, WithTLS, WithGoogle
  <1> HIDE DEF F, G, P, Q
  <1>7. SameTLS(TLSOf(a, s), TLSOf(b, t)) /\ P = Q
    BY <1>4, <1>6, TLSTells
  <1>8. c = d /\ a.ambient = b.ambient /\ F = G
    BY <1>1, <1>2, <1>3, <1>7, GoogleTells DEF P, Q
  <1>9. discoverGKECluster(a, cloud) = discoverGKECluster(b, cloud)
    BY <1>5, <1>8, Zenon DEF discoverGKECluster
  <1>10. SameTLS(DiscoveredTLS(TLSOf(a, s), cloud), DiscoveredTLS(TLSOf(b, t), cloud))
    BY <1>7, Zenon DEF SameTLS, DiscoveredTLS
  <1> QED  BY <1>1, <1>2, <1>8, <1>9, <1>10 DEF GKECluster, Connected, SameTLS, SameConnection

(* Two federated identities with one fingerprint are the same. *)
LEMMA WorkloadTells ==
    ASSUME NEW a \in ClusterAccess, NEW b \in ClusterAccess, NEW s, NEW t, NEW cloud,
           a.type = "WorkloadIdentity", b.type = "WorkloadIdentity",
           Dispatch(a, s, cloud).ok, Dispatch(b, t, cloud).ok,
           Dispatch(a, s, cloud).fingerprint = Dispatch(b, t, cloud).fingerprint
    PROVE  SameConnection(Dispatch(a, s, cloud).config, Dispatch(b, t, cloud).config)
  <1> DEFINE im(e) == IF e.ambient # "" THEN {<<"impersonate", e.ambient>>} ELSE {}
             Rest(e) == im(e) \cup {<<"server", e.server>>, <<"wiIdentity", e.subject>>}
  <1>1. Dispatch(a, s, cloud) = Connected(a.server, <<"adc", a.ambient>>, Audience(a), TLSOf(a, s), WithTLS(a, s, Rest(a)))
    <2>1. WithTLS(a, s, Rest(a)) = TLSPrint(a, s) \cup im(a) \cup {<<"server", a.server>>, <<"wiIdentity", a.subject>>}
      BY Zenon DEF WithTLS
    <2> QED  BY <2>1, WorkloadBuilt, Zenon
  <1>2. Dispatch(b, t, cloud) = Connected(b.server, <<"adc", b.ambient>>, Audience(b), TLSOf(b, t), WithTLS(b, t, Rest(b)))
    <2>1. WithTLS(b, t, Rest(b)) = TLSPrint(b, t) \cup im(b) \cup {<<"server", b.server>>, <<"wiIdentity", b.subject>>}
      BY Zenon DEF WithTLS
    <2> QED  BY <2>1, WorkloadBuilt, Zenon
  <1>3. NoTLSLabel(Rest(a)) /\ NoTLSLabel(Rest(b))
    BY Zenon DEF NoTLSLabel
  <1>4. ASSUME Rest(a) = Rest(b)  PROVE a.server = b.server /\ a.ambient = b.ambient
    <2>1. <<"server", a.server>> \in Rest(b)
      BY <1>4, Zenon
    <2>2. im(a) \subseteq Rest(b) /\ im(b) \subseteq Rest(a)
      BY <1>4, Zenon
    <2> QED  BY <2>1, <2>2, Zenon
  <1> HIDE DEF Rest
  <1>5. WithTLS(a, s, Rest(a)) = WithTLS(b, t, Rest(b))
    BY <1>1, <1>2 DEF Connected
  <1>6. SameTLS(TLSOf(a, s), TLSOf(b, t)) /\ Rest(a) = Rest(b)
    BY <1>3, <1>5, TLSTells
  <1> QED  BY <1>1, <1>2, <1>4, <1>6 DEF Connected, SameTLS, SameConnection

(* Two contexts of kubeconfigs with one fingerprint are the same. *)
LEMMA KubeconfigTells ==
    ASSUME NEW a, NEW b, NEW s, NEW t, NEW cloud, a.type = "Kubeconfig", b.type = "Kubeconfig",
           Dispatch(a, s, cloud).ok, Dispatch(b, t, cloud).ok,
           Dispatch(a, s, cloud).fingerprint = Dispatch(b, t, cloud).fingerprint
    PROVE  Dispatch(a, s, cloud).config = Dispatch(b, t, cloud).config
  <1>1. PICK i : Dispatch(a, s, cloud) = Context(i, a.subject)
    BY KubeconfigBuilt, Zenon
  <1>2. PICK j : Dispatch(b, t, cloud) = Context(j, b.subject)
    BY KubeconfigBuilt, Zenon
  <1>3. {<<"kubeconfig", i>>, <<"context", a.subject>>} = {<<"kubeconfig", j>>, <<"context", b.subject>>}
    <2>1. Context(i, a.subject).fingerprint = {<<"kubeconfig", i>>, <<"context", a.subject>>}
      BY Zenon DEF Context, Connected
    <2>2. Context(j, b.subject).fingerprint = {<<"kubeconfig", j>>, <<"context", b.subject>>}
      BY Zenon DEF Context, Connected
    <2> QED  BY <1>1, <1>2, <2>1, <2>2, Zenon
  <1>4. i = j /\ a.subject = b.subject
    <2>1. /\ <<"kubeconfig", i>> \in {<<"kubeconfig", j>>, <<"context", b.subject>>}
          /\ <<"context", a.subject>> \in {<<"kubeconfig", j>>, <<"context", b.subject>>}
      BY <1>3, Zenon
    <2> QED  BY <2>1, Zenon
  <1> QED  BY <1>1, <1>2, <1>4, Zenon

(* Whatever the type, two connections with one fingerprint are the same. *)
LEMMA DispatchTells ==
    ASSUME NEW a \in ClusterAccess, NEW b \in ClusterAccess, NEW s, NEW t, NEW cloud,
           a.type = b.type,
           Dispatch(a, s, cloud).ok, Dispatch(b, t, cloud).ok,
           Dispatch(a, s, cloud).fingerprint = Dispatch(b, t, cloud).fingerprint
    PROVE  SameConnection(Dispatch(a, s, cloud).config, Dispatch(b, t, cloud).config)
  <1>1. a.type \in Implemented
    BY OkImplemented, Zenon
  <1>2. CASE a.type = "InCluster"
    BY <1>2, Zenon DEF Dispatch, SameConnection
  <1>3. CASE a.type = "Kubeconfig"
    <2>0. b.type = "Kubeconfig"
      BY <1>3, Zenon
    <2>1. Dispatch(a, s, cloud).config = Dispatch(b, t, cloud).config
      BY <1>3, <2>0, KubeconfigTells
    <2>2. \A c : SameConnection(c, c)
      BY Zenon DEF SameConnection
    <2> QED  BY <2>1, <2>2, Zenon
  <1> QED  BY <1>1, <1>2, <1>3, TokenTells, CertificateTells, AzureTells, GoogleTokenTells, GKETells,
              WorkloadTells DEF Implemented

(* A builder hashes something, and not under the labels Build adds. *)
NoCommonLabel(print) == \A v : <<"type", v>> \notin print /\ <<"proxy", v>> \notin print

(* A method that accepts its Secret labels nothing type or proxy: those    *)
(* are left to Build.                                                      *)
LEMMA DispatchShape ==
    ASSUME NEW a, NEW s, NEW cloud, Dispatch(a, s, cloud).ok
    PROVE  \E F, c : /\ Dispatch(a, s, cloud) = [ok |-> TRUE, fingerprint |-> F, config |-> c]
                     /\ NoCommonLabel(F)
  <1> DEFINE d == Dispatch(a, s, cloud)
             Goal == \E F, c : d = [ok |-> TRUE, fingerprint |-> F, config |-> c] /\ NoCommonLabel(F)
  <1>t. NoCommonLabel(TLSPrint(a, s))
    BY Zenon DEF NoCommonLabel, TLSPrint
  <1>1. ASSUME NEW h, NEW i, NEW u, NEW t, NEW F, d = Connected(h, i, u, t, WithTLS(a, s, F)), NoCommonLabel(F)
        PROVE  Goal
    <2>1. NoCommonLabel(WithTLS(a, s, F))
      BY <1>1, <1>t, Zenon DEF NoCommonLabel, WithTLS
    <2> QED  BY <1>1, <2>1, Zenon DEF Connected
  <1>2. CASE a.type = "InCluster"
    <2>1. d = Connected("local", <<"serviceaccount">>, None, None, {})
      BY <1>2, ErrorNotOk, Zenon DEF Dispatch, buildInCluster
    <2>2. NoCommonLabel({})
      BY Zenon DEF NoCommonLabel
    <2> QED  BY <2>1, <2>2, Zenon DEF Connected
  <1>3. CASE a.type = "Kubeconfig"
    <2>1. PICK i : d = Context(i, a.subject)
      BY <1>3, KubeconfigBuilt, Zenon
    <2>2. NoCommonLabel({<<"kubeconfig", i>>, <<"context", a.subject>>})
      BY Zenon DEF NoCommonLabel
    <2> QED  BY <2>1, <2>2, Zenon DEF Context, Connected
  <1>4. CASE a.type = "Token"
    <2>1. PICK token : d = Connected(a.server, <<token>>, None, TLSOf(a, s),
                 TLSPrint(a, s) \cup {<<"server", a.server>>, <<"token", token>>})
      BY <1>4, TokenBuilt, Zenon
    <2> DEFINE F == {<<"server", a.server>>, <<"token", token>>}
    <2>2. NoCommonLabel(F)
      BY Zenon DEF NoCommonLabel, GooglePrint
    <2>3. \E h, i, u, t : d = Connected(h, i, u, t, WithTLS(a, s, F))
      BY <2>1, Zenon DEF WithTLS
    <2> QED  BY <2>2, <2>3, <1>1, Zenon
  <1>5. CASE a.type = "ClientCertificate"
    <2>1. PICK cert, key : d = KeyPair(a, s, cert, key)
      BY <1>5, CertificateBuilt, Zenon
    <2> DEFINE F == {<<"server", a.server>>, <<"clientCert", cert>>, <<"clientKey", key>>}
    <2>2. NoCommonLabel(F)
      BY Zenon DEF NoCommonLabel, GooglePrint
    <2>3. \E h, i, u, t : d = Connected(h, i, u, t, WithTLS(a, s, F))
      BY <2>1, Zenon DEF WithTLS, KeyPair
    <2> QED  BY <2>2, <2>3, <1>1, Zenon
  <1>6. CASE a.type = "AKS"
    <2>1. PICK secret : d = Connected(a.server, <<a.subject, secret>>, Audience(a), TLSOf(a, s),
                 TLSPrint(a, s) \cup {<<"server", a.server>>, <<"azureClient", a.subject>>,
                                      <<"azureSecret", secret>>})
      BY <1>6, AzureBuilt, Zenon
    <2> DEFINE F == {<<"server", a.server>>, <<"azureClient", a.subject>>, <<"azureSecret", secret>>}
    <2>2. NoCommonLabel(F)
      BY Zenon DEF NoCommonLabel, GooglePrint
    <2>3. \E h, i, u, t : d = Connected(h, i, u, t, WithTLS(a, s, F))
      BY <2>1, Zenon DEF WithTLS
    <2> QED  BY <2>2, <2>3, <1>1, Zenon
  <1>7. CASE a.type = "GoogleToken"
    <2>1. PICK keyed, base : keyed \in BOOLEAN /\ d = GoogleToken(a, s, keyed, base)
      BY <1>7, GoogleBuilt
    <2> DEFINE F == GooglePrint(keyed, base, a.ambient) \cup {<<"server", a.server>>}
    <2>2. NoCommonLabel(F)
      BY Zenon DEF NoCommonLabel, GooglePrint
    <2>3. \E h, i, u, t : d = Connected(h, i, u, t, WithTLS(a, s, F))
      BY <2>1, Zenon DEF WithTLS, GoogleToken
    <2> QED  BY <2>2, <2>3, <1>1, Zenon
  <1>8. CASE a.type = "GKE"
    <2>1. PICK keyed, base : keyed \in BOOLEAN /\ d = GKECluster(a, s, cloud, keyed, base)
      BY <1>8, GKEBuilt
    <2> DEFINE F == GooglePrint(keyed, base, a.ambient)
                    \cup {<<"gkeCluster", a.subject>>, <<"gkePrivate", a.private>>}
    <2>2. NoCommonLabel(F)
      BY Zenon DEF NoCommonLabel, GooglePrint
    <2>3. \E h, i, u, t : d = Connected(h, i, u, t, WithTLS(a, s, F))
      BY <2>1, Zenon DEF WithTLS, GKECluster
    <2> QED  BY <2>2, <2>3, <1>1, Zenon
  <1>9. CASE a.type = "WorkloadIdentity"
    <2> DEFINE im == IF a.ambient # "" THEN {<<"impersonate", a.ambient>>} ELSE {}
               F == im \cup {<<"server", a.server>>, <<"wiIdentity", a.subject>>}
    <2>1. NoCommonLabel(F)
      BY Zenon DEF NoCommonLabel
    <2>2. WithTLS(a, s, F) = TLSPrint(a, s) \cup im \cup {<<"server", a.server>>, <<"wiIdentity", a.subject>>}
      BY Zenon DEF WithTLS
    <2>3. \E h, i, u, t : d = Connected(h, i, u, t, WithTLS(a, s, F))
      BY <2>2, <1>9, WorkloadBuilt, Zenon
    <2> QED  BY <2>1, <2>3, <1>1, Zenon
  <1>10. a.type \in Implemented
    BY OkImplemented, Zenon
  <1> QED  BY <1>2, <1>3, <1>4, <1>5, <1>6, <1>7, <1>8, <1>9, <1>10, Zenon DEF Implemented

(* A Build that succeeds is a permitted Dispatch that succeeded, tuned. *)
LEMMA BuildOk ==
    ASSUME NEW a, NEW s, NEW cloud, Build(a, s, cloud).ok
    PROVE  /\ checkTLSPermitted(a)
           /\ Dispatch(a, s, cloud).ok
           /\ Build(a, s, cloud) = Tuned(a, Dispatch(a, s, cloud))
  BY ErrorNotOk, Zenon DEF Build

(* What tuning makes of a connection. *)
LEMMA TunedFields ==
    ASSUME NEW a, NEW F, NEW c
    PROVE  LET built == Tuned(a, [ok |-> TRUE, fingerprint |-> F, config |-> c])
           IN  /\ built.ok
               /\ built.fingerprint = F \cup {<<"type", a.type>>}
                                        \cup (IF a.proxy = None THEN {} ELSE {<<"proxy", a.proxy>>})
               /\ built.config.connection = c
               /\ built.config.proxy = a.proxy
  BY Zenon DEF Tuned

(* Two Builds that succeed with one fingerprint, whatever the access       *)
(* blocks, the Secrets and the flags: the clients made of them talk to the *)
(* same server, with the same credentials, under the same CA and server    *)
(* name and through the same proxy.  The GKE API's answer, which is not    *)
(* hashed, is the same.  Nothing follows for the scopes and the server     *)
(* application tokens are minted for, insecureSkipVerify, impersonation    *)
(* and the timeout: see UnhashedInputs.                                    *)
THEOREM FingerprintIdentifies ==
    ASSUME NEW a \in ClusterAccess, NEW b \in ClusterAccess, NEW s, NEW t, NEW cloud,
           Build(a, s, cloud).ok, Build(b, t, cloud).ok,
           Build(a, s, cloud).fingerprint = Build(b, t, cloud).fingerprint
    PROVE  SameAccess(Build(a, s, cloud).config, Build(b, t, cloud).config)
  <1>1. PICK F, c : /\ Dispatch(a, s, cloud) = [ok |-> TRUE, fingerprint |-> F, config |-> c]
                    /\ NoCommonLabel(F)
    BY BuildOk, DispatchShape, Zenon
  <1>2. PICK G, d : /\ Dispatch(b, t, cloud) = [ok |-> TRUE, fingerprint |-> G, config |-> d]
                    /\ NoCommonLabel(G)
    BY BuildOk, DispatchShape, Zenon
  <1> DEFINE pa == IF a.proxy = None THEN {} ELSE {<<"proxy", a.proxy>>}
             pb == IF b.proxy = None THEN {} ELSE {<<"proxy", b.proxy>>}
  <1>3. /\ Build(a, s, cloud).fingerprint = F \cup {<<"type", a.type>>} \cup pa
        /\ Build(a, s, cloud).config.connection = c
        /\ Build(a, s, cloud).config.proxy = a.proxy
    BY <1>1, BuildOk, TunedFields
  <1>4. /\ Build(b, t, cloud).fingerprint = G \cup {<<"type", b.type>>} \cup pb
        /\ Build(b, t, cloud).config.connection = d
        /\ Build(b, t, cloud).config.proxy = b.proxy
    BY <1>2, BuildOk, TunedFields
  <1>5. F \cup {<<"type", a.type>>} \cup pa = G \cup {<<"type", b.type>>} \cup pb
    BY <1>3, <1>4, Zenon
  <1>6. a.type = b.type
    <2>1. <<"type", a.type>> \in G \cup {<<"type", b.type>>} \cup pb
      BY <1>5, Zenon
    <2> QED  BY <2>1, <1>2, Zenon DEF NoCommonLabel
  <1>7. a.proxy = b.proxy
    <2>1. pa \subseteq G \cup {<<"type", b.type>>} \cup pb /\ pb \subseteq F \cup {<<"type", a.type>>} \cup pa
      BY <1>5, Zenon
    <2> QED  BY <2>1, <1>1, <1>2, Zenon DEF NoCommonLabel
  <1>8. F = G
    <2>1. \A p \in {<<"type", a.type>>} \cup pa : p \notin F \cup G
      BY <1>1, <1>2, Zenon DEF NoCommonLabel
    <2>2. {<<"type", a.type>>} \cup pa = {<<"type", b.type>>} \cup pb
      BY <1>6, <1>7, Zenon
    <2> HIDE DEF pa, pb
    <2> QED  BY <1>5, <2>1, <2>2, Zenon
  <1>9. SameConnection(c, d)
    BY <1>1, <1>2, <1>6, <1>8, BuildOk, DispatchTells
  <1> QED  BY <1>3, <1>4, <1>7, <1>9, Zenon DEF SameAccess

(* Two access blocks that differ at most in the scopes or the server       *)
(* application, insecureSkipVerify, impersonation and the timeout.         *)
AlikeButUnhashed(a, b) ==
    /\ a.type = b.type /\ a.server = b.server /\ a.subject = b.subject
    /\ a.ambient = b.ambient /\ a.private = b.private /\ a.proxy = b.proxy
    /\ a.credential = b.credential /\ a.ownCA = b.ownCA
    /\ a.tls = None <=> b.tls = None
    /\ a.tls # None => a.tls.ca = b.tls.ca /\ a.tls.serverName = b.tls.serverName

(* What the fingerprint does not tell: two Builds from the same Secrets    *)
(* that succeed have one fingerprint when the access blocks differ in      *)
(* nothing but what AlikeButUnhashed leaves open, although the tokens of   *)
(* the Google types and of AKS are then minted for something else.         *)
THEOREM UnhashedInputs ==
    ASSUME NEW a \in ClusterAccess, NEW b \in ClusterAccess, NEW s, NEW cloud,
           AlikeButUnhashed(a, b), Build(a, s, cloud).ok, Build(b, s, cloud).ok
    PROVE  Build(a, s, cloud).fingerprint = Build(b, s, cloud).fingerprint
  <1>0. /\ a.type = b.type /\ a.server = b.server /\ a.subject = b.subject
        /\ a.ambient = b.ambient /\ a.private = b.private /\ a.proxy = b.proxy
        /\ a.credential = b.credential
    BY Zenon DEF AlikeButUnhashed
  <1>1. CARef(a) = CARef(b)
    BY Zenon DEF AlikeButUnhashed, CARef
  <1>2. TLSPrint(a, s) = TLSPrint(b, s)
    <2>1. TLSOf(a, s).ca = TLSOf(b, s).ca
      BY <1>1, Zenon DEF TLSOf
    <2>2. TLSOf(a, s).serverName = TLSOf(b, s).serverName
      BY Zenon DEF TLSOf, AlikeButUnhashed
    <2>3. a.tls = None <=> b.tls = None
      BY Zenon DEF AlikeButUnhashed
    <2> QED  BY <2>1, <2>2, <2>3, Zenon DEF TLSPrint
  <1>5. ASSUME NEW v, googleTokenSource(v, s, cloud) # None
        PROVE  googleTokenSource(v, s, cloud).print =
                 GooglePrint(v.credential # None, Value(s, v.credential, <<"key.json">>), v.ambient)
    BY <1>5, Zenon DEF googleTokenSource, GooglePrint
  <1>d. Dispatch(a, s, cloud).ok /\ Dispatch(b, s, cloud).ok
    BY BuildOk, Zenon
  <1>7. Dispatch(a, s, cloud).fingerprint = Dispatch(b, s, cloud).fingerprint
    <2>0. CASE a.type = "InCluster"
      BY <2>0, <1>0, Zenon DEF Dispatch
    <2>1. CASE a.type = "Token"
      <3> DEFINE P(v) == TLSPrint(v, s) \cup {<<"server", v.server>>,
                                              <<"token", Value(s, v.credential, <<"token">>)>>}
      <3>1. ASSUME NEW v, v.type = "Token", Dispatch(v, s, cloud).ok
            PROVE  Dispatch(v, s, cloud).fingerprint = P(v)
        <4>1. Dispatch(v, s, cloud) = buildToken(v, s)
          BY <3>1, Zenon DEF Dispatch
        <4>2. ~(Value(s, v.credential, <<"token">>) = None \/ CAMissing(v, s))
          BY <3>1, <4>1, ErrorNotOk, Zenon DEF buildToken
        <4>3. buildToken(v, s) = Connected(v.server, <<Value(s, v.credential, <<"token">>)>>, None, TLSOf(v, s), P(v))
          BY <4>2, Zenon DEF buildToken
        <4> QED  BY <4>1, <4>3 DEF Connected
      <3>2. P(a) = P(b)
        BY <1>0, <1>2, Zenon
      <3> HIDE DEF P
      <3> QED  BY <2>1, <3>1, <3>2, <1>0, <1>d, Zenon
    <2>2. CASE a.type = "Kubeconfig"
      <3>1. Dispatch(a, s, cloud) = buildKubeconfig(a, s) /\ Dispatch(b, s, cloud) = buildKubeconfig(b, s)
        BY <2>2, <1>0, Zenon DEF Dispatch
      <3> QED  BY <3>1, <1>0, Zenon DEF buildKubeconfig
    <2>3. CASE a.type = "GoogleToken"
      <3> DEFINE P(v) == TLSPrint(v, s)
                         \cup GooglePrint(v.credential # None, Value(s, v.credential, <<"key.json">>), v.ambient)
                         \cup {<<"server", v.server>>}
      <3>1. ASSUME NEW v, v.type = "GoogleToken", Dispatch(v, s, cloud).ok
            PROVE  Dispatch(v, s, cloud).fingerprint = P(v)
        <4>1. Dispatch(v, s, cloud) = buildGoogleToken(v, s, cloud)
          BY <3>1, Zenon DEF Dispatch
        <4>2. ~(googleTokenSource(v, s, cloud) = None \/ CAMissing(v, s))
          BY <3>1, <4>1, ErrorNotOk, Zenon DEF buildGoogleToken
        <4>3. buildGoogleToken(v, s, cloud) =
                Connected(v.server, googleTokenSource(v, s, cloud).identity,
                          googleTokenSource(v, s, cloud).scopes, TLSOf(v, s), P(v))
          BY <4>2, <1>5, Zenon DEF buildGoogleToken
        <4> QED  BY <4>1, <4>3 DEF Connected
      <3>2. P(a) = P(b)
        BY <1>0, <1>2, Zenon
      <3> HIDE DEF P
      <3> QED  BY <2>3, <3>1, <3>2, <1>0, <1>d, Zenon
    <2>4. CASE a.type = "WorkloadIdentity"
      <3> DEFINE P(v) == TLSPrint(v, s)
                         \cup (IF v.ambient # "" THEN {<<"impersonate", v.ambient>>} ELSE {})
                         \cup {<<"server", v.server>>, <<"wiIdentity", v.subject>>}
      <3>1. ASSUME NEW v, v.type = "WorkloadIdentity", Dispatch(v, s, cloud).ok
            PROVE  Dispatch(v, s, cloud).fingerprint = P(v)
        <4>1. Dispatch(v, s, cloud) =
                Connected(v.server, <<"adc", v.ambient>>, Audience(v), TLSOf(v, s), P(v))
          BY <3>1, WorkloadBuilt, Zenon
        <4> HIDE DEF P
        <4> QED  BY <4>1 DEF Connected
      <3>2. P(a) = P(b)
        BY <1>0, <1>2, Zenon
      <3> HIDE DEF P
      <3> QED  BY <2>4, <3>1, <3>2, <1>0, <1>d, Zenon
    <2>5. CASE a.type = "ClientCertificate"
      <3> DEFINE crt(v) == Value(s, [v.credential EXCEPT !.key = "tls.crt"], <<>>)
                 key(v) == Value(s, [v.credential EXCEPT !.key = "tls.key"], <<>>)
                 P(v) == TLSPrint(v, s) \cup {<<"server", v.server>>, <<"clientCert", crt(v)>>,
                                              <<"clientKey", key(v)>>}
      <3>1. ASSUME NEW v, v.type = "ClientCertificate", Dispatch(v, s, cloud).ok
            PROVE  Dispatch(v, s, cloud).fingerprint = P(v)
        <4>1. Dispatch(v, s, cloud) = buildClientCertificate(v, s)
          BY <3>1, Zenon DEF Dispatch
        <4>2. ~(crt(v) = None \/ key(v) = None \/ CAMissing(v, s))
          BY <3>1, <4>1, ErrorNotOk, Zenon DEF buildClientCertificate
        <4>3. buildClientCertificate(v, s) = Connected(v.server, <<crt(v), key(v)>>, None, TLSOf(v, s), P(v))
          BY <4>2, Zenon DEF buildClientCertificate
        <4> QED  BY <4>1, <4>3 DEF Connected
      <3>2. P(a) = P(b)
        BY <1>0, <1>2, Zenon
      <3> HIDE DEF P
      <3> QED  BY <2>5, <3>1, <3>2, <1>0, <1>d, Zenon
    <2>6. CASE a.type = "GKE"
      <3> DEFINE P(v) == TLSPrint(v, s)
                         \cup GooglePrint(v.credential # None, Value(s, v.credential, <<"key.json">>), v.ambient)
                         \cup {<<"gkeCluster", v.subject>>, <<"gkePrivate", v.private>>}
      <3>1. ASSUME NEW v, v.type = "GKE", Dispatch(v, s, cloud).ok
            PROVE  Dispatch(v, s, cloud).fingerprint = P(v)
        <4>1. Dispatch(v, s, cloud) = buildGKE(v, s, cloud)
          BY <3>1, Zenon DEF Dispatch
        <4>2. ~(googleTokenSource(v, s, cloud) = None \/ discoverGKECluster(v, cloud) = "" \/ CAMissing(v, s))
          BY <3>1, <4>1, ErrorNotOk, Zenon DEF buildGKE
        <4>3. buildGKE(v, s, cloud) =
                Connected(discoverGKECluster(v, cloud), googleTokenSource(v, s, cloud).identity,
                          googleTokenSource(v, s, cloud).scopes, DiscoveredTLS(TLSOf(v, s), cloud), P(v))
          BY <4>2, <1>5, Zenon DEF buildGKE, DiscoveredTLS
        <4> QED  BY <4>1, <4>3 DEF Connected
      <3>2. P(a) = P(b)
        BY <1>0, <1>2, Zenon
      <3> HIDE DEF P
      <3> QED  BY <2>6, <3>1, <3>2, <1>0, <1>d, Zenon
    <2>7. CASE a.type = "AKS"
      <3> DEFINE P(v) == TLSPrint(v, s) \cup {<<"server", v.server>>, <<"azureClient", v.subject>>,
                                              <<"azureSecret", Value(s, v.credential, <<"clientSecret">>)>>}
      <3>1. ASSUME NEW v, v.type = "AKS", Dispatch(v, s, cloud).ok
            PROVE  Dispatch(v, s, cloud).fingerprint = P(v)
        <4>1. Dispatch(v, s, cloud) = buildAKS(v, s)
          BY <3>1, Zenon DEF Dispatch
        <4>2. ~(v.credential = None \/ Value(s, v.credential, <<"clientSecret">>) = None \/ CAMissing(v, s))
          BY <3>1, <4>1, ErrorNotOk, Zenon DEF buildAKS
        <4>3. buildAKS(v, s) = Connected(v.server, <<v.subject, Value(s, v.credential, <<"clientSecret">>)>>,
                                         Audience(v), TLSOf(v, s), P(v))
          BY <4>2, Zenon DEF buildAKS
        <4> QED  BY <4>1, <4>3 DEF Connected
      <3>2. P(a) = P(b)
        BY <1>0, <1>2, Zenon
      <3> HIDE DEF P
      <3> QED  BY <2>7, <3>1, <3>2, <1>0, <1>d, Zenon
    <2>8. a.type \in Implemented
      BY <1>d, OkImplemented, Zenon
    <2> QED  BY <2>0, <2>1, <2>2, <2>3, <2>4, <2>5, <2>6, <2>7, <2>8, Zenon DEF Implemented
  <1>8. PICK F, c : /\ Dispatch(a, s, cloud) = [ok |-> TRUE, fingerprint |-> F, config |-> c]
                    /\ NoCommonLabel(F)
    BY <1>d, DispatchShape, Zenon
  <1>9. PICK G, e : /\ Dispatch(b, s, cloud) = [ok |-> TRUE, fingerprint |-> G, config |-> e]
                    /\ NoCommonLabel(G)
    BY <1>d, DispatchShape, Zenon
  <1>10. F = G
    <2>1. Dispatch(a, s, cloud).fingerprint = F
      BY <1>8
    <2>2. Dispatch(b, s, cloud).fingerprint = G
      BY <1>9
    <2> QED  BY <1>7, <2>1, <2>2, Zenon
  <1> DEFINE px(y) == IF y.proxy = None THEN {} ELSE {<<"proxy", y.proxy>>}
  <1>11. Build(a, s, cloud).fingerprint = F \cup {<<"type", a.type>>} \cup px(a)
    BY <1>8, BuildOk, TunedFields
  <1>12. Build(b, s, cloud).fingerprint = G \cup {<<"type", b.type>>} \cup px(b)
    BY <1>9, BuildOk, TunedFields
  <1> QED  BY <1>0, <1>10, <1>11, <1>12, Zenon

-----------------------------------------------------------------------------
(* Types. *)

(* The host of a connection is the one of the spec, of the kubeconfig or   *)
(* of the GKE API.                                                         *)
HostOf(h, a, cloud) ==
    \/ h = "local"
    \/ h = a.server
    \/ \E raw \in DOMAIN Kubeconfigs : \E c \in DOMAIN Kubeconfigs[raw] : h = Kubeconfigs[raw][c].server
    \/ h = discoverGKECluster(a, cloud)

(* The host comes from there, whatever the type. *)
LEMMA HostType ==
    ASSUME NEW a \in ClusterAccess, NEW s, NEW cloud, Build(a, s, cloud).ok
    PROVE  HostOf(Build(a, s, cloud).config.connection.host, a, cloud)
  <1> DEFINE d == Dispatch(a, s, cloud)
  <1>1. d.ok /\ Build(a, s, cloud).config.connection = d.config
    <2>1. d.ok /\ Build(a, s, cloud) = Tuned(a, d)
      BY BuildOk, Zenon
    <2>2. PICK F, c : d = [ok |-> TRUE, fingerprint |-> F, config |-> c]
      BY <2>1, DispatchShape
    <2>3. d.config = c
      BY <2>2
    <2>4. Tuned(a, [ok |-> TRUE, fingerprint |-> F, config |-> c]).config.connection = c
      BY TunedFields
    <2> HIDE DEF d
    <2> QED  BY <2>1, <2>2, <2>3, <2>4, Zenon
  <1>2. CASE a.type = "InCluster"
    <2>1. d = Connected("local", <<"serviceaccount">>, None, None, {})
      BY <1>1, <1>2, ErrorNotOk, Zenon DEF Dispatch, buildInCluster
    <2>2. Connected("local", <<"serviceaccount">>, None, None, {}).config.host = "local"
      BY Zenon DEF Connected
    <2> QED  BY <1>1, <2>1, <2>2, Zenon DEF HostOf
  <1>3. CASE a.type = "Kubeconfig"
    <2>1. PICK raw : /\ raw \in DOMAIN Kubeconfigs /\ a.subject \in DOMAIN Kubeconfigs[raw]
                     /\ d = Context(raw, a.subject)
      BY <1>1, <1>3, KubeconfigBuilt, Zenon
    <2>2. d.config.host = Kubeconfigs[raw][a.subject].server
      <3> HIDE DEF d
      <3> QED  BY <2>1, Zenon DEF Context, Connected
    <2> HIDE DEF d
    <2> QED  BY <1>1, <2>1, <2>2, Zenon DEF HostOf
  <1>4. CASE a.type = "Token"
    <2>1. d.config.host = a.server
      BY <1>1, <1>4, TokenBuilt DEF Connected
    <2> QED  BY <1>1, <2>1, Zenon DEF HostOf
  <1>5. CASE a.type = "ClientCertificate"
    <2>1. d.config.host = a.server
      BY <1>1, <1>5, CertificateBuilt DEF KeyPair, Connected
    <2> QED  BY <1>1, <2>1, Zenon DEF HostOf
  <1>6. CASE a.type = "AKS"
    <2>1. d.config.host = a.server
      BY <1>1, <1>6, AzureBuilt DEF Connected
    <2> QED  BY <1>1, <2>1, Zenon DEF HostOf
  <1>7. CASE a.type = "GoogleToken"
    <2>0. PICK keyed, base : keyed \in BOOLEAN /\ d = GoogleToken(a, s, keyed, base)
      BY <1>1, <1>7, GoogleBuilt
    <2>1. d.config.host = a.server
      BY <2>0 DEF GoogleToken, Connected
    <2> QED  BY <1>1, <2>1, Zenon DEF HostOf
  <1>8. CASE a.type = "WorkloadIdentity"
    <2>1. \E i, u, t, p : d = Connected(a.server, i, u, t, p)
      BY <1>1, <1>8, WorkloadBuilt, ZenonT(30)
    <2>2. d.config.host = a.server
      <3> HIDE DEF d
      <3> QED  BY <2>1 DEF Connected
    <2> QED  BY <1>1, <2>2, Zenon DEF HostOf
  <1>9. CASE a.type = "GKE"
    <2>0. PICK keyed, base : keyed \in BOOLEAN /\ d = GKECluster(a, s, cloud, keyed, base)
      BY <1>1, <1>9, GKEBuilt
    <2>1. d.config.host = discoverGKECluster(a, cloud)
      BY <2>0 DEF GKECluster, Connected
    <2> QED  BY <1>1, <2>1, Zenon DEF HostOf
  <1>10. a.type \in Implemented
    BY <1>1, OkImplemented, Zenon
  <1> QED  BY <1>2, <1>3, <1>4, <1>5, <1>6, <1>7, <1>8, <1>9, <1>10, Zenon DEF Implemented

(* A Build that fails has one of the three reasons. *)
LEMMA ReasonType ==
    ASSUME NEW a \in ClusterAccess, NEW s, NEW cloud, ~Build(a, s, cloud).ok
    PROVE  Build(a, s, cloud).reason \in
             {"AccessTypeNotImplemented", "InvalidSpec", "AuthenticationFailed"}
  <1> DEFINE Errors == {NotImplemented, NotPermitted, Unusable}
             d == Dispatch(a, s, cloud)
  <1>e. \A e \in Errors :
          e.reason \in {"AccessTypeNotImplemented", "InvalidSpec", "AuthenticationFailed"}
    BY DEF NotImplemented, NotPermitted, Unusable, Error
  <1>c. \A h, i, u, t, p : Connected(h, i, u, t, p).ok
    BY Zenon DEF Connected
  <1> HIDE DEF d
  <1>1. ASSUME ~d.ok  PROVE d \in Errors
    <2>1. CASE a.type = "InCluster"
      BY <2>1, <1>1, <1>c, Zenon DEF d, Dispatch, buildInCluster
    <2>2. CASE a.type = "Kubeconfig"
      BY <2>2, <1>1, <1>c, Zenon DEF d, Dispatch, buildKubeconfig
    <2>3. CASE a.type = "Token"
      BY <2>3, <1>1, <1>c, Zenon DEF d, Dispatch, buildToken
    <2>4. CASE a.type = "ClientCertificate"
      BY <2>4, <1>1, <1>c, Zenon DEF d, Dispatch, buildClientCertificate
    <2>5. CASE a.type = "AKS"
      BY <2>5, <1>1, <1>c, Zenon DEF d, Dispatch, buildAKS
    <2>6. CASE a.type = "GoogleToken"
      BY <2>6, <1>1, <1>c, Zenon DEF d, Dispatch, buildGoogleToken
    <2>7. CASE a.type = "WorkloadIdentity"
      BY <2>7, <1>1, <1>c, Zenon DEF d, Dispatch, buildWorkloadIdentity
    <2>8. CASE a.type = "GKE"
      BY <2>8, <1>1, <1>c, Zenon DEF d, Dispatch, buildGKE
    <2>9. CASE a.type \notin Implemented
      BY <2>9, Zenon DEF d, Dispatch, Implemented
    <2> QED  BY <2>1, <2>2, <2>3, <2>4, <2>5, <2>6, <2>7, <2>8, <2>9, Zenon DEF Implemented
  <1>2. ASSUME d.ok  PROVE Tuned(a, d).ok
    <2>1. PICK F, c : d = [ok |-> TRUE, fingerprint |-> F, config |-> c]
      BY <1>2, DispatchShape DEF d
    <2> QED  BY <2>1, TunedFields, Zenon
  <1>3. Build(a, s, cloud) \in Errors
    BY <1>1, <1>2, Zenon DEF Build, d
  <1> QED  BY <1>3, <1>e, Zenon

-----------------------------------------------------------------------------
(* The controller and the client cache. *)


(* The RemoteCluster worker; status is None until it has read one. *)
RWorker ==
    [pc : {"idle", "probe"}, status : RemoteClusterStatus \cup {None}, generation : Nat,
     fresh : BOOLEAN, host : Hosts]

(* What Build made of an access block and some Secrets. *)
BuiltFrom(built) ==
    \E a \in Accesses : \E s : built = Build(a, s, TheCloud) /\ Build(a, s, TheCloud).ok

(* A client, and the connection on its way to one, come from a Build. *)
Provenance ==
    /\ x.pc = "start" => BuiltFrom(x.built)
    /\ entry # None => \E built : /\ BuiltFrom(built)
                                  /\ entry = [fingerprint |-> built.fingerprint, config |-> built.config]

(* What the worker read before its probe is what there is, or it will run  *)
(* again.                                                                  *)
ReadsHold ==
    r.pc = "probe" =>
        IF r.fresh
        THEN Len(rcs) = 1 /\ r.status = Live.status /\ r.generation = Live.generation
        ELSE queueR \/ Len(rcs) > 1

(* No event that the RemoteCluster's Secret watch would react to is out. *)
Undisturbed ==
    /\ ~queueR /\ Len(rcs) = 1 /\ Listed(Live.access)
    /\ handling \cap SecretRefs(Live.access) = {}

(* The host the worker probes is the one a Build gives now. *)
ProbesNow ==
    r.pc = "probe" /\ r.fresh /\ Undisturbed => Now.ok /\ r.host = Now.config.connection.host

(* SettledMeansJudged, without waiting for the events of other Secrets. *)
Judged ==
    IF Now.ok
    THEN /\ Live.status.authenticated = "true"
         /\ Live.status.host = Now.config.connection.host
         /\ Live.status.observed = Live.generation
         /\ timerR
    ELSE /\ Live.status.authenticated = "false" /\ Live.status.ready = "false"
         /\ Live.status.reason = Now.reason

RestsJudged == r.pc = "idle" /\ Undisturbed => Judged

IInv ==
    /\ TypeOK /\ r \in RWorker /\ Provenance
    /\ ReadsHold /\ ProbesNow /\ RestsJudged

-----------------------------------------------------------------------------
(* Lemmas about what the steps use. *)

(* The Secrets there are, as Build gets them. *)
There == [n \in {m \in DOMAIN secrets : secrets[m] # None} |-> secrets[n]]

(* BuildNow is a Build from those. *)
LEMMA BuildNowBuilds ==
    ASSUME NEW a  PROVE BuildNow(a) = Build(a, There, TheCloud)
  BY Zenon DEF BuildNow, There

(* The host a Build gives is one of Hosts, and the reason one of Reasons. *)
LEMMA BuildNowType ==
    ASSUME NEW a \in Accesses
    PROVE  /\ BuildNow(a).ok => BuildNow(a).config.connection.host \in Hosts
           /\ ~BuildNow(a).ok => BuildNow(a).reason \in Reasons
  <1>1. a \in ClusterAccess
    BY AccessesAssumption, Zenon
  <1>2. ASSUME BuildNow(a).ok  PROVE BuildNow(a).config.connection.host \in Hosts
    <2>1. HostOf(BuildNow(a).config.connection.host, a, TheCloud)
      BY <1>1, <1>2, BuildNowBuilds, HostType, Zenon
    <2>2. ASSUME NEW h, HostOf(h, a, TheCloud)  PROVE h \in Hosts
      <3>1. CASE h = "local"
        BY <3>1, Zenon DEF Hosts
      <3>2. CASE h = a.server
        BY <3>2, Zenon DEF Hosts
      <3>3. CASE \E raw \in DOMAIN Kubeconfigs : \E c \in DOMAIN Kubeconfigs[raw] :
                    h = Kubeconfigs[raw][c].server
        <4>1. PICK raw \in DOMAIN Kubeconfigs : \E c \in DOMAIN Kubeconfigs[raw] :
                    h = Kubeconfigs[raw][c].server
          BY <3>3, Zenon
        <4> DEFINE S == {Kubeconfigs[raw][c].server : c \in DOMAIN Kubeconfigs[raw]}
        <4>2. h \in S
          BY <4>1, Zenon
        <4>3. h \in UNION {{Kubeconfigs[y][c].server : c \in DOMAIN Kubeconfigs[y]} : y \in DOMAIN Kubeconfigs}
          BY <4>2, Zenon
        <4> QED  BY <4>3, Zenon DEF Hosts
      <3>4. CASE h = discoverGKECluster(a, TheCloud)
        <4>1. CASE TheCloud.gke = None
          <5>1. h = ""
            BY <3>4, <4>1, Zenon DEF discoverGKECluster
          <5> QED  BY <5>1, Zenon DEF Hosts
        <4>2. CASE TheCloud.gke # None
          <5>1. h \in {TheCloud.gke.endpoint, TheCloud.gke.private}
            BY <3>4, <4>2, Zenon DEF discoverGKECluster
          <5>2. h \in UNION {{gke.endpoint, gke.private} : gke \in {TheCloud.gke} \ {None}}
            BY <4>2, <5>1, Zenon
          <5> QED  BY <5>2, Zenon DEF Hosts
        <4> QED  BY <4>1, <4>2, Zenon
      <3> QED  BY <2>2, <3>1, <3>2, <3>3, <3>4, Zenon DEF HostOf
    <2> QED  BY <2>1, <2>2, Zenon
  <1>3. ASSUME ~BuildNow(a).ok  PROVE BuildNow(a).reason \in Reasons
    BY <1>1, <1>3, BuildNowBuilds, ReasonType, Zenon DEF Reasons
  <1> QED  BY <1>2, <1>3, Zenon

(* The versions of the RemoteCluster. *)
LEMMA Versions ==
    ASSUME TypeOK
    PROVE  /\ rcs \in Seq(RemoteCluster) /\ Len(rcs) \in Nat \ {0}
           /\ Cached \in RemoteCluster /\ Live \in RemoteCluster
           /\ Cached = rcs[1]
           /\ Len(rcs) = 1 => Cached = Live
  <1>1. rcs \in Seq(RemoteCluster) /\ Len(rcs) \in 1 .. MaxLag
    BY Zenon DEF TypeOK
  <1>2. Len(rcs) \in Nat \ {0} /\ MaxLag \in Nat
    BY <1>1, SetupAssumption
  <1> QED  BY <1>1, <1>2 DEF Cached, Live

(* A status that is written is a new last version; the object the worker   *)
(* read is the first.                                                      *)
LEMMA WriteStatusType ==
    ASSUME TypeOK, NEW old, NEW status \in RemoteClusterStatus, NEW fresh, NEW moved,
           WriteStatus(old, status, fresh, moved)
    PROVE  /\ rcs' \in Seq(RemoteCluster) /\ Len(rcs') \in 1 .. MaxLag
           /\ Len(rcs') > 1 \/ (rcs' = rcs /\ (status = old \/ ~fresh))
  <1>1. CASE (status = old /\ ~moved) \/ ~fresh
    BY <1>1, Zenon DEF WriteStatus, TypeOK
  <1>2. CASE ~((status = old /\ ~moved) \/ ~fresh)
    <2>1. Len(rcs) < MaxLag /\ rcs' = Append(rcs, [Live EXCEPT !.status = status])
      BY <1>2, Zenon DEF WriteStatus
    <2>2. [Live EXCEPT !.status = status] \in RemoteCluster
      BY Versions, Zenon DEF RemoteCluster
    <2>3. rcs \in Seq(RemoteCluster) /\ Len(rcs) \in Nat \ {0} /\ MaxLag \in Nat
      BY Versions, SetupAssumption, Zenon
    <2> HIDE DEF RemoteCluster
    <2> QED  BY <2>1, <2>2, <2>3
  <1> QED  BY <1>1, <1>2, Zenon

-----------------------------------------------------------------------------

(* The invariant holds at the start. *)
LEMMA InvInit == Init => IInv
  <1> SUFFICES ASSUME Init PROVE IInv
    BY Zenon
  <1> DEFINE rc == [access |-> Initial.access, grant |-> Initial.grant, generation |-> 0, status |-> NoStatus]
  <1>1. NoStatus \in RemoteClusterStatus
    BY Zenon DEF NoStatus, RemoteClusterStatus, ConditionStatus, Reasons, Hosts
  <1>2. rc \in RemoteCluster
    BY <1>1, SetupAssumption, Zenon DEF RemoteCluster
  <1>3. rcs = <<rc>>
    BY Zenon DEF Init
  <1> HIDE DEF rc
  <1>4. rcs \in Seq(RemoteCluster) /\ Len(rcs) = 1 /\ 1 \in 1 .. MaxLag
    BY <1>2, <1>3, SetupAssumption
  <1>5. TypeOK
    BY <1>4, SetupAssumption, Zenon DEF Init, TypeOK, RIdle, XIdle
  <1>6. r \in RWorker
    BY Zenon DEF Init, RIdle, RWorker, Hosts
  <1>7. Provenance
    BY Zenon DEF Init, Provenance, XIdle
  <1>8. ReadsHold /\ ProbesNow /\ RestsJudged
    BY Zenon DEF Init, RIdle, ReadsHold, ProbesNow, RestsJudged, Undisturbed
  <1> QED  BY <1>5, <1>6, <1>7, <1>8, Zenon DEF IInv

-----------------------------------------------------------------------------
(* Every step keeps the types. *)

(* The status a failed Build leaves, and the one after a probe. *)
LEMMA StatusTypes ==
    ASSUME TypeOK, r \in RWorker
    PROVE  /\ \A reason \in Reasons : Failed(Cached, reason) \in RemoteClusterStatus
           /\ \A answered : Probed(answered) \in RemoteClusterStatus
  <1>1. Cached.status \in RemoteClusterStatus /\ Cached.generation \in Nat
    BY Versions, Zenon DEF RemoteCluster
  <1>2. ASSUME NEW reason \in Reasons  PROVE Failed(Cached, reason) \in RemoteClusterStatus
    BY <1>1, Zenon DEF Failed, RemoteClusterStatus, ConditionStatus
  <1>3. ASSUME NEW answered  PROVE Probed(answered) \in RemoteClusterStatus
    <2>1. r.host \in Hosts /\ r.generation \in Nat
      BY Zenon DEF RWorker
    <2>2. "true" \in ConditionStatus /\ "false" \in ConditionStatus
          /\ "" \in Reasons /\ "NetworkUnreachable" \in Reasons
      BY Zenon DEF ConditionStatus, Reasons
    <2> QED  BY <2>1, <2>2, Zenon DEF Probed, RemoteClusterStatus
  <1> QED  BY <1>2, <1>3, Zenon

(* TypeOK and the worker's type. *)
LEMMA TypeStep ==
    ASSUME TypeOK, r \in RWorker, Provenance, [Next]_vars
    PROVE  TypeOK' /\ r' \in RWorker
  <1> DEFINE Rest == /\ DOMAIN secrets = DOMAIN Contents
                     /\ \A n \in DOMAIN secrets : secrets[n] \in Contents[n]
                     /\ handling \subseteq DOMAIN secrets
             Flags == {labelled, up, stamped, queueR, queueX, timerR} \subseteq BOOLEAN
             XType == /\ used \in {"new", "denied", "failed", "attached"}
                      /\ x.pc \in {"idle", "start"} /\ (x.pc = "start" => x.built.ok)
             RcsType == rcs \in Seq(RemoteCluster) /\ Len(rcs) \in 1 .. MaxLag
  <1>0. TypeOK <=> RcsType /\ Rest /\ XType /\ Flags /\ r.pc \in {"idle", "probe"}
    BY Zenon DEF TypeOK
  <1>t. TypeOK' <=> RcsType' /\ Rest' /\ XType' /\ Flags' /\ r'.pc \in {"idle", "probe"}
    BY Zenon DEF TypeOK
  <1>r. ASSUME r' \in RWorker  PROVE r'.pc \in {"idle", "probe"}
    BY <1>r, Zenon DEF RWorker
  <1>i. RIdle \in RWorker
    BY Zenon DEF RIdle, RWorker, Hosts
  <1>1. CASE RBuild
    <2>1. RcsType' /\ r' \in RWorker
      <3>1. PICK built \in {BuildNow(Cached.access)} :
              \/ /\ built.ok
                 /\ r' = [pc |-> "probe", status |-> Cached.status, generation |-> Cached.generation,
                          fresh |-> Len(rcs) = 1, host |-> built.config.connection.host]
                 /\ UNCHANGED rcs
              \/ /\ ~built.ok
                 /\ WriteStatus(Cached.status, Failed(Cached, built.reason), Len(rcs) = 1, FALSE)
                 /\ UNCHANGED r
        BY <1>1, Zenon DEF RBuild
      <3>2. Cached.access \in Accesses /\ Cached.status \in RemoteClusterStatus /\ Cached.generation \in Nat
        BY Versions, Zenon DEF RemoteCluster
      <3>3. CASE built.ok
        <4>1. built.config.connection.host \in Hosts
          BY <3>2, <3>3, BuildNowType, Zenon
        <4>2. r' \in RWorker
          <5> DEFINE f == (Len(rcs) = 1)
          <5>1. f \in BOOLEAN
            BY Zenon
          <5>2. r' = [pc |-> "probe", status |-> Cached.status, generation |-> Cached.generation,
                      fresh |-> f, host |-> built.config.connection.host]
            BY <3>1, <3>3, Zenon
          <5> HIDE DEF f
          <5> QED  BY <3>2, <4>1, <5>1, <5>2, Zenon DEF RWorker
        <4> QED  BY <3>1, <3>3, <4>2, <1>0, Zenon
      <3>4. CASE ~built.ok
        <4>1. Failed(Cached, built.reason) \in RemoteClusterStatus
          BY <3>2, <3>4, BuildNowType, StatusTypes, Zenon
        <4> QED  BY <3>1, <3>4, <4>1, WriteStatusType, Zenon
      <3> QED  BY <3>3, <3>4, Zenon
    <2>2. Rest' /\ XType' /\ Flags'
      BY <1>0, <1>1, Zenon DEF RBuild, objects, budget
    <2> QED  BY <2>1, <2>2, <1>t, <1>r, Zenon
  <1>2. CASE RProbe
    <2>1. RcsType'
      BY <1>2, StatusTypes, WriteStatusType, Zenon DEF RProbe
    <2>2. Rest' /\ XType' /\ r' = RIdle
      BY <1>0, <1>2, Zenon DEF RProbe, objects, budget
    <2>3. Flags'
      <3>1. (stamped \/ (up /\ r.fresh)) \in BOOLEAN
        BY Zenon
      <3> DEFINE b == (stamped \/ (up /\ r.fresh))
      <3>2. stamped' = b
        BY <1>2, Zenon DEF RProbe
      <3> HIDE DEF b
      <3> QED  BY <3>1, <3>2, <1>0, <1>2, Zenon DEF RProbe, objects, b
    <2> QED  BY <2>1, <2>2, <2>3, <1>t, <1>r, <1>i, Zenon
  <1>3. CASE RTimer
    BY <1>3, <1>0, <1>t, Zenon DEF RTimer, objects, budget
  <1>4. CASE XBuild
    <2>1. RcsType' /\ Rest' /\ r' = r
      BY <1>0, <1>4, Zenon DEF XBuild, objects, budget
    <2>2. XType'
      BY <1>0, <1>4 DEF XBuild, XFail, XIdle
    <2>3. Flags'
      <3>1. (used # "denied") \in BOOLEAN
        BY Zenon
      <3> DEFINE b == (used # "denied")
      <3>2. queueX' \in {b, TRUE, FALSE}
        BY <1>4, Zenon DEF XBuild, XFail
      <3> HIDE DEF b
      <3> QED  BY <3>1, <3>2, <1>0, <1>4, Zenon DEF XBuild, objects, b
    <2> QED  BY <2>1, <2>2, <2>3, <1>t, <1>r, Zenon
  <1>5. CASE XStart
    <2>1. RcsType' /\ Rest' /\ r' = r
      BY <1>0, <1>5, Zenon DEF XStart, objects, budget
    <2>2. XType'
      BY <1>0, <1>5 DEF XStart, XFail, XIdle
    <2>3. Flags'
      <3>1. (queueX \/ used # "attached") \in BOOLEAN
        BY Zenon
      <3> DEFINE b == (queueX \/ used # "attached")
      <3>2. queueX' \in {b, TRUE}
        BY <1>5, Zenon DEF XStart, XFail
      <3> HIDE DEF b
      <3> QED  BY <3>1, <3>2, <1>0, <1>5, Zenon DEF XStart, objects, b
    <2> QED  BY <2>1, <2>2, <2>3, <1>t, <1>r, Zenon
  <1>6. CASE DeliverCluster
    <2>1. RcsType'
      <3>1. Tail(rcs) \in Seq(RemoteCluster) /\ Len(Tail(rcs)) = Len(rcs) - 1
        BY <1>6, Versions DEF DeliverCluster
      <3> QED  BY <3>1, <1>0, <1>6, SetupAssumption DEF DeliverCluster
    <2>2. Rest' /\ XType' /\ Flags' /\ r' = r
      BY <1>0, <1>6, Zenon DEF DeliverCluster, objects, budget
    <2> QED  BY <2>1, <2>2, <1>t, <1>r, Zenon
  <1>7. CASE \E n \in DOMAIN secrets : HandleSecret(n)
    BY <1>7, <1>0, <1>t, Zenon DEF HandleSecret, objects, budget
  <1>8. CASE EditCluster
    <2>1. RcsType'
      <3>0. PICK rc \in RemoteCluster : Len(rcs) < MaxLag /\ rcs' = Append(rcs, rc)
        <4>1. Live \in RemoteCluster
          BY Versions, Zenon
        <4>2. ASSUME NEW rc \in RemoteCluster, NEW a \in Accesses
              PROVE  [rc EXCEPT !.access = a, !.generation = @ + 1] \in RemoteCluster
          <5>1. [rc EXCEPT !.access = a] \in RemoteCluster
            BY Zenon DEF RemoteCluster
          <5>2. \A o \in RemoteCluster : [o EXCEPT !.generation = @ + 1] \in RemoteCluster
            BY DEF RemoteCluster
          <5> QED  BY <5>1, <5>2, Zenon
        <4>3. ASSUME NEW rc \in RemoteCluster, NEW g \in Grants
              PROVE  [rc EXCEPT !.grant = g, !.generation = @ + 1] \in RemoteCluster
          <5>1. [rc EXCEPT !.grant = g] \in RemoteCluster
            BY Zenon DEF RemoteCluster
          <5>2. \A o \in RemoteCluster : [o EXCEPT !.generation = @ + 1] \in RemoteCluster
            BY DEF RemoteCluster
          <5> QED  BY <5>1, <5>2, Zenon
        <4> QED  BY <1>8, <4>1, <4>2, <4>3, Zenon DEF EditCluster
      <3> QED  BY <3>0, <1>0, Versions, SetupAssumption
    <2>2. Rest' /\ XType' /\ Flags'
      BY <1>0, <1>8, Zenon DEF EditCluster, objects, queues
    <2>3. r' \in RWorker
      BY <1>8, Zenon DEF EditCluster, RWorker
    <2> QED  BY <2>1, <2>2, <2>3, <1>t, <1>r, Zenon
  <1>9. CASE ChangeSecret
    <2>1. Rest'
      BY <1>0, <1>9, Zenon DEF ChangeSecret
    <2>2. RcsType' /\ XType' /\ Flags' /\ r' = r
      BY <1>0, <1>9, Zenon DEF ChangeSecret, queues
    <2> QED  BY <2>1, <2>2, <1>t, <1>r, Zenon
  <1>10. CASE Relabel
    BY <1>10, <1>0, <1>t, Zenon DEF Relabel, queues
  <1>11. CASE Outage
    BY <1>11, <1>0, <1>t, Zenon DEF Outage, queues
  <1>12. CASE Recover
    BY <1>12, <1>0, <1>t, Zenon DEF Recover, queues, budget
  <1>13. CASE UNCHANGED vars
    BY <1>13, <1>0, <1>t, Zenon DEF vars, objects, queues, budget
  <1> QED
    BY <1>1, <1>2, <1>3, <1>4, <1>5, <1>6, <1>7, <1>8, <1>9, <1>10, <1>11, <1>12, <1>13, Zenon DEF Next

-----------------------------------------------------------------------------
(* Clients come from Builds. *)

(* A reconcile caches only a client that it has built. *)
LEMMA ProvenanceStep ==
    ASSUME TypeOK, Provenance, [Next]_vars
    PROVE  Provenance'
  <1> DEFINE XBuilt == x.pc = "start" => BuiltFrom(x.built)
             EntryBuilt == entry # None =>
                \E built : /\ BuiltFrom(built)
                           /\ entry = [fingerprint |-> built.fingerprint, config |-> built.config]
  <1>0. Provenance <=> XBuilt /\ EntryBuilt
    BY Zenon DEF Provenance
  <1>t. Provenance' <=> XBuilt' /\ EntryBuilt'
    BY Zenon DEF Provenance, BuiltFrom
  <1>s. ASSUME UNCHANGED x, entry' \in {entry, None}  PROVE Provenance'
    <2>1. XBuilt'
      BY <1>0, <1>s, Zenon DEF BuiltFrom
    <2>2. EntryBuilt'
      BY <1>0, <1>s, Zenon DEF BuiltFrom
    <2> QED  BY <2>1, <2>2, <1>t, Zenon
  <1>1. CASE XBuild
    <2>1. EntryBuilt'
      BY <1>0, <1>1, Zenon DEF XBuild, BuiltFrom
    <2>2. CASE x' = x \/ x' = XIdle
      BY <2>1, <2>2, <1>0, <1>t DEF XIdle, BuiltFrom
    <2>3. CASE /\ BuildNow(Cached.access).ok
               /\ x' = [pc |-> "start", built |-> BuildNow(Cached.access)]
      <3>1. Cached.access \in Accesses
        BY Versions, Zenon DEF RemoteCluster
      <3>2. BuiltFrom(BuildNow(Cached.access))
        BY <2>3, <3>1, BuildNowBuilds, Zenon DEF BuiltFrom
      <3>3. BuiltFrom(x'.built)
        BY <2>3, <3>2, Zenon
      <3> QED  BY <2>1, <3>3, <1>t, Zenon DEF BuiltFrom
    <2> QED  BY <1>1, <2>2, <2>3, Zenon DEF XBuild, XFail
  <1>2. CASE XStart
    <2>1. x' = XIdle
      BY <1>2, Zenon DEF XStart, XFail
    <2>2. CASE entry' \in {entry, None}
      BY <2>1, <2>2, <1>0, <1>t, Zenon DEF XIdle, BuiltFrom
    <2>3. CASE entry' = [fingerprint |-> x.built.fingerprint, config |-> x.built.config]
      <3>1. BuiltFrom(x.built)
        BY <1>0, <1>2, Zenon DEF XStart
      <3>2. EntryBuilt'
        BY <2>3, <3>1, Zenon DEF BuiltFrom
      <3> QED  BY <2>1, <3>2, <1>t, Zenon DEF XIdle
    <2> QED  BY <1>2, <2>2, <2>3, Zenon DEF XStart
  <1>3. CASE RBuild
    BY <1>3, <1>s, Zenon DEF RBuild
  <1>4. CASE RProbe
    BY <1>4, <1>s, Zenon DEF RProbe
  <1>5. CASE RTimer
    BY <1>5, <1>s, Zenon DEF RTimer
  <1>6. CASE DeliverCluster
    BY <1>6, <1>s, Zenon DEF DeliverCluster
  <1>7. CASE \E n \in DOMAIN secrets : HandleSecret(n)
    BY <1>7, <1>s, Zenon DEF HandleSecret
  <1>8. CASE EditCluster \/ ChangeSecret \/ Relabel \/ Outage \/ Recover
    BY <1>8, <1>s, Zenon DEF EditCluster, ChangeSecret, Relabel, Outage, Recover
  <1>9. CASE UNCHANGED vars
    BY <1>9, <1>s, Zenon DEF vars
  <1> QED
    BY <1>1, <1>2, <1>3, <1>4, <1>5, <1>6, <1>7, <1>8, <1>9, Zenon DEF Next

-----------------------------------------------------------------------------
(* The status stays the verdict. *)

(* Nothing is claimed while the worker will run again. *)
LEMMA BusyStep ==
    ASSUME queueR' \/ Len(rcs)' # 1
    PROVE  ProbesNow' /\ RestsJudged'
  BY Zenon DEF ProbesNow, RestsJudged, Undisturbed

(* Steps that leave alone what the verdict is about. *)
LEMMA FrameStep ==
    ASSUME ReadsHold, ProbesNow, RestsJudged,
           UNCHANGED <<rcs, secrets, handling, queueR, timerR, r>>
    PROVE  ReadsHold' /\ ProbesNow' /\ RestsJudged'
  <1>1. UNCHANGED <<Live, Now, Undisturbed>>
    BY Zenon DEF Live, Now, BuildNow, Undisturbed
  <1>2. ReadsHold'
    BY <1>1, Zenon DEF ReadsHold
  <1>3. ProbesNow'
    BY <1>1, Zenon DEF ProbesNow
  <1>4. RestsJudged'
    BY <1>1, Zenon DEF RestsJudged, Judged
  <1> QED  BY <1>2, <1>3, <1>4, Zenon

(* ReadsHold, ProbesNow and RestsJudged. *)
LEMMA JudgedStep ==
    ASSUME IInv, [Next]_vars
    PROVE  ReadsHold' /\ ProbesNow' /\ RestsJudged'
  <1>0. TypeOK /\ r \in RWorker /\ ReadsHold /\ ProbesNow /\ RestsJudged
    BY Zenon DEF IInv
  <1>n. Len(rcs) = 1 <=> ~(Len(rcs) > 1)
    <2>1. Len(rcs) \in Nat \ {0}
      BY <1>0, Versions, Zenon
    <2>2. \A k \in Nat \ {0} : k = 1 <=> ~(k > 1)
      OBVIOUS
    <2> QED  BY <2>1, <2>2, Zenon
  <1>1. CASE RBuild
    <2> DEFINE built == BuildNow(Cached.access)
    <2>1. CASE /\ built.ok
               /\ r' = [pc |-> "probe", status |-> Cached.status, generation |-> Cached.generation,
                        fresh |-> Len(rcs) = 1, host |-> built.config.connection.host]
               /\ UNCHANGED rcs
      <3>1. /\ r'.pc = "probe" /\ r'.status = Cached.status /\ r'.generation = Cached.generation
            /\ r'.fresh <=> Len(rcs) = 1
            /\ r'.host = built.config.connection.host
        BY <2>1, Zenon
      <3>2. ReadsHold'
        <4>1. Live' = Live /\ Len(rcs') = Len(rcs)
          BY <2>1, Zenon DEF Live
        <4>2. Len(rcs) = 1 => Cached = Live
          BY <1>0, Versions, Zenon
        <4> QED  BY <3>1, <4>1, <4>2, <1>n, Zenon DEF ReadsHold
      <3>3. ProbesNow'
        <4>1. SUFFICES ASSUME Len(rcs) = 1 PROVE (Now.ok /\ r.host = Now.config.connection.host)'
          BY <3>1, Zenon DEF ProbesNow
        <4>2. Now' = BuildNow(Live.access)
          BY <1>1, <2>1, Zenon DEF RBuild, objects, Now, BuildNow, Live
        <4>3. Now' = built
          BY <4>1, <4>2, <1>0, Versions, Zenon
        <4> QED  BY <4>3, <3>1, <2>1, Zenon
      <3>4. RestsJudged'
        BY <3>1, Zenon DEF RestsJudged
      <3> QED  BY <3>2, <3>3, <3>4, Zenon
    <2>2. CASE /\ ~built.ok
               /\ WriteStatus(Cached.status, Failed(Cached, built.reason), Len(rcs) = 1, FALSE)
               /\ UNCHANGED r
      <3>1. ReadsHold' /\ ProbesNow'
        BY <1>1, <2>2, Zenon DEF RBuild, ReadsHold, ProbesNow
      <3>2. Cached.access \in Accesses /\ Cached.status \in RemoteClusterStatus
        BY <1>0, Versions, Zenon DEF RemoteCluster
      <3>3. Failed(Cached, built.reason) \in RemoteClusterStatus
        BY <1>0, <3>2, <2>2, BuildNowType, StatusTypes, Zenon
      <3>4. Len(rcs') > 1 \/ (rcs' = rcs /\ (Failed(Cached, built.reason) = Cached.status \/ Len(rcs) # 1))
        BY <1>0, <2>2, <3>3, WriteStatusType, Zenon
      <3>5. RestsJudged'
        <4>1. SUFFICES ASSUME Len(rcs') = 1  PROVE Judged'
          BY Zenon DEF RestsJudged, Undisturbed
        <4>2. rcs' = rcs /\ Failed(Cached, built.reason) = Cached.status
          BY <3>4, <4>1
        <4>3. Cached = Live /\ Live' = Live
          BY <1>0, <4>1, <4>2, Versions, Zenon DEF Live
        <4>4. Now' = built
          BY <1>1, <4>2, <4>3, Zenon DEF RBuild, objects, Now, BuildNow, Live
        <4>5. /\ Cached.status.authenticated = "false" /\ Cached.status.ready = "false"
              /\ Cached.status.reason = built.reason
          <5> DEFINE reason == built.reason
          <5> HIDE DEF built, reason
          <5>1. Failed(Cached, reason) = Cached.status
            BY <4>2, Zenon DEF reason
          <5>2. Failed(Cached, reason).authenticated = "false" /\ Failed(Cached, reason).ready = "false"
                /\ Failed(Cached, reason).reason = reason
            BY <3>2, Zenon DEF Failed, RemoteClusterStatus
          <5> QED  BY <5>1, <5>2, Zenon DEF reason
        <4> QED  BY <4>3, <4>4, <4>5, <2>2, Zenon DEF Judged
      <3> QED  BY <3>1, <3>5, Zenon
    <2> QED  BY <1>1, <2>1, <2>2, Zenon DEF RBuild
  <1>2. CASE RProbe
    <2>0. r' = RIdle /\ r'.pc = "idle"
      BY <1>2, Zenon DEF RProbe, RIdle
    <2>1. ReadsHold' /\ ProbesNow'
      BY <2>0, Zenon DEF ReadsHold, ProbesNow
    <2>2. RestsJudged'
      <3>1. SUFFICES ASSUME Undisturbed' PROVE Judged'
        BY Zenon DEF RestsJudged
      <3>2. Len(rcs') = 1 /\ ~queueR
        BY <3>1, <1>2, Zenon DEF Undisturbed, RProbe
      <3>3. rcs' = rcs /\ (Probed(up) = r.status \/ ~r.fresh)
        <4>1. Probed(up) \in RemoteClusterStatus
          BY <1>0, StatusTypes, Zenon
        <4> QED  BY <1>0, <1>2, <3>2, <4>1, WriteStatusType DEF RProbe
      <3>4. r.fresh /\ r.status = Live.status /\ r.generation = Live.generation
        <4>1. ~(Len(rcs) > 1) /\ r.pc = "probe"
          BY <1>2, <1>n, <3>2, <3>3, Zenon DEF RProbe
        <4> QED  BY <1>0, <3>2, <4>1, Zenon DEF ReadsHold
      <3>5. Undisturbed
        BY <3>1, <3>3, <1>2, Zenon DEF Undisturbed, RProbe, Live
      <3>6. Now.ok /\ r.host = Now.config.connection.host
        BY <1>0, <1>2, <3>4, <3>5, Zenon DEF ProbesNow, RProbe
      <3>7. Live' = Live /\ Now' = Now /\ timerR'
        BY <1>2, <3>3, Zenon DEF Live, Now, BuildNow, RProbe, objects
      <3>8. Live.status.authenticated = "true" /\ Live.status.host = r.host
            /\ Live.status.observed = r.generation
        <4>1. Live.status = Probed(up)
          BY <3>3, <3>4, Zenon
        <4>2. Probed(up).authenticated = "true" /\ Probed(up).host = r.host
              /\ Probed(up).observed = r.generation
          BY Zenon DEF Probed
        <4> QED  BY <4>1, <4>2, Zenon
      <3> QED  BY <3>4, <3>6, <3>7, <3>8, Zenon DEF Judged
    <2> QED  BY <2>1, <2>2, Zenon
  <1>3. CASE RTimer
    <2>1. queueR' /\ rcs' = rcs /\ r' = r
      BY <1>3, Zenon DEF RTimer
    <2>2. ReadsHold'
      BY <2>1, <1>0, Zenon DEF ReadsHold, Live
    <2> QED  BY <2>1, <2>2, BusyStep, Zenon
  <1>4. CASE XBuild
    BY <1>4, <1>0, FrameStep, Zenon DEF XBuild, objects
  <1>5. CASE XStart
    BY <1>5, <1>0, FrameStep, Zenon DEF XStart, objects
  <1>6. CASE DeliverCluster
    <2>1. queueR' /\ Len(rcs) > 1 /\ r' = r
      BY <1>6, Zenon DEF DeliverCluster
    <2>2. Len(rcs) # 1
      BY <2>1, <1>n, Zenon
    <2>3. ReadsHold'
      BY <2>1, <2>2, <1>0, Zenon DEF ReadsHold
    <2> QED  BY <2>1, <2>3, BusyStep, Zenon
  <1>7. CASE \E n \in DOMAIN secrets : HandleSecret(n)
    <2>1. PICK n \in DOMAIN secrets : HandleSecret(n)
      BY <1>7, Zenon
    <2>2. rcs' = rcs /\ secrets' = secrets /\ r' = r /\ timerR' = timerR /\ handling' = handling \ {n}
      BY <2>1, Zenon DEF HandleSecret, objects
    <2>3. CASE n \in SecretRefs(Cached.access)
      <3>1. queueR'
        BY <2>1, <2>3, Zenon DEF HandleSecret
      <3>2. ReadsHold'
        BY <3>1, <2>2, <1>0, Zenon DEF ReadsHold, Live
      <3> QED  BY <3>1, <3>2, BusyStep, Zenon
    <2>4. CASE n \notin SecretRefs(Cached.access)
      <3>1. queueR' = queueR
        BY <2>1, <2>4, Zenon DEF HandleSecret
      <3>2. Live' = Live /\ Now' = Now
        BY <2>2, Zenon DEF Live, Now, BuildNow
      <3>3. Undisturbed' => Undisturbed
        BY <2>2, <2>4, <3>1, <3>2, <1>0, Versions, Zenon DEF Undisturbed
      <3>4. ReadsHold'
        BY <2>2, <3>1, <3>2, <1>0, Zenon DEF ReadsHold
      <3>5. ProbesNow'
        BY <2>2, <3>2, <3>3, <1>0, Zenon DEF ProbesNow
      <3>6. RestsJudged'
        BY <2>2, <3>2, <3>3, <1>0, Zenon DEF RestsJudged, Judged
      <3> QED  BY <3>4, <3>5, <3>6, Zenon
    <2> QED  BY <2>3, <2>4, Zenon
  <1>8. CASE EditCluster
    <2>1. Len(rcs') > 1
      <3>1. \E rc : rcs' = Append(rcs, rc)
        BY <1>8, Zenon DEF EditCluster
      <3> QED  BY <3>1, <1>0, Versions
    <2>2. r'.fresh = FALSE
      BY <1>8, <1>0, Zenon DEF EditCluster, RWorker
    <2>3. ReadsHold'
      BY <2>1, <2>2, Zenon DEF ReadsHold
    <2>4. Len(rcs') # 1
      BY <2>1
    <2> QED  BY <2>3, <2>4, BusyStep, Zenon
  <1>9. CASE ChangeSecret
    <2>1. PICK n \in DOMAIN secrets, v \in UNION {Contents[m] : m \in DOMAIN Contents} :
            /\ v \in Contents[n]
            /\ secrets' = [secrets EXCEPT ![n] = v]
            /\ handling' = handling \cup {n}
      BY <1>9, <1>0, ZenonT(30) DEF ChangeSecret, TypeOK
    <2>2. rcs' = rcs /\ queueR' = queueR /\ timerR' = timerR /\ r' = r /\ Live' = Live
      BY <1>9, Zenon DEF ChangeSecret, queues, Live
    <2>3. Undisturbed' => Undisturbed /\ n \notin SecretRefs(Live.access)
      BY <2>1, <2>2, Zenon DEF Undisturbed
    <2>4. Undisturbed' => Now' = Now
      <3>1. SUFFICES ASSUME Undisturbed' PROVE Now' = Now
        BY Zenon
      <3>2. Live.access \in Accesses
        BY <1>0, Versions, Zenon DEF RemoteCluster
      <3>3. Listed(Live.access) /\ n \notin SecretRefs(Live.access)
        BY <2>3, <3>1, Zenon DEF Undisturbed
      <3>4. DOMAIN secrets' = DOMAIN secrets
        BY <2>1, Zenon
      <3>5. Now' = Build(Live.access, There', TheCloud)
        BY <2>2, Zenon DEF Now, BuildNow, There
      <3>6. Now = Build(Live.access, There, TheCloud)
        BY Zenon DEF Now, BuildNow, There
      <3>7. Build(Live.access, There', TheCloud) = Build(Live.access, There, TheCloud)
        <4> DEFINE a == Live.access
        <4>1. a \in Accesses /\ Listed(a) /\ n \notin SecretRefs(a)
          BY <3>2, <3>3, Zenon
        <4> HIDE DEF a
        <4>2. \A m \in SecretRefs(a) : SameSecret(There', There, m)
          <5> TAKE m \in SecretRefs(a)
          <5>1. m \in DOMAIN secrets => secrets'[m] = secrets[m]
            BY <2>1, <4>1, Zenon
          <5> QED  BY <5>1, <3>4, Zenon DEF SameSecret, There
        <4>3. a \in ClusterAccess /\ HasCredential(a)
          BY <4>1, AccessesAssumption, Zenon
        <4>4. Build(a, There', TheCloud) = Build(a, There, TheCloud)
          BY <4>1, <4>2, <4>3, BuildReads, Zenon
        <4> QED  BY <4>4, Zenon DEF a
      <3> QED  BY <3>5, <3>6, <3>7, Zenon
    <2>5. ReadsHold'
      BY <2>2, <1>0, Zenon DEF ReadsHold
    <2>6. ProbesNow'
      BY <2>2, <2>3, <2>4, <1>0, Zenon DEF ProbesNow
    <2>7. RestsJudged'
      BY <2>2, <2>3, <2>4, <1>0, Zenon DEF RestsJudged, Judged
    <2> QED  BY <2>5, <2>6, <2>7, Zenon
  <1>10. CASE Relabel \/ Outage \/ Recover
    BY <1>10, <1>0, FrameStep, Zenon DEF Relabel, Outage, Recover, queues
  <1>11. CASE UNCHANGED vars
    BY <1>11, <1>0, FrameStep, Zenon DEF vars, objects, queues
  <1> QED
    BY <1>1, <1>2, <1>3, <1>4, <1>5, <1>6, <1>7, <1>8, <1>9, <1>10, <1>11, Zenon DEF Next

-----------------------------------------------------------------------------

(* The inductive invariant. *)
LEMMA Invariance == Spec => []IInv
  <1>1. IInv /\ [Next]_vars => IInv'
    <2> SUFFICES ASSUME IInv, [Next]_vars PROVE IInv'
      BY Zenon
    <2>1. TypeOK' /\ r' \in RWorker /\ Provenance'
      BY TypeStep, ProvenanceStep, Zenon DEF IInv
    <2>2. ReadsHold' /\ ProbesNow' /\ RestsJudged'
      BY JudgedStep, Zenon
    <2> QED  BY <2>1, <2>2, Zenon DEF IInv, RWorker
  <1> QED  BY InvInit, <1>1, PTL DEF Spec

(* TypeOK: every variable has its type, and a CrossService goes on to the  *)
(* client cache (XStart) only with a connection that was built.            *)
THEOREM TypeCorrect == Spec => []TypeOK
  <1>1. IInv => TypeOK
    BY Zenon DEF IInv
  <1> QED  BY Invariance, <1>1, PTL

(* Whenever the RemoteCluster controller rests, the status is the verdict  *)
(* on the spec and the Secrets there are, for access blocks whose Secrets  *)
(* SecretRefs lists: no edit, Secret event, probe or conflict, in whatever *)
(* order, leaves it with an old one.                                       *)
THEOREM StatusIsVerdict == Spec => []SettledMeansJudged
  <1>1. IInv => SettledMeansJudged
    BY Zenon DEF IInv, RestsJudged, Undisturbed, Judged, SettledMeansJudged, Settled
  <1> QED  BY Invariance, <1>1, PTL

(* A cached client whose fingerprint is the one a Build gives now has the  *)
(* server, the credentials, the CA, the server name and the proxy a Build  *)
(* would give now: Get never reuses a client across a rotation of these.   *)
(* It may reuse one across an edit of what UnhashedInputs names.           *)
THEOREM ReuseIsSafe == Spec => []FingerprintTells
  <1>1. IInv => FingerprintTells
    <2>1. SUFFICES ASSUME IInv, entry # None, Now.ok, entry.fingerprint = Now.fingerprint
                   PROVE  SameAccess(entry.config, Now.config)
      BY Zenon DEF FingerprintTells
    <2>2. PICK a \in Accesses : \E s :
             /\ Build(a, s, TheCloud).ok
             /\ entry = [fingerprint |-> Build(a, s, TheCloud).fingerprint,
                         config |-> Build(a, s, TheCloud).config]
      BY <2>1, Zenon DEF IInv, Provenance, BuiltFrom
    <2>3. PICK s : /\ Build(a, s, TheCloud).ok
                   /\ entry = [fingerprint |-> Build(a, s, TheCloud).fingerprint,
                               config |-> Build(a, s, TheCloud).config]
      BY <2>2, Zenon
    <2>4. Live.access \in Accesses
      BY <2>1, Versions, Zenon DEF IInv, RemoteCluster
    <2>5. a \in ClusterAccess /\ Live.access \in ClusterAccess
      BY <2>4, AccessesAssumption, Zenon
    <2>6. Now = Build(Live.access, There, TheCloud)
      BY BuildNowBuilds, Zenon DEF Now
    <2>7. entry.fingerprint = Build(a, s, TheCloud).fingerprint /\ entry.config = Build(a, s, TheCloud).config
      BY <2>3, Zenon
    <2> QED  BY <2>1, <2>3, <2>5, <2>6, <2>7, FingerprintIdentifies
  <1> QED  BY Invariance, <1>1, PTL
=============================================================================
