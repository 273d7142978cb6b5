----------------------------- MODULE NetworkPass -----------------------------
(***************************************************************************)
(* The pass of the network controller over one Network, one action per API *)
(* call, from the dev mode flag and the TTL to the peers config map        *)
(* (operator/src/network/controller.rs, reconcile_).  How many replicas    *)
(* each ceramic gets is ReplicaAllocation; what follows the peers map, the *)
(* bootstrap job and the status, is NetworkBootstrap.                      *)
(*                                                                         *)
(* Around it: the user who edits, deletes and creates the Network under    *)
(* one name, the watch cache passes start from, the garbage collector,     *)
(* which deletes what a dead owner owned, the databases, which keep the    *)
(* password they were created with, and another network of the same        *)
(* operator, of which only what the two share is left: the process-wide    *)
(* flag and the cluster role and binding of the collectors.                *)
(***************************************************************************)
EXTENDS NetworkObjects, Integers, SequencesExt

CONSTANTS
  Specs,         \* bound: the specs users write, a sequence
  MAX_CERAMICS,
  SourceSecrets, \* the secrets of the namespace "keramik"
  Watched,       \* bound: the sets whose limits the run records
  Histories      \* bound: what may happen: see HistoryType

\* The spec the network starts with, those it may be given later, and how many
\* edits, deletions, creations and failed calls there may be; whether the pod
\* monitor CRD is installed, and whether the other network is there.
HistoryType ==
  [first : SUBSET (1 .. Len(Specs)), later : SUBSET (1 .. Len(Specs)),
   edits : Nat, deletes : Nat, creates : Nat, aborts : Nat,
   crd : BOOLEAN, others : BOOLEAN]

\* The value of a variable a user writes is text or an address, never a secret.
Plain(values) == \A v \in DOMAIN values : values[v].from # "secret"

ASSUME PassAssumption ==
  /\ MAX_CERAMICS \in Nat
  /\ Histories \subseteq HistoryType
  /\ Len(Specs) \in Nat
  /\ \A s \in 1 .. Len(Specs) :
       /\ Specs[s].dev_mode \in BOOLEAN
       /\ Len(Specs[s].ceramic) \in Nat
       /\ \A k \in 1 .. Len(Specs[s].ceramic) : Plain(Specs[s].ceramic[k].env)
       /\ Specs[s].cas # <<>> => Plain(Specs[s].cas[1].env)
       /\ Specs[s].eth_rpc_url # <<>> => Specs[s].eth_rpc_url[1].from # "secret"
       /\ Specs[s].cas_api_url # <<>> => Specs[s].cas_api_url[1].from # "secret"

\* Every ceramic has a name of its own.
ASSUME NamesAssumption ==
  \A j, k \in 1 .. MAX_CERAMICS :
    /\ CeramicName(j) = CeramicName(k) => j = k
    /\ CeramicName(k) \notin {"jaeger", "prometheus", "opentelemetry", "cas", "cas-ipfs", "ganache",
                             "cas-postgres", "localstack"}

VARIABLES
  net,       \* the Network at the API server: does it exist, its uid and spec
  cache,     \* the controller's copy of it
  aged,      \* the uids whose time to live is over
  pass,      \* the pass under way: the calls it has left and what it works from
  flag,      \* NETWORK_DEV_MODE_RESOURCES
  namespace, \* the owner of keramik-<name>, 0 when there is none
  objs,      \* the objects in it: owner, and the spec and modes they were built from
  secrets,   \* the secrets in it: owner and version of the random value
  password,  \* the version of the password each database was created with
  rights,    \* the owners of the cluster role and the binding, of those that exist
  other,     \* the other network: is it there, and its dev mode
  left       \* the history: what may still happen

vars == <<net, cache, aged, pass, flag, namespace, objs, secrets, password, rights, other, left>>

environment == <<net, cache, aged, other, left>>

-----------------------------------------------------------------------------
(* What a pass over spec s does *)

Ceramics(s) == Len(CeramicConfigs(Specs[s].ceramic, FALSE))
Accepted(s) == Ceramics(s) <= MAX_CERAMICS

MapCalls(maps) == SetToSeq({<<"map", n>> : n \in DOMAIN maps})

Monitor(m) == <<<<"findMonitor", m>>, <<"createMonitor", m>>>>
MonitorCalls == Monitor("ceramic") \o Monitor("ceramic-one") \o Monitor("otel")

MonitoringCalls(s) ==
  IF ~ Specs[s].namespaced THEN <<>>
  ELSE (IF Specs[s].pod_monitor THEN MonitorCalls ELSE <<>>)
       \o <<<<"service", "jaeger">>, <<"set", "jaeger">>>>
       \o MapCalls(PrometheusMaps) \o <<<<"set", "prometheus">>>>
       \o <<<<"account", OTEL_ACCOUNT>>, <<"right", "role">>, <<"right", "binding">>>>
       \o MapCalls(OtelMaps) \o <<<<"service", "otel">>, <<"set", "opentelemetry">>>>

SecretCalls(name) == <<<<"findSecret", name>>, <<"createSecret", name>>>>

Calls(kind, names) == [k \in 1 .. Len(names) |-> <<kind, names[k]>>]

CasCalls(s) ==
  IF Specs[s].network_type # "local" THEN <<>>
  ELSE MapCalls(CasMaps(CasConfig(Specs[s].cas, FALSE)))
       \o SecretCalls("postgres-auth")
       \o Calls("service", <<"cas", "cas-ipfs", "ganache", "cas-postgres", "localstack">>)
       \o Calls("set", <<"cas", "cas-ipfs", "ganache", "cas-postgres", "localstack">>)

\* A named source secret is read between the look and the creation.
AdminCalls(s) ==
  IF Specs[s].private_key_secret = <<>> THEN SecretCalls("ceramic-admin")
  ELSE <<<<"findSecret", "ceramic-admin">>,
         <<"source", Specs[s].private_key_secret[1]>>, <<"createSecret", "ceramic-admin">>>>

CeramicCalls(s) ==
  FlattenSeq([k \in 1 .. Ceramics(s) |->
     MapCalls(CeramicMaps(CeramicConfigs(Specs[s].ceramic, FALSE)[k], Suffix(k)))
     \o <<<<"service", CeramicName(k)>>, <<"set", CeramicName(k)>>>>])

\* The flag is loaded for a ceramic, and once more for its ipfs section.
LoadCalls(s) ==
  FlattenSeq([k \in 1 .. Ceramics(s) |->
     LET load == <<"load", CeramicName(k)>>
     IN  IF k <= Len(Specs[s].ceramic) /\ Specs[s].ceramic[k].ipfs # <<>>
           THEN <<load, load>> ELSE <<load>>])

\* Mutant of AllCalls: the secret of the ceramics comes after the ceramics.
AllCallsSecretLast(s) ==
  LoadCalls(s) \o <<<<"namespace", "">>>> \o MonitoringCalls(s) \o CasCalls(s) \o AdminCalls(s)
  \o <<<<"list", "">>>> \o CeramicCalls(s) \o SecretCalls("ceramic-postgres-auth")
  \o MapCalls(PeersMap)

AllCalls(s) ==
  LoadCalls(s) \o <<<<"namespace", "">>>> \o MonitoringCalls(s) \o CasCalls(s) \o AdminCalls(s)
  \o <<<<"list", "">>>> \o SecretCalls("ceramic-postgres-auth") \o CeramicCalls(s)
  \o MapCalls(PeersMap)

\* The stateful set n as a pass over spec s builds it when the flag reads mode.
Template(s, n, mode) ==
  LET cas == CasConfig(Specs[s].cas, mode)
      net_config == NetworkConfig(Specs[s])
  IN  CASE n = "jaeger"        -> JaegerSet(mode)
        [] n = "prometheus"    -> PrometheusSet(mode)
        [] n = "opentelemetry" -> OtelSet(mode)
        [] n = "cas"           -> CasSet(cas)
        [] n = "cas-ipfs"      -> CasIpfsSet(cas, net_config)
        [] n = "ganache"       -> GanacheSet(cas)
        [] n = "cas-postgres"  -> CasPostgresSet(cas)
        [] n = "localstack"    -> LocalstackSet(cas)
        [] OTHER ->
             LET k == CHOOSE k \in 1 .. Ceramics(s) : CeramicName(k) = n
             IN  CeramicSet(CeramicConfigs(Specs[s].ceramic, mode)[k], net_config, Suffix(k))

ServiceOf(n) ==
  CASE n = "jaeger"       -> JaegerService
    [] n = "otel"         -> OtelService
    [] n = "cas"          -> CasService
    [] n = "cas-ipfs"     -> CasIpfsService
    [] n = "ganache"      -> GanacheService
    [] n = "cas-postgres" -> PostgresService
    [] n = "localstack"   -> LocalstackService
    [] OTHER              -> CeramicService

\* The config maps a pass over spec s writes.
MapsOf(s) ==
  FoldLeft(LAMBDA maps, k : maps @@ CeramicMaps(CeramicConfigs(Specs[s].ceramic, FALSE)[k], Suffix(k)),
           PrometheusMaps @@ OtelMaps @@ PeersMap @@ CasMaps(CasConfig(Specs[s].cas, FALSE)),
           [k \in 1 .. Ceramics(s) |-> k])

AllSpecs == 1 .. Len(Specs)

\* A function that TLC computes once.
Table(f) == CHOOSE g \in {f} : g = f

PassCalls == Table([s \in AllSpecs |-> IF Accepted(s) THEN AllCalls(s) ELSE <<>>])
Named(s, kind) == {c[2] : c \in {x \in ToSet(PassCalls[s]) : x[1] = kind}}
Sets == Table([s \in AllSpecs |-> Named(s, "set")])
AllCeramics == {CeramicName(k) : k \in 1 .. MAX_CERAMICS}
AllSets == UNION {{s} \X Sets[s] : s \in AllSpecs}
Built == Table([t \in AllSets \X BOOLEAN |-> Template(t[1][1], t[1][2], t[2])])

-----------------------------------------------------------------------------

Idle == [todo |-> <<>>, uid |-> 0, spec |-> 0, read |-> {}]

Init ==
  /\ left \in Histories
  /\ \E s \in left.first : net = [exists |-> TRUE, uid |-> 1, spec |-> s]
  /\ cache = net
  /\ aged = {}
  /\ pass = Idle
  /\ flag = FALSE
  /\ namespace = 0
  /\ objs = <<>> /\ secrets = <<>> /\ password = <<>> /\ rights = <<>>
  /\ \E m \in BOOLEAN : other = [exists |-> left.others, mode |-> left.others /\ m]

-----------------------------------------------------------------------------
(* The pass *)

Put(f, x, y) == Over(One(x, y), f)
Keep(f, S) == [x \in S |-> f[x]]

\* The flag is loaded for a component of the monitoring at its first call.
Opens ==
  (<<"service", "jaeger">> :> "jaeger") @@ (<<"map", "prom-config">> :> "prometheus")
  @@ (<<"account", OTEL_ACCOUNT>> :> "opentelemetry")

\* The watched sets that call loads the flag for.
LoadedFor(call) ==
  Watched \cap (IF call \in DOMAIN Opens THEN {Opens[call]}
                ELSE IF call[1] = "load" THEN {call[2]} ELSE {})

\* What the pass has read of the flag, for the sets it has yet to apply.
Read ==
  LET call == Head(pass.todo)
  IN  {r \in pass.read : call # <<"set", r[1]>>} \cup (LoadedFor(call) \X {flag})

Doing(kind) == pass.todo # <<>> /\ Head(pass.todo)[1] = kind
Name == Head(pass.todo)[2]

\* Mutant of GoOn: a pass that ends leaves what it worked from.
GoOnKeeping(todo) == pass' = [pass EXCEPT !.todo = todo, !.read = Read]

\* The pass goes on with what is left to do, and ends when that is nothing.
GoOn(todo) ==
  pass' = IF todo = <<>> THEN Idle ELSE [pass EXCEPT !.todo = todo, !.read = Read]
Done == GoOn(Tail(pass.todo))

\* Mutant of Stored: the flag is only ever set.
StoredSticky(s) == flag \/ Specs[s].dev_mode

Stored(s) == Specs[s].dev_mode

Due == pass.todo = <<>> /\ cache.exists

\* Mutant of Expired: a network that is past its time is kept.
ExpiredNever == FALSE

\* The age is that of the cached Network, the TTL that of its cached spec.
Expired == Specs[cache.spec].ttl /\ cache.uid \in aged

Begin(todo) ==
  /\ pass' = [Idle EXCEPT !.todo = todo, !.uid = cache.uid, !.spec = cache.spec]
  /\ UNCHANGED <<namespace, objs, secrets, password, rights>>
  /\ UNCHANGED environment

\* The flag is stored.  The configurations load it later, and passes over other
\* networks run on other threads meanwhile.
StartPass ==
  /\ Due /\ Accepted(cache.spec) /\ ~ Expired
  /\ flag' = Stored(cache.spec)
  /\ Begin(PassCalls[cache.spec])

StartExpiry ==
  /\ Due /\ Accepted(cache.spec) /\ Expired
  /\ flag' = Stored(cache.spec)
  /\ Begin(<<<<"delete", "">>>>)

\* Too many ceramics: an error before the TTL is looked at.
RejectPass ==
  /\ Due /\ ~ Accepted(cache.spec)
  /\ flag' = Stored(cache.spec)
  /\ UNCHANGED <<pass, namespace, objs, secrets, password, rights>>
  /\ UNCHANGED environment

\* By name: whichever Network has it.
DeleteNetwork ==
  /\ Doing("delete") /\ Done
  /\ net' = [net EXCEPT !.exists = FALSE]
  /\ UNCHANGED <<cache, aged, flag, namespace, objs, secrets, password, rights, other, left>>

Nobody == -1

\* Mutant of Owner: objects are applied without owner references.
OwnerNobody == Nobody

\* The owner references of everything a pass creates.
Owner == pass.uid

\* A ceramic configuration is built from the flag as it is now.
LoadMode ==
  /\ Doing("load") /\ Done
  /\ UNCHANGED <<flag, namespace, objs, secrets, password, rights>> /\ UNCHANGED environment

ApplyNamespace ==
  /\ Doing("namespace") /\ Done
  /\ namespace' = Owner
  /\ UNCHANGED <<flag, objs, secrets, password, rights>> /\ UNCHANGED environment

\* The modes the pass builds set n under: a set whose configuration is not built
\* before loads the flag when it is applied.
ModeSeen(n) ==
  IF n \in AllCeramics \cup {Opens[call] : call \in DOMAIN Opens}
    THEN {m \in BOOLEAN : <<n, m>> \in pass.read} ELSE {flag}

Owned(mode) == [owner |-> Owner, spec |-> pass.spec, mode |-> mode]

Apply(mode) ==
  /\ namespace # 0 /\ Done
  /\ objs' = Put(objs, Head(pass.todo), Owned(mode))
  /\ UNCHANGED <<flag, namespace, secrets, password, rights>> /\ UNCHANGED environment

ApplyConfigMap == Doing("map") /\ Apply({})
ApplyService == Doing("service") /\ Apply({})
ApplyAccount == Doing("account") /\ Apply({})

\* The modes are recorded for the watched sets.
ApplyStatefulSet == Doing("set") /\ Apply(IF Name \in Watched THEN ModeSeen(Name) ELSE {})

\* The cluster role and its binding belong to the last network that applied them.
ApplyRight ==
  /\ Doing("right") /\ Done
  /\ rights' = Put(rights, Name, Owner)
  /\ UNCHANGED <<flag, namespace, objs, secrets, password>> /\ UNCHANGED environment

\* Without the CRD there is a warning; a monitor that exists is left as it is.
FindMonitor ==
  /\ Doing("findMonitor")
  /\ GoOn(IF left.crd /\ <<"monitor", Name>> \notin DOMAIN objs
            THEN Tail(pass.todo) ELSE Tail(Tail(pass.todo)))
  /\ UNCHANGED <<flag, namespace, objs, secrets, password, rights>> /\ UNCHANGED environment

CreateMonitor ==
  /\ Doing("createMonitor") /\ namespace # 0 /\ Done
  /\ objs' = Put(objs, <<"monitor", Name>>, Owned({}))
  /\ UNCHANGED <<flag, namespace, secrets, password, rights>> /\ UNCHANGED environment

\* Mutant of Missing: the secret is created on every pass.
MissingAlways(name) == TRUE

Missing(name) == name \notin DOMAIN secrets

\* What follows the creation of the secret.
PastCreation ==
  LET k == IF pass.todo[2][1] = "source" THEN 3 ELSE 2
  IN  SubSeq(pass.todo, k + 1, Len(pass.todo))

FindSecret ==
  /\ Doing("findSecret")
  /\ GoOn(IF Missing(Name) THEN Tail(pass.todo) ELSE PastCreation)
  /\ UNCHANGED <<flag, namespace, objs, secrets, password, rights>> /\ UNCHANGED environment

\* The source secret is looked up in the namespace "keramik".
ReadSource ==
  /\ Doing("source") /\ Name \in SourceSecrets /\ Done
  /\ UNCHANGED <<flag, namespace, objs, secrets, password, rights>> /\ UNCHANGED environment

\* A random value is one that is not in use.
Fresh ==
  LET used == {password[d] : d \in DOMAIN password} \cup {secrets[n].version : n \in DOMAIN secrets}
  IN  CHOOSE v \in 1 .. (Cardinality(used) + 1) : v \notin used

CreateSecret ==
  /\ Doing("createSecret") /\ namespace # 0 /\ Done
  /\ secrets' = Put(secrets, Name, [owner |-> Owner, version |-> Fresh])
  /\ UNCHANGED <<flag, namespace, objs, password, rights>> /\ UNCHANGED environment

\* The sets and services of ceramics the spec does not have any more.
Extra(kind) ==
  {n \in AllCeramics : <<kind, n>> \in DOMAIN objs /\ <<kind, n>> \notin ToSet(PassCalls[pass.spec])}

ListCeramics ==
  /\ Doing("list")
  /\ GoOn(SetToSeq({"deleteSet"} \X Extra("set"))
           \o SetToSeq({"deleteService"} \X Extra("service")) \o Tail(pass.todo))
  /\ UNCHANGED <<flag, namespace, objs, secrets, password, rights>> /\ UNCHANGED environment

Delete(key) ==
  /\ Done
  /\ objs' = Keep(objs, DOMAIN objs \ {key})
  /\ UNCHANGED <<flag, namespace, secrets, password, rights>> /\ UNCHANGED environment

DeleteExtraSet == Doing("deleteSet") /\ Delete(<<"set", Name>>)
DeleteExtraService == Doing("deleteService") /\ Delete(<<"service", Name>>)

\* Writing into a namespace that is gone, or naming a source secret that is not
\* there, ends the pass.
CallRefused ==
  /\ \/ /\ namespace = 0
        /\ \E kind \in {"map", "service", "set", "account", "createMonitor", "createSecret"} : Doing(kind)
     \/ Doing("source") /\ Name \notin SourceSecrets
  /\ GoOn(<<>>)
  /\ UNCHANGED <<flag, namespace, objs, secrets, password, rights>> /\ UNCHANGED environment

\* The `?` of a failed call, which leaves the flag, or a restart of the operator.
Abort ==
  /\ pass.todo # <<>> /\ left.aborts > 0
  /\ GoOn(<<>>)
  /\ flag' \in {flag, FALSE}
  /\ left' = [left EXCEPT !.aborts = @ - 1]
  /\ UNCHANGED <<net, cache, aged, namespace, objs, secrets, password, rights, other>>

Pass ==
  \/ StartPass \/ StartExpiry \/ RejectPass \/ DeleteNetwork \/ LoadMode \/ ApplyNamespace
  \/ ApplyConfigMap \/ ApplyService \/ ApplyAccount \/ ApplyStatefulSet \/ ApplyRight
  \/ FindMonitor \/ CreateMonitor \/ FindSecret \/ ReadSource \/ CreateSecret
  \/ ListCeramics \/ DeleteExtraSet \/ DeleteExtraService \/ CallRefused

-----------------------------------------------------------------------------
(* The user, the watch and the clock *)

content == <<pass, flag, namespace, objs, secrets, password, rights>>

UserEdits ==
  /\ net.exists /\ left.edits > 0
  /\ \E s \in left.later \ {net.spec} : net' = [net EXCEPT !.spec = s]
  /\ left' = [left EXCEPT !.edits = @ - 1]
  /\ UNCHANGED <<cache, aged, other>> /\ UNCHANGED content

UserDeletes ==
  /\ net.exists /\ left.deletes > 0
  /\ net' = [net EXCEPT !.exists = FALSE]
  /\ left' = [left EXCEPT !.deletes = @ - 1]
  /\ UNCHANGED <<cache, aged, other>> /\ UNCHANGED content

UserCreates ==
  /\ ~ net.exists /\ left.creates > 0
  /\ \E s \in left.later : net' = [exists |-> TRUE, uid |-> net.uid + 1, spec |-> s]
  /\ left' = [left EXCEPT !.creates = @ - 1]
  /\ UNCHANGED <<cache, aged, other>> /\ UNCHANGED content

Observe ==
  /\ cache # net /\ cache' = net
  /\ UNCHANGED <<net, aged, other, left>> /\ UNCHANGED content

\* The time to live of the Network that exists is over.
Age ==
  /\ net.exists /\ Specs[net.spec].ttl /\ net.uid \notin aged
  /\ aged' = aged \cup {net.uid}
  /\ UNCHANGED <<net, cache, other, left>> /\ UNCHANGED content

-----------------------------------------------------------------------------
(* The cluster *)

Other == 0
Live(uid) ==
  \/ uid = Nobody
  \/ uid = Other /\ other.exists
  \/ uid = net.uid /\ net.exists

\* Bound: the collector works through all orphans of a kind at once.
CollectNamespace ==
  /\ namespace # 0 /\ ~ Live(namespace)
  /\ namespace' = 0
  /\ objs' = <<>> /\ secrets' = <<>> /\ password' = <<>>
  /\ UNCHANGED <<pass, flag, rights>> /\ UNCHANGED environment

Orphans(f) == {x \in DOMAIN f : ~ Live(f[x].owner)}

CollectObjects ==
  /\ Orphans(objs) # {} \/ Orphans(secrets) # {}
  /\ objs' = Keep(objs, DOMAIN objs \ Orphans(objs))
  /\ secrets' = Keep(secrets, DOMAIN secrets \ Orphans(secrets))
  /\ UNCHANGED <<pass, flag, namespace, password, rights>> /\ UNCHANGED environment

CollectRights ==
  /\ \E r \in DOMAIN rights : ~ Live(rights[r])
  /\ rights' = Keep(rights, {r \in DOMAIN rights : Live(rights[r])})
  /\ UNCHANGED <<pass, flag, namespace, objs, secrets, password>> /\ UNCHANGED environment

\* The secret the login of a database set comes from.
Login(n) == IF n = "cas-postgres" THEN "postgres-auth" ELSE "ceramic-postgres-auth"

Databases == {"cas-postgres"} \cup AllCeramics

\* The first pod of a database set creates the database in the set's claim,
\* which outlives the set.  Bound: databases that can start start together.
DatabasesStart ==
  LET starting == {n \in Databases : /\ <<"set", n>> \in DOMAIN objs
                                     /\ n \notin DOMAIN password
                                     /\ Login(n) \in DOMAIN secrets}
  IN  /\ starting # {}
      /\ password' = Over([n \in starting |-> secrets[Login(n)].version], password)
      /\ UNCHANGED <<pass, flag, namespace, objs, secrets, rights>> /\ UNCHANGED environment

-----------------------------------------------------------------------------
(* The other network *)

OtherStoresFlag ==
  /\ other.exists /\ flag' = other.mode /\ flag' # flag
  /\ UNCHANGED <<pass, namespace, objs, secrets, password, rights>> /\ UNCHANGED environment

OtherAppliesRight ==
  /\ other.exists
  /\ \E r \in {"role", "binding"} :
       /\ r \in DOMAIN rights => rights[r] # Other
       /\ rights' = Put(rights, r, Other)
  /\ UNCHANGED <<pass, flag, namespace, objs, secrets, password>> /\ UNCHANGED environment

OtherIsDeleted ==
  /\ other.exists /\ other' = [exists |-> FALSE, mode |-> FALSE]
  /\ UNCHANGED <<net, cache, aged, left>> /\ UNCHANGED content

Collect == CollectNamespace \/ CollectObjects \/ CollectRights

Next ==
  \/ Pass \/ Abort \/ Collect \/ Observe \/ Age
  \/ UserEdits \/ UserDeletes \/ UserCreates
  \/ DatabasesStart
  \/ OtherStoresFlag \/ OtherAppliesRight \/ OtherIsDeleted

Spec == Init /\ [][Next]_vars
FairSpec ==
  /\ Spec /\ WF_vars(Pass) /\ WF_vars(Observe)
  /\ WF_vars(CollectNamespace) /\ WF_vars(CollectObjects) /\ WF_vars(CollectRights)

-----------------------------------------------------------------------------
(* Properties *)

\* What a pass may have left to do.
Remainders ==
  Table([s \in AllSpecs |->
    {SubSeq(PassCalls[s], k, Len(PassCalls[s])) : k \in DOMAIN PassCalls[s]}])

\* Every variable keeps its type; a pass works from a Network there was and
\* has only calls left that some pass makes.
TypeOK ==
  /\ {net, cache} \subseteq [exists : BOOLEAN, uid : Nat \ {0}, spec : AllSpecs]
  /\ aged \subseteq 1 .. net.uid
  /\ pass = Idle \/ /\ pass.uid \in 1 .. net.uid /\ pass.spec \in AllSpecs /\ pass.todo # <<>>
                    /\ \/ pass.todo \in Remainders[pass.spec]
                       \/ pass.todo = <<<<"delete", "">>>>
                       \/ Head(pass.todo)[1] \in {"deleteSet", "deleteService"}
  /\ flag \in BOOLEAN /\ namespace \in 0 .. net.uid
  /\ \A x \in DOMAIN objs : objs[x].owner \in 1 .. net.uid /\ objs[x].spec \in AllSpecs
  /\ \A n \in DOMAIN secrets : secrets[n].owner \in 1 .. net.uid
  /\ DOMAIN password \subseteq Databases /\ DOMAIN rights \subseteq {"role", "binding"}

\* The objects there are, by kind.
Present(kind) == {x[2] : x \in {y \in DOMAIN objs : y[1] = kind}}
BuiltFrom(n) == objs[<<"set", n>>].spec

\* The config maps users name instead of the operator's are theirs to create.
UsersMaps(s) ==
  {CeramicConfigs(Specs[s].ceramic, FALSE)[k].init_config_map : k \in 1 .. Ceramics(s)}
    \ {INIT_CONFIG_MAP_NAME}

\* What the pods of set n cannot start without.
NeedsOf(s, n) ==
  LET pod == Template(s, n, FALSE)
  IN  [maps     |-> ConfigMaps(pod) \ UsersMaps(s),
       secrets  |-> {k[1] : k \in SecretKeys(pod)},
       accounts |-> {pod.account} \ {"default"}]
Needs == Table([t \in AllSets |-> NeedsOf(t[1], t[2])])

\* A stateful set is never in the cluster without the config maps, the secrets
\* and the account its pods name, whatever the spec was edited to and wherever
\* passes were cut short: pods whose volumes or variables name a missing object
\* hang in the kubelet.  For the network created first: the collector may take
\* the objects of a dead one from under its successor.
NoDanglingReference ==
  net.exists /\ net.uid = 1 =>
    \A n \in Present("set") :
      /\ Needs[<<BuiltFrom(n), n>>].maps \subseteq Present("map")
      /\ Needs[<<BuiltFrom(n), n>>].secrets \subseteq DOMAIN secrets
      /\ Needs[<<BuiltFrom(n), n>>].accounts \subseteq Present("account")

\* The secret a database was created with is the one its clients are given:
\* passes look before they create, and the random values are drawn once.  For
\* the network created first, as above.
SecretsKept ==
  net.exists /\ net.uid = 1 =>
    \A n \in DOMAIN password :
      Login(n) \in DOMAIN secrets /\ secrets[Login(n)].version = password[n]

LimitsOf ==
  Table([t \in DOMAIN Built |-> Limits(Built[t])])

\* The network is one whose passes can reach their end.
Settled ==
  /\ net.exists /\ Accepted(net.spec)
  /\ ToSet(Specs[net.spec].private_key_secret) \subseteq SourceSecrets

WatchedNow == Watched \cap Sets[net.spec]

Honoured(n) ==
  /\ <<"set", n>> \in DOMAIN objs
  /\ \A m \in objs[<<"set", n>>].mode :
       LimitsOf[<<<<BuiltFrom(n), n>>, m>>] = LimitsOf[<<<<net.spec, n>>, Specs[net.spec].dev_mode>>]

\* Networks that ask for the same mode both get it, in every resource, whatever
\* their history of edits and failed passes: the shared flag is harmless as
\* long as nobody disagrees.
AgreedModeReached ==
  <>[](Settled /\ (other.exists => other.mode = Specs[net.spec].dev_mode)
         => \A n \in WatchedNow : Honoured(n))

\* What is wanted of the network: every object a pass applies, of this Network
\* and built from its spec, and none of a ceramic it does not have.
Wanted ==
  Table([s \in AllSpecs |->
    {c \in ToSet(PassCalls[s]) : c[1] \in {"map", "service", "set", "account"}}])

Deployed ==
  /\ namespace = net.uid
  /\ \A x \in Wanted[net.spec] :
       x \in DOMAIN objs /\ objs[x].owner = net.uid /\ objs[x].spec = net.spec
  /\ Present("set") \cap AllCeramics \subseteq Sets[net.spec]

Keys ==
  UNION {{n} \X (IF n = "ceramic-admin" THEN {"private-key"} ELSE {"username", "password"})
           : n \in DOMAIN secrets}

\* The pods of a simulation in the network, next to those of the network.
SimulationPods ==
  [manager |-> ManagerJob, worker |-> WorkerJob, redis |-> RedisSet(FALSE)]
SimulationServices == [goose |-> ManagerService, redis |-> RedisService]

\* The mode changes limits only, nothing a pod waits for.
Pods ==
  [n \in Present("set") |-> Built[<<<<BuiltFrom(n), n>>, FALSE>>]]
  @@ [bootstrap |-> BootstrapJob]
  @@ (IF Specs[net.spec].namespaced THEN SimulationPods ELSE <<>>)

Services == [n \in Present("service") |-> ServiceOf(n)] @@ SimulationServices

UserMaps == "custom" :> {"ceramic-init.sh"}

Running ==
  Up(Pods, Services, [m \in Present("map") |-> MapsOf(objs[<<"map", m>>].spec)[m]] @@ UserMaps,
     Keys, {"default"} \cup Present("account"))

\* The ports peers are published under are those of their pods.  The go node
\* serves no flights.
Serves(n) ==
  LET k == CHOOSE k \in 1 .. Ceramics(net.spec) : CeramicName(k) = n
      ipfs == CeramicConfigs(Specs[net.spec].ceramic, FALSE)[k].ipfs
  IN  PublishedPorts \ (IF ipfs.kind = "go" THEN {"5102"} ELSE {}) \subseteq Ports(Pods[n])

\* Once the edits, deletions and failures are over, the network is deployed as
\* its spec says and every pod of it comes up, those of its bootstrap and of a
\* simulation too: the services, ports, secrets, keys, maps and files the pods
\* name in one file of the operator are those that another one creates.
EverythingStarts ==
  <>[](Settled
         => /\ Deployed
            /\ Sets[net.spec] \cup (DOMAIN Pods \ Present("set")) \subseteq Running
            /\ \A n \in Sets[net.spec] \cap AllCeramics : Serves(n)
            /\ Specs[net.spec].namespaced /\ ~ other.exists
                 => {rights[r] : r \in DOMAIN rights} = {net.uid} /\ Cardinality(DOMAIN rights) = 2)

\* A network whose time to live is over is deleted, whatever passes fail
\* and however late the controller learns of its spec.
ExpiredRemoved ==
  []<>~ (net.exists /\ net.uid \in aged /\ Specs[net.spec].ttl /\ Accepted(net.spec))

\* Nothing of a deleted network is left behind, also when the passes over it
\* went on after its deletion and created its namespace and objects once more.
NothingLeftBehind ==
  <>[](~ net.exists => /\ namespace = 0 /\ objs = <<>> /\ secrets = <<>>
                       /\ \A r \in DOMAIN rights : rights[r] = Other)
=============================================================================
