--------------------------- MODULE NetworkObjects ---------------------------
(***************************************************************************)
(* The Kubernetes objects the operator builds for a network and for a      *)
(* simulation in it: operator/src/network/{cas,ceramic,ipfs}.rs,           *)
(* operator/src/monitoring and operator/src/simulation/{manager,worker,    *)
(* redis}.rs.  The objects refer to one another by names and ports that    *)
(* are spread over these files: what is kept of an object is what it       *)
(* refers to, what refers to it, and which resource limits it got.         *)
(*                                                                         *)
(* A container is its environment, the files it mounts, the ports it       *)
(* listens on and its limits; a pod is its containers, volumes and claims; *)
(* a service is the pods it selects and its ports; a config map is the     *)
(* set of its keys.  Images, probes, labels nobody selects by, datadog,    *)
(* node affinity and storage sizes are left out.                           *)
(*                                                                         *)
(* An optional section of a spec is a sequence of at most one element, and *)
(* an absent list of ceramics the empty one (the code treats them alike).  *)
(***************************************************************************)
EXTENDS Naturals, Sequences, FiniteSets, TLC

(* Where an environment variable takes its value from. *)
At(service, port) == [from |-> "service", of |-> service, at |-> port]
Key(secret, key)  == [from |-> "secret", of |-> secret, at |-> key]
Text              == [from |-> "text", of |-> "", at |-> ""]

(* Volumes. *)
Claim(name)  == [kind |-> "claim", name |-> name]
Files(map)   == [kind |-> "configMap", name |-> map]
EmptyDir     == [kind |-> "emptyDir", name |-> ""]

NoEnv == <<>>

\* The function of one pair, and f where f says something and g elsewhere.
One(x, y) == [z \in {x} |-> y]
Over(f, g) == [x \in DOMAIN f \cup DOMAIN g |-> IF x \in DOMAIN f THEN f[x] ELSE g[x]]

Service(app, ports) == [app |-> app, ports |-> ports]

\* A mount is a volume and the file the container reads there at its start.
Mount(volume, file) == <<volume, file>>
NoFile == ""

Container(env, mounts, ports, limits) ==
  [env |-> env, mounts |-> mounts, ports |-> ports, limits |-> limits]

\* The replicas of a set are alike: one pod stands for them.
Pod(app, init, containers, volumes, claims) ==
  [app |-> app, account |-> "default", init |-> init, containers |-> containers,
   volumes |-> volumes, claims |-> claims]

\* Mutant of Override: an override of a variable that is already there is lost.
OverrideNew(env, overrides) == Over(env, overrides)

\* override_and_sort_env_vars: the override replaces the variable of its name.
Override(env, overrides) == Over(overrides, env)

-----------------------------------------------------------------------------
(* Resource limits: "default" what the code prescribes, "none" those of the *)
(* dev mode, without cpu and memory, anything else as the spec gives them.  *)

DevDefault == "none"
Unset == "unset"

\* A section that is given replaces cpu and memory even when it leaves them out.
LimitsFrom(given, default) == IF given = Unset THEN default ELSE given

\* network_default() of every configuration: it loads the flag.
NetworkDefault(dev_mode) == IF dev_mode THEN DevDefault ELSE "default"

-----------------------------------------------------------------------------
(* IPFS: the rust or the go node, in the pods of ceramics and of the CAS.   *)

DefaultIpfs == [kind |-> "rust", limits |-> "default", commands |-> FALSE, migration |-> FALSE]

\* A missing section is Default::default(), which does not look at the flag.
IpfsConfig(section, dev_mode) ==
  IF section = <<>> THEN DefaultIpfs
  ELSE [kind |-> section[1].kind, commands |-> section[1].commands, migration |-> section[1].migration,
        limits |-> LimitsFrom(section[1].limits, NetworkDefault(dev_mode))]

IpfsInit(suffix) == "ipfs-container-init-" \o suffix

IpfsMaps(ipfs, suffix) ==
  IF ipfs.kind = "rust" THEN <<>>
  ELSE One(IpfsInit(suffix),
           {"001-config.sh"} \cup (IF ipfs.commands THEN {"002-config.sh"} ELSE {}))

RustIpfsContainer(ipfs, debug) ==
  Container(NoEnv, {Mount("ipfs-data", NoFile)},
            {"4101", "5101", "5102", "9465"} \cup (IF debug THEN {"6669"} ELSE {}),
            ipfs.limits)

GoIpfsContainer(ipfs, suffix) ==
  Container(NoEnv,
            {Mount("ipfs-data", NoFile), Mount(IpfsInit(suffix), "001-config.sh")}
              \cup (IF ipfs.commands THEN {Mount(IpfsInit(suffix), "002-config.sh")} ELSE {}),
            {"4101", "5101", "9465"}, ipfs.limits)

IpfsContainer(ipfs, suffix, debug) ==
  IF ipfs.kind = "rust" THEN RustIpfsContainer(ipfs, debug) ELSE GoIpfsContainer(ipfs, suffix)

IpfsInitContainer(ipfs, debug) ==
  IF ipfs.kind = "rust" /\ ipfs.migration THEN <<RustIpfsContainer(ipfs, debug)>> ELSE <<>>

IpfsVolumes(ipfs, suffix) ==
  IF ipfs.kind = "rust" THEN <<>> ELSE One(IpfsInit(suffix), Files(IpfsInit(suffix)))

-----------------------------------------------------------------------------
(* The network's configuration *)

NetworkConfig(spec) ==
  [debug_mode  |-> spec.debug_mode,
   eth_rpc_url |-> IF spec.eth_rpc_url = <<>> THEN At("ganache", "8545") ELSE spec.eth_rpc_url[1],
   cas_api_url |-> IF spec.cas_api_url = <<>> THEN At("cas", "8081") ELSE spec.cas_api_url[1]]

-----------------------------------------------------------------------------
(* The anchor service and what it needs *)

CasParts == {"cas", "ganache", "postgres", "localstack"}

DefaultCas == [ipfs |-> DefaultIpfs, limits |-> [p \in CasParts |-> "default"], env |-> NoEnv]

\* Only a section that is given falls back on network_default().
CasConfig(section, dev_mode) ==
  IF section = <<>> THEN DefaultCas
  ELSE [ipfs   |-> IpfsConfig(section[1].ipfs, dev_mode),
        limits |-> [p \in CasParts |-> LimitsFrom(section[1].limits[p], NetworkDefault(dev_mode))],
        env    |-> section[1].env]

CasMaps(cas) == IpfsMaps(cas.ipfs, "cas")

\* The port is the client's default; the variable names the host only.
PgEnv == [DB_HOST |-> At("cas-postgres", "5432"),
          DB_USERNAME |-> Key("postgres-auth", "username"),
          DB_PASSWORD |-> Key("postgres-auth", "password")]

AwsEnv == [SQS_QUEUE_URL |-> At("localstack", "4566")]

EthEnv == [ETH_RPC_URL |-> At("ganache", "8545")]

CasNodeEnv ==
  Over(PgEnv, Over(AwsEnv, Over(EthEnv, [S3_ENDPOINT |-> At("localstack", "4566")])))

CasApiContainer(cas) ==
  Container(Override(CasNodeEnv, cas.env), {}, {"8081"}, cas.limits["cas"])

CasWorkerContainer(cas) ==
  Container(Over(CasNodeEnv, [IPFS_API_URL |-> At("cas-ipfs", "5101")]), {}, {}, cas.limits["cas"])

CasSchedulerContainer(cas) ==
  Container(Over(PgEnv, Over(AwsEnv, [AWS_ENDPOINT |-> At("localstack", "4566")])), {}, {},
            cas.limits["cas"])

\* launch-contract, then cas-migrations.
CasInitContainers == <<Container(EthEnv, {}, {}, ""), Container(PgEnv, {}, {}, "")>>

CasSet(cas) ==
  Pod("cas", CasInitContainers,
      {CasApiContainer(cas), CasWorkerContainer(cas), CasSchedulerContainer(cas)},
      One("cas-data", Claim("cas-data")), {"cas-data"})

CasIpfsSet(cas, net_config) ==
  Pod("cas-ipfs", IpfsInitContainer(cas.ipfs, net_config.debug_mode),
      {IpfsContainer(cas.ipfs, "cas", net_config.debug_mode)},
      Over(One("ipfs-data", Claim("ipfs-data")), IpfsVolumes(cas.ipfs, "cas")), {"ipfs-data"})

GanacheSet(cas) ==
  Pod("ganache", <<>>,
      {Container(NoEnv, {Mount("ganache-data", NoFile)}, {"8545"}, cas.limits["ganache"])},
      One("ganache-data", Claim("ganache-data")), {"ganache-data"})

PostgresLogin(secret) ==
  [POSTGRES_PASSWORD |-> Key(secret, "password"), POSTGRES_USER |-> Key(secret, "username")]

CasPostgresSet(cas) ==
  Pod("cas-postgres", <<>>,
      {Container(PostgresLogin("postgres-auth"), {Mount("postgres-data", NoFile)}, {"5432"},
                 cas.limits["postgres"])},
      One("postgres-data", Claim("postgres-data")), {"postgres-data"})

LocalstackSet(cas) ==
  Pod("localstack", <<>>,
      {Container(NoEnv, {Mount("localstack-data", NoFile)}, {"4566"}, cas.limits["localstack"])},
      One("localstack-data", Claim("localstack-data")), {"localstack-data"})

CasService       == Service("cas", {"8081"})
CasIpfsService   == Service("cas-ipfs", {"5101"})
GanacheService   == Service("ganache", {"8545"})
PostgresService  == Service("cas-postgres", {"5432"})
LocalstackService == Service("localstack", {"4566"})

-----------------------------------------------------------------------------
(* Ceramic *)

INIT_CONFIG_MAP_NAME == "ceramic-init"

\* No section of the spec at all.
CeramicDefault ==
  [ipfs |-> <<>>, init_config_map |-> INIT_CONFIG_MAP_NAME, env |-> NoEnv,
   resource_limits |-> Unset, postgres_resource_limits |-> Unset]

CeramicConfig(section, dev_mode) ==
  [ipfs |-> IpfsConfig(section.ipfs, dev_mode),
   init_config_map |-> section.init_config_map, env |-> section.env,
   resource_limits |-> LimitsFrom(section.resource_limits, NetworkDefault(dev_mode)),
   postgres_resource_limits |-> LimitsFrom(section.postgres_resource_limits, NetworkDefault(dev_mode))]

CeramicConfigs(sections, dev_mode) ==
  IF sections = <<>> THEN <<CeramicConfig(CeramicDefault, dev_mode)>>
  ELSE [k \in 1 .. Len(sections) |-> CeramicConfig(sections[k], dev_mode)]

\* CeramicInfo: the k-th ceramic carries the suffix k - 1.
Suffix(k) == ToString(k - 1)
CeramicName(k) == "ceramic-" \o Suffix(k)

CeramicMaps(config, suffix) ==
  Over(IF config.init_config_map = INIT_CONFIG_MAP_NAME
         THEN One(INIT_CONFIG_MAP_NAME, {"ceramic-init.sh", "daemon-config.json"}) ELSE <<>>,
       IpfsMaps(config.ipfs, suffix))

CeramicService == Service("ceramic", {"7007", "5101", "5102", "4101"})

CeramicEnv(config, net_config) ==
  Override(Over([ETH_RPC_URL |-> net_config.eth_rpc_url, CAS_API_URL |-> net_config.cas_api_url,
                 CERAMIC_IPFS_HOST |-> At("localhost", "5101")],
                PostgresLogin("ceramic-postgres-auth")),
           config.env)

CeramicInitEnv(config, net_config) ==
  Over(CeramicEnv(config, net_config),
       [CERAMIC_ADMIN_PRIVATE_KEY |-> Key("ceramic-admin", "private-key")])

\* What the built-in daemon-config.json adds: the database is in the pod.
DaemonConfig(config) ==
  IF config.init_config_map = INIT_CONFIG_MAP_NAME
    THEN [indexing |-> At("localhost", "5432")] ELSE NoEnv

CeramicVolumes(config, suffix) ==
  Over([n \in {"ceramic-data", "ipfs-data", "postgres-data"} |-> Claim(n)],
       Over(One("config-volume", EmptyDir),
            Over(One("ceramic-init", Files(config.init_config_map)),
                 IpfsVolumes(config.ipfs, suffix))))

CeramicContainer(config, net_config) ==
  Container(Over(CeramicEnv(config, net_config), DaemonConfig(config)),
            {Mount("config-volume", NoFile), Mount("ceramic-data", NoFile)},
            {"7007", "9464"} \cup (IF net_config.debug_mode THEN {"9229"} ELSE {}),
            config.resource_limits)

CeramicPostgresContainer(config) ==
  Container(PostgresLogin("ceramic-postgres-auth"), {Mount("postgres-data", NoFile)}, {"5432"},
            config.postgres_resource_limits)

CeramicInitContainer(config, net_config) ==
  Container(CeramicInitEnv(config, net_config),
            {Mount("config-volume", NoFile), Mount("ceramic-init", "ceramic-init.sh")}, {},
            config.resource_limits)

CeramicSet(config, net_config, suffix) ==
  Pod("ceramic",
      <<CeramicInitContainer(config, net_config)>> \o IpfsInitContainer(config.ipfs, net_config.debug_mode),
      {CeramicContainer(config, net_config), CeramicPostgresContainer(config),
       IpfsContainer(config.ipfs, suffix, net_config.debug_mode)},
      CeramicVolumes(config, suffix), {"ceramic-data", "ipfs-data", "postgres-data"})

\* The ports of the addresses update_peer_status publishes for a ceramic:
\* ceramic_addr, ipfs_rpc_addr, flight_addr.
PublishedPorts == {"7007", "5101", "5102"}

-----------------------------------------------------------------------------
(* Monitoring *)

JaegerService == Service("jaeger", {"4317"})

JaegerSet(dev_mode) ==
  Pod("jaeger", <<>>, {Container(NoEnv, {}, {"4317", "16686"}, NetworkDefault(dev_mode))},
      <<>>, {})

PrometheusMaps == One("prom-config", {"prom-config.yaml"})

\* What prom-config.yaml scrapes, besides itself.
PrometheusTargets == [otel_9464 |-> At("otel", "9464"), otel_8888 |-> At("otel", "8888")]

PrometheusSet(dev_mode) ==
  Pod("prometheus", <<>>,
      {Container(PrometheusTargets, {Mount("config", "prom-config.yaml")}, {"9090"},
                 NetworkDefault(dev_mode))},
      One("config", Files("prom-config")), {})

OTEL_ACCOUNT == "monitoring-service-account"

OtelMaps == One("otel-config", {"otel-config.yaml"})

\* The exporter of otel-config.yaml that is a client; its prometheus receiver
\* lists the pods of the cluster with the rights of the account.
OtelExporters == [otlp_jaeger |-> At("jaeger", "4317")]

OtelService == Service("otel", {"4317", "9464", "9465", "8888"})

OtelSet(dev_mode) ==
  [Pod("otel", <<>>,
       {Container(OtelExporters, {Mount("config", "otel-config.yaml"), Mount("otel-data", NoFile)},
                  {"4317", "9464", "9465", "8888"}, NetworkDefault(dev_mode))},
       Over(One("config", Files("otel-config")), One("otel-data", Claim("otel-data"))), {"otel-data"})
   EXCEPT !.account = OTEL_ACCOUNT]

-----------------------------------------------------------------------------
(* Jobs: the bootstrap job and a simulation *)

PEERS_CONFIG_MAP_NAME == "keramik-peers"
PeersMap == One(PEERS_CONFIG_MAP_NAME, {"peers.json"})

\* Every job reads the peers file.
JobPod(app, env, ports) ==
  Pod(app, <<>>, {Container(env, {Mount("keramik-peers", "peers.json")}, ports, "")},
      One("keramik-peers", Files(PEERS_CONFIG_MAP_NAME)), {})

\* Its RUNNER_OTLP_ENDPOINT is best effort: otel may not be deployed.
BootstrapJob == JobPod("bootstrap", NoEnv, {})

AdminKey == [CERAMIC_ADMIN_PRIVATE_KEY |-> Key("ceramic-admin", "private-key")]

ManagerService == Service("goose", {"5115"})

ManagerJob ==
  JobPod("goose", Over(AdminKey, [RUNNER_OTLP_ENDPOINT |-> At("otel", "4317")]), {"5115"})

\* Its pods carry the label the manager's service selects by, but it calls the
\* pod of the manager by its host name; that address is in the runner.
WorkerJob ==
  JobPod("goose",
         Over(AdminKey, [RUNNER_OTLP_ENDPOINT |-> At("otel", "4317"),
                         REDIS_ENDPOINT |-> At("redis", "6379"),
                         manager |-> At("goose", "5115")]), {})

RedisService == Service("redis", {"6379"})

RedisSet(dev_mode) ==
  Pod("redis", <<>>, {Container(NoEnv, {}, {"6379"}, NetworkDefault(dev_mode))}, <<>>, {})

-----------------------------------------------------------------------------
(* What a pod needs of its cluster *)

AllContainers(pod) == pod.containers \cup {pod.init[k] : k \in DOMAIN pod.init}
Sources(pod) == UNION {{c.env[v] : v \in DOMAIN c.env} : c \in AllContainers(pod)}
Ports(pod) == UNION {c.ports : c \in pod.containers}
Limits(pod) == {c.limits : c \in AllContainers(pod)}

SecretKeys(pod) == {<<e.of, e.at>> : e \in {x \in Sources(pod) : x.from = "secret"}}
Endpoints(pod) == {<<e.of, e.at>> : e \in {x \in Sources(pod) : x.from = "service"}}
ConfigMaps(pod) == {pod.volumes[v].name : v \in {x \in DOMAIN pod.volumes : pod.volumes[x].kind = "configMap"}}

\* Its mounts have their volumes, its claims their templates.
WellFormed(pod) ==
  /\ \A c \in AllContainers(pod) : \A m \in c.mounts : m[1] \in DOMAIN pod.volumes
  /\ \A v \in DOMAIN pod.volumes : pod.volumes[v].kind = "claim" => pod.volumes[v].name \in pod.claims

\* The files its containers read at their start are keys of the mounted maps.
FilesPresent(pod, maps) ==
  \A c \in AllContainers(pod) : \A m \in c.mounts :
    pod.volumes[m[1]].kind = "configMap" /\ m[2] # NoFile => m[2] \in maps[pod.volumes[m[1]].name]

\* What the kubelet waits for before it starts the containers.
Provided(pod, maps, keys, accounts) ==
  /\ WellFormed(pod)
  /\ ConfigMaps(pod) \subseteq DOMAIN maps
  /\ FilesPresent(pod, maps)
  /\ SecretKeys(pod) \subseteq keys
  /\ pod.account \in accounts

\* Does some pod of `up` answer at the endpoint?  localhost is the pod itself.
Answered(endpoint, pod, pods, services, up) ==
  IF endpoint[1] = "localhost" THEN endpoint[2] \in Ports(pod)
  ELSE /\ endpoint[1] \in DOMAIN services
       /\ endpoint[2] \in services[endpoint[1]].ports
       /\ \E n \in up : /\ pods[n].app = services[endpoint[1]].app
                      /\ endpoint[2] \in Ports(pods[n])

\* The pods that come up, in rounds: a pod is up once everything it calls is.
Up(pods, services, maps, keys, accounts) ==
  LET provided == {n \in DOMAIN pods : Provided(pods[n], maps, keys, accounts)}
      N == Cardinality(provided)
      up[k \in 0 .. N] ==
        IF k = 0 THEN {}
        ELSE LET before == up[k - 1]
             IN  IF before = provided THEN before
                 ELSE {n \in provided : \A e \in Endpoints(pods[n]) :
                                          Answered(e, pods[n], pods, services, before)}
  IN  up[N]
=============================================================================
