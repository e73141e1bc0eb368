----------------------------- MODULE PodConfig -----------------------------
(***************************************************************************)
(* From the spec of a component resource to the configuration its Kea      *)
(* process loads: the controller names an environment variable for every   *)
(* credential and writes a placeholder in its place, the renderer turns    *)
(* the spec into the file of a ConfigMap, and the pod copies the file,     *)
(* puts addresses in the place of its HA peers' host names and the values  *)
(* of the environment in the place of the placeholders, assigns itself an  *)
(* address on the secondary network and starts Kea.                        *)
(*                                                                         *)
(* That the objects of the current spec come to be in the API server is    *)
(* the subject of ComponentReconciler; here they follow the spec at once.  *)
(***************************************************************************)
EXTENDS Naturals, Sequences, FiniteSets

CONSTANTS
  Specs,       \* the specs a user may write
  Secrets,     \* the Secrets they may refer to
  Missing,     \* those that may not be there at first
  MaxReplicas, \* bound on spec.replicas and on the number of HA peers
  Tries,       \* how often the init script asks for an address
  Budget,      \* how often each event of the environment may happen
  None         \* no value

Kinds == {"dhcp4", "dhcp6", "ctrl-agent", "ddns"}
Ordinals == 0 .. (MaxReplicas - 1)
\* What the environment may do, and "any" for all of it together.
Events == {"edit", "lose", "restart", "renumber", "secret", "any"}

\* Peers: the host of the URL is None where the URL is left out, "sts" with an
\* ordinal where it follows the StatefulSet's naming, else a host of the user's.
Hosts == {<<"sts", i>> : i \in Ordinals} \cup {<<"custom", i>> : i \in Ordinals}
PeerType == [name: Nat, host: Hosts \cup {None}, address: 0 .. 255 \cup {None}]
Refs == Secrets \cup {None}
\* Of the variables for the credentials of a database.
Prefixes == {"LEASE_DB", "HOSTS_DB", "HOSTS_DBS"} \X Nat

\* Everything else in a spec: an optional number or switch, which may well be
\* zero, a text and a list.
RestType == [optional: Nat \cup {None}, text: Nat, list: Nat]

\* What the properties need of a spec. lease, hosts and hostsDBs are the
\* credentialsSecretRef of the databases, keys the TSIG keys (ddns) or the
\* clients (ctrl-agent), subnet is the last byte of the first subnet's address.
SpecType == [kind: Kinds, replicas: 0 .. MaxReplicas, ha: BOOLEAN, peers: Seq(PeerType),
             thisServerName: Nat, lease: Refs, hosts: Refs, hostsDBs: Seq(Refs),
             keys: Seq([name: Nat, ref: Refs]), nadInterface: BOOLEAN,
             subnet: 0 .. 255 \cup {None}, rest: RestType]

ASSUME ConstantsAssumption ==
  /\ MaxReplicas \in Nat \ {0} /\ Tries \in Nat \ {0}
  /\ Specs \subseteq SpecType
  /\ \A s \in Specs : /\ s.ha => s.kind \in {"dhcp4", "dhcp6"}
                      /\ Len(s.peers) <= MaxReplicas
                      /\ s.kind \in {"dhcp4", "dhcp6"} => s.keys = <<>>
                      /\ s.kind \notin {"dhcp4", "dhcp6"} =>
                           s.lease = None /\ s.hosts = None /\ s.hostsDBs = <<>>
                      /\ s.kind # "dhcp4" => ~s.nadInterface /\ s.subnet = None
  /\ Budget \in [Events -> Nat]
  /\ None \notin Secrets \cup Nat \cup Prefixes /\ Missing \subseteq Secrets

VARIABLES
  spec,    \* the resource's spec
  past,    \* the specs it has had before, which only the properties look at
  secret,  \* the version of each Secret, 0 if it is not there
  svc,     \* the ClusterIP of each per-pod Service, as a number; 0 if it is not there
  dns,     \* the ClusterIP the name server gives out for it
  pod,     \* the pods
  lives,   \* how many pods each ordinal has had; every one gets a new address
  budget   \* what is left of Budget

vars == <<spec, past, secret, svc, dns, pod, lives, budget>>

\* Once the events are used up altogether it does not matter which were.
Spend(e) ==
  /\ budget[e] > 0 /\ budget["any"] > 0
  /\ budget' = IF budget["any"] = 1 THEN [f \in Events |-> 0]
               ELSE [budget EXCEPT ![e] = @ - 1, !["any"] = @ - 1]

HAEnabled(s) == s.kind = "dhcp4" /\ s.ha

----------------------------------------------------------------------------
\* Credentials: environment variables and placeholders

\* A credential in a configuration is missing, a placeholder, or the value of a
\* key of a Secret in some version.
NoText == <<"none">>
Placeholder(env) == <<"$", env>>
Value(ref, key, ver) == <<"value", ref, key, ver>>
Parts == {"username", "password"}

\* A variable's name, and the Secret and key it is taken from.
dbCredentialEnvVars(prefix, ref) ==
  {[name |-> <<prefix, part>>, ref |-> ref, key |-> part] : part \in IF ref = None THEN {} ELSE Parts}

secretKeyRefEnvVar(i, ref) == [name |-> <<<<"KEY", i>>, "key">>, ref |-> ref, key |-> "key"]

KeyEnvVars(s) ==
  {secretKeyRefEnvVar(i, s.keys[i].ref) : i \in {j \in 1 .. Len(s.keys) : s.keys[j].ref # None}}

EnvVars(s) ==
  dbCredentialEnvVars(<<"LEASE_DB", 0>>, s.lease) \cup dbCredentialEnvVars(<<"HOSTS_DB", 0>>, s.hosts)
    \cup (UNION {dbCredentialEnvVars(<<"HOSTS_DBS", i>>, s.hostsDBs[i]) : i \in 1 .. Len(s.hostsDBs)})
    \cup KeyEnvVars(s)

HostsDBsCredsPacked(s) ==
  LET with == {i \in 1 .. Len(s.hostsDBs) : s.hostsDBs[i] # None}
  IN [n \in 1 .. Cardinality(with) |->
        <<"HOSTS_DBS", CHOOSE i \in with : Cardinality({j \in with : j < i}) = n - 1>>]

\* The prefix of the placeholders of each entry of hosts-databases; the list is
\* as long as the last entry with credentials needs it, padded with blanks.
HostsDBsCreds(s) ==
  LET with == {i \in 1 .. Len(s.hostsDBs) : s.hostsDBs[i] # None}
  IN [i \in {j \in 1 .. Len(s.hostsDBs) : \E k \in with : j <= k} |->
        IF i \in with THEN <<"HOSTS_DBS", i>> ELSE None]

\* Placeholders of TSIG keys and clients are looked up by the entry's name: of
\* entries of one name the last decides for all.
ResolvedSecret(s, name) ==
  LET named == {i \in 1 .. Len(s.keys) : s.keys[i].name = name /\ s.keys[i].ref # None}
  IN IF named = {} THEN NoText
     ELSE Placeholder(<<<<"KEY", CHOOSE i \in named : \A j \in named : j <= i>>, "key">>)

----------------------------------------------------------------------------
\* The renderers. A configuration is the credentials by their place in the file,
\* the server's name and its peers (HA only), and the rest.

\* A setting is in the file, as a set of one value, or not: an optional value if it
\* was given, zero or not; a text or a list unless it is empty.
setIfNotNil(val) == {val} \ {None}
setIfNotEmpty(val) == {val} \ {0}
renderOptionData(val) == {val} \ {0}

\* Subnets, pools, options, reservations, classes, timers and the like.
renderRest(r) ==
  [optional |-> setIfNotNil(r.optional), text |-> setIfNotEmpty(r.text),
   list |-> renderOptionData(r.list)]

\* An empty credential is left out of the entry.
renderDatabaseConfig(prefix, part) ==
  IF prefix = None THEN NoText ELSE Placeholder(<<prefix, part>>)

DatabaseCreds(s) ==
  LET dbs == HostsDBsCreds(s)
      prefix(place) ==
        CASE place[1] = "lease-database" -> IF s.lease = None THEN None ELSE <<"LEASE_DB", 0>>
          [] place[1] = "hosts-database" -> IF s.hosts = None THEN None ELSE <<"HOSTS_DB", 0>>
          [] OTHER -> IF place[2] \in DOMAIN dbs THEN dbs[place[2]] ELSE None
      places == {<<"lease-database", 0>>, <<"hosts-database", 0>>}
                  \cup {<<"hosts-databases", i>> : i \in 1 .. Len(s.hostsDBs)}
  IN [f \in places \X Parts |-> renderDatabaseConfig(prefix(f[1]), f[2])]

\* A peer without a URL gets the host name of the StatefulSet pod of its index.
fillPeerURLs(s) ==
  [i \in 1 .. Len(s.peers) |->
     [name |-> s.peers[i].name,
      at |-> IF s.peers[i].host = None THEN <<"sts", i - 1>> ELSE s.peers[i].host]]

renderHAHooks(s, override) ==
  [name |-> IF override # None THEN override ELSE s.thisServerName, peers |-> fillPeerURLs(s)]

NoHAHooks == [name |-> None, peers |-> <<>>]

RenderDhcp4(s, override) ==
  [creds |-> DatabaseCreds(s), ha |-> IF s.ha THEN renderHAHooks(s, override) ELSE NoHAHooks,
   rest |-> renderRest(s.rest)]

RenderDhcp6(s) ==
  [creds |-> DatabaseCreds(s), ha |-> IF s.ha THEN renderHAHooks(s, None) ELSE NoHAHooks,
   rest |-> renderRest(s.rest)]

RenderDdns(s) ==
  [creds |-> [f \in {<<"tsig-keys", i>> : i \in 1 .. Len(s.keys)} \X {"key"} |->
                ResolvedSecret(s, s.keys[f[1][2]].name)],
   ha |-> NoHAHooks, rest |-> renderRest(s.rest)]

RenderCtrlAgent(s) ==
  [creds |-> [f \in {<<"clients", i>> : i \in 1 .. Len(s.keys)} \X {"key"} |->
                ResolvedSecret(s, s.keys[f[1][2]].name)],
   ha |-> NoHAHooks, rest |-> renderRest(s.rest)]

\* In HA mode each ordinal has a ConfigMap of its own, with the name of the peer
\* of that index; an ordinal beyond the peers is called server<ordinal+1>.
ServerName(s, i) == IF i < Len(s.peers) THEN s.peers[i + 1].name ELSE i + 1

ConfigMap(s, i) ==
  CASE s.kind = "dhcp4" -> RenderDhcp4(s, IF s.ha THEN ServerName(s, i) ELSE None)
    [] s.kind = "dhcp6" -> RenderDhcp6(s)
    [] s.kind = "ddns" -> RenderDdns(s)
    [] s.kind = "ctrl-agent" -> RenderCtrlAgent(s)

----------------------------------------------------------------------------
\* The workloads

\* The host names the init script replaces, with the ordinal of the per-pod
\* Service it asks for; of peers of one host name the last decides.
PeerHostnameMap(s) ==
  LET peers == fillPeerURLs(s)
      named(h) == {i \in 1 .. Len(peers) : peers[i].at = h}
  IN [h \in {peers[i].at : i \in 1 .. Len(peers)} |->
        (CHOOSE i \in named(h) : \A j \in named(h) : j <= i) - 1]

PeerAddresses(s) ==
  IF HAEnabled(s) THEN [i \in 1 .. Len(s.peers) |-> s.peers[i].address] ELSE <<>>

TemplateHashedEarly(s) ==
  [env |-> EnvVars(s), hosts |-> IF HAEnabled(s) THEN PeerHostnameMap(s) ELSE <<>>,
   hash |-> [i \in 1 .. (IF HAEnabled(s) THEN s.replicas ELSE 1) |->
               [ConfigMap(s, i - 1) EXCEPT !.rest = None]],
   nad |-> <<s.nadInterface, s.subnet>>, static |-> PeerAddresses(s), ha |-> HAEnabled(s)]

\* The pod template. The annotation with the hash stands for the configurations
\* of all ordinals.
Template(s) ==
  [env |-> EnvVars(s), hosts |-> IF HAEnabled(s) THEN PeerHostnameMap(s) ELSE <<>>,
   hash |-> [i \in 1 .. (IF HAEnabled(s) THEN s.replicas ELSE 1) |-> ConfigMap(s, i - 1)],
   nad |-> <<s.nadInterface, s.subnet>>, static |-> PeerAddresses(s), ha |-> HAEnabled(s)]

\* Tabulated: the objects of every spec.
Templates == [s \in Specs |-> Template(s)]
ConfigMaps == [s \in Specs |-> [i \in Ordinals |-> ConfigMap(s, i)]]

ShellAddressFromOne(base, n) == IF base + n - 1 > 255 THEN None ELSE base + n - 1

\* What the shell makes of subnet base + n; ip refuses what is no byte.
ShellAddress(base, n) == IF base + n > 255 THEN None ELSE base + n

\* The address the pod gives itself on the NAD interface: the peer's own if any
\* peer has one, else one counted from the subnet's base.
AssignedAddress(t, i) ==
  IF ~t.nad[1] \/ t.nad[2] = None THEN None
  ELSE IF ~t.ha THEN ShellAddress(t.nad[2], 2)
  ELSE IF i < Len(t.static) /\ t.static[i + 1] # None THEN t.static[i + 1]
  ELSE ShellAddress(t.nad[2], i + 2)

\* The addresses the status reports, computed in bytes.
computeNADAddresses(s) ==
  IF s.subnet = None THEN <<>> ELSE [n \in 1 .. s.replicas |-> (s.subnet + n + 1) % 256]

----------------------------------------------------------------------------
\* The scripts of the pods

\* sed over the places of the file that hold the text.
ReplaceHost(f, h, address) ==
  [f EXCEPT !.ha.peers = [n \in DOMAIN @ |-> IF @[n].at = h THEN [@[n] EXCEPT !.at = address]
                                             ELSE @[n]]]

ReplacePlaceholders(f, env) ==
  [f EXCEPT !.creds = [c \in DOMAIN @ |->
     IF \E e \in env : @[c] = Placeholder(e.name)
       THEN (CHOOSE e \in env : @[c] = Placeholder(e.name)).value ELSE @[c]]]

\* A container gets its environment when it is created, from the Secrets then.
Environment(t) ==
  {[name |-> e.name, value |-> Value(e.ref, e.key, secret[e.ref])] : e \in t.env}

\* What the main container of a Deployment edits: its pattern is *.json.
ConfigFileSuffix == "conf"
DeploymentFile(f, env) == IF ConfigFileSuffix = "json" THEN ReplacePlaceholders(f, env) ELSE f

\* Wrapped to expand placeholders, a command of more than one line is joined into
\* arguments of exec, and Kea is not what is executed.
ExecsKea(t) == t.ha \/ t.env = {} \/ ~t.nad[1] \/ t.nad[2] = None

\* As the operator's comments say, Kea does not resolve host names in peer URLs;
\* and it must find itself among the peers.
KeaAccepts(f) ==
  f.ha # NoHAHooks =>
    /\ \A n \in 1 .. Len(f.ha.peers) : f.ha.peers[n].at[1] \in {"pod", "svc"}
    /\ \E n \in 1 .. Len(f.ha.peers) : f.ha.peers[n].name = f.ha.name

----------------------------------------------------------------------------
\* The life of a pod

\* A pod: env, file, todo and tries are of its container; copied is what the file
\* was when the container copied it, which only the properties look at.
NoPod == [phase |-> "none", tpl |-> None, ip |-> 0, env |-> {}, copied |-> None, file |-> None,
          todo |-> {}, tries |-> 0, nad |-> None]

Set(i, p) == pod' = [pod EXCEPT ![i] = p] /\ UNCHANGED <<spec, past, secret, svc, dns>>

StartPod(i) ==
  /\ pod[i] = NoPod /\ i < spec.replicas
  /\ lives' = [lives EXCEPT ![i] = @ + 1]
  /\ Set(i, [NoPod EXCEPT !.phase = "created", !.tpl = Templates[spec], !.ip = lives'[i]])
  /\ UNCHANGED budget

\* ConfigMaps follow the spec; that of an ordinal no longer asked for is left.
MountedConfig(t, i) == IF t.ha /\ i >= spec.replicas THEN t.hash[i + 1] ELSE ConfigMaps[spec][i]

\* The init container, or without HA the main one, is created when the Secrets of
\* its environment are there. It starts by copying the configuration.
CreateContainer(i) ==
  LET p == pod[i]
  IN /\ p.phase = "created"
     /\ \A e \in p.tpl.env : secret[e.ref] # 0
     /\ Set(i, [p EXCEPT !.phase = IF p.tpl.ha THEN "resolve" ELSE "main",
                         !.env = Environment(p.tpl), !.copied = MountedConfig(p.tpl, i),
                         !.file = MountedConfig(p.tpl, i),
                         !.todo = DOMAIN p.tpl.hosts, !.tries = Tries])
     /\ UNCHANGED <<lives, budget>>

\* The script takes the host names in an order of its own; as each stands for
\* itself, the result is the same in any.
Current(p) == CHOOSE h \in p.todo : TRUE
NextHostWithoutReset(p, f) ==
  [p EXCEPT !.todo = @ \ {Current(p)}, !.tries = @ + Tries, !.file = f]

NextHost(p, f) == [p EXCEPT !.todo = @ \ {Current(p)}, !.tries = Tries, !.file = f]

\* The host of the pod itself, known by the StatefulSet's naming.
IsThisServer(h, i) == h = <<"sts", i>>

ResolveThisServer(i) ==
  LET p == pod[i]
  IN /\ p.phase = "resolve" /\ p.todo # {} /\ IsThisServer(Current(p), i)
     /\ Set(i, NextHost(p, ReplaceHost(p.file, Current(p), <<"pod", i, p.ip>>)))
     /\ UNCHANGED <<lives, budget>>

ResolvePeerByPod(i) ==
  LET p == pod[i]
      k == p.tpl.hosts[Current(p)]
  IN /\ p.phase = "resolve" /\ p.todo # {} /\ ~IsThisServer(Current(p), i)
     /\ pod[k].ip # 0
     /\ Set(i, NextHost(p, ReplaceHost(p.file, Current(p), <<"pod", k, pod[k].ip>>)))
     /\ UNCHANGED <<lives, budget>>

ResolvePeer(i) ==
  LET p == pod[i]
      k == p.tpl.hosts[Current(p)]
  IN /\ p.phase = "resolve" /\ p.todo # {} /\ ~IsThisServer(Current(p), i)
     /\ dns[k] # 0
     /\ Set(i, NextHost(p, ReplaceHost(p.file, Current(p), <<"svc", k, dns[k]>>)))
     /\ UNCHANGED <<lives, budget>>

\* No answer: try again, and after the last try keep the host name.
ResolveFails(i) ==
  LET p == pod[i]
      k == p.tpl.hosts[Current(p)]
  IN /\ p.phase = "resolve" /\ p.todo # {} /\ ~IsThisServer(Current(p), i)
     /\ dns[k] = 0
     /\ Set(i, IF p.tries > 1 THEN [p EXCEPT !.tries = @ - 1] ELSE NextHost(p, p.file))
     /\ UNCHANGED <<lives, budget>>

ExpandSecrets(i) ==
  LET p == pod[i]
  IN /\ p.phase = "resolve" /\ p.todo = {}
     /\ Set(i, [p EXCEPT !.phase = "main", !.tries = 0,
                         !.file = ReplacePlaceholders(p.file, p.env)])
     /\ UNCHANGED <<lives, budget>>

\* The main container: without HA it expands placeholders (or tries to) itself.
StartKea(i) ==
  LET p == pod[i]
      f == IF p.tpl.ha THEN p.file ELSE DeploymentFile(p.file, p.env)
  IN /\ p.phase = "main"
     /\ Set(i, [p EXCEPT !.file = f, !.tries = 0, !.nad = AssignedAddress(p.tpl, i),
                         !.phase = IF ExecsKea(p.tpl) /\ KeaAccepts(f) THEN "running" ELSE "exited"])
     /\ UNCHANGED <<lives, budget>>

\* A container that exits is started again in its pod: the main container alone,
\* so that an HA pod does not run its init script again.
Again(i) ==
  LET p == pod[i]
  IN Set(i, IF p.tpl.ha THEN [p EXCEPT !.phase = "main"]
            ELSE [NoPod EXCEPT !.phase = "created", !.tpl = p.tpl, !.ip = p.ip])

RestartExited(i) == pod[i].phase = "exited" /\ Again(i) /\ UNCHANGED <<lives, budget>>

KeaDies(i) == pod[i].phase = "running" /\ Spend("restart") /\ Again(i) /\ UNCHANGED lives

\* Rolling update and scale down.
StopPod(i) ==
  /\ pod[i] # NoPod /\ (pod[i].tpl # Templates[spec] \/ i >= spec.replicas)
  /\ Set(i, NoPod) /\ UNCHANGED <<lives, budget>>

LosePod(i) ==
  /\ pod[i] # NoPod /\ Spend("lose")
  /\ Set(i, NoPod) /\ UNCHANGED lives

RunPod(i) ==
  \/ StartPod(i) \/ CreateContainer(i) \/ ResolveThisServer(i) \/ ResolvePeer(i)
  \/ ResolveFails(i) \/ ExpandSecrets(i) \/ StartKea(i) \/ RestartExited(i)

----------------------------------------------------------------------------
\* Around the pods

\* The name server learns of a Service, some time after it was made.
PublishDNS(i) ==
  /\ dns[i] # svc[i]
  /\ dns' = [dns EXCEPT ![i] = svc[i]]
  /\ UNCHANGED <<spec, past, secret, svc, pod, lives, budget>>

\* Per-pod Services are there before the pods that need them, and stay; one that
\* is deleted by hand and made again has another address.
RenumberService(i) ==
  /\ svc[i] # 0 /\ Spend("renumber")
  /\ svc' = [svc EXCEPT ![i] = @ + 1]
  /\ UNCHANGED <<spec, past, secret, dns, pod, lives>>

ServicesOf(s, old) == [i \in Ordinals |-> IF old[i] = 0 /\ HAEnabled(s) /\ i < s.replicas THEN 1 ELSE old[i]]

EditSpec ==
  /\ Spend("edit")
  /\ \E s \in Specs \ {spec} :
       /\ s.kind = spec.kind /\ HAEnabled(s) = HAEnabled(spec)
       /\ spec' = s /\ past' = past \cup {spec} /\ svc' = ServicesOf(s, svc)
  /\ UNCHANGED <<secret, dns, pod, lives>>

\* A Secret is created, or rotated. Nobody watches it.
WriteSecret(r) ==
  /\ Spend("secret")
  /\ secret' = [secret EXCEPT ![r] = @ + 1]
  /\ UNCHANGED <<spec, past, svc, dns, pod, lives>>

Init ==
  /\ spec \in Specs /\ past = {}
  /\ secret \in {[r \in Secrets |-> IF r \in gone THEN 0 ELSE 1] : gone \in SUBSET Missing}
  /\ svc = ServicesOf(spec, [i \in Ordinals |-> 0])
  /\ dns = [i \in Ordinals |-> 0]
  /\ pod = [i \in Ordinals |-> NoPod] /\ lives = [i \in Ordinals |-> 0]
  /\ budget = Budget

Next ==
  \/ \E i \in Ordinals : RunPod(i) \/ StopPod(i) \/ KeaDies(i) \/ LosePod(i)
  \/ \E i \in Ordinals : PublishDNS(i) \/ RenumberService(i)
  \/ EditSpec \/ \E r \in Secrets : WriteSecret(r)

Spec == Init /\ [][Next]_vars

\* The kubelet and the workload controllers go on, and the name server learns.
FairSpec ==
  /\ Spec
  /\ \A i \in Ordinals : WF_vars(RunPod(i))
  /\ WF_vars(\E i \in Ordinals : StopPod(i)) /\ WF_vars(\E i \in Ordinals : PublishDNS(i))

----------------------------------------------------------------------------
\* Properties

PodPhases == {"none", "created", "resolve", "main", "running", "exited"}

\* Every variable has its type.
TypeOK ==
  /\ spec \in Specs /\ past \subseteq Specs /\ secret \in [Secrets -> Nat] /\ lives \in [Ordinals -> Nat]
  /\ svc \in [Ordinals -> Nat] /\ dns \in [Ordinals -> Nat]
  /\ \A i \in Ordinals : dns[i] <= svc[i]
  /\ DOMAIN pod = Ordinals
  /\ \A i \in Ordinals : pod[i].phase \in PodPhases /\ pod[i].ip \in 0 .. lives[i]
                         /\ pod[i].tries \in 0 .. Tries
  /\ budget \in [Events -> Nat]

IsRunning(i) == pod[i].phase = "running"

\* Every peer in the pod's configuration has the host name of the StatefulSet pod
\* of its index, which the pod's script takes for that pod's, and at most the
\* entry of the pod's ordinal has the pod's name.
Conventional(i) ==
  LET hosts == pod[i].tpl.hosts
      ha == pod[i].copied.ha
  IN \A n \in 1 .. Len(ha.peers) :
       /\ ha.peers[n].at = <<"sts", n - 1>>
       /\ <<"sts", n - 1>> \in DOMAIN hosts => hosts[<<"sts", n - 1>>] = n - 1
       /\ ha.peers[n].name = ha.name => n = i + 1

\* A running HA pod knows itself under the name of its ordinal and at the address
\* it has now, and every other peer at an address that peer's Service has had:
\* never at a pod's, which would not outlive the pod. This holds of a pod that has mounted a newer configuration than its
\* template was made for, too.
PeersAreReachable ==
  \A i \in Ordinals : (IsRunning(i) /\ pod[i].tpl.ha /\ Conventional(i)) =>
    LET peers == pod[i].file.ha.peers
    IN /\ i < Len(peers) /\ peers[i + 1].name = pod[i].file.ha.name
       /\ peers[i + 1].at = <<"pod", i, pod[i].ip>>
       /\ \A n \in (1 .. Len(peers)) \ {i + 1} : \E v \in 1 .. svc[n - 1] : peers[n].at = <<"svc", n - 1, v>>

\* The reference of the entry at a place of the configuration.
RefAt(s, place) ==
  CASE place[1] = "lease-database" -> s.lease
    [] place[1] = "hosts-database" -> s.hosts
    [] place[1] = "hosts-databases" -> s.hostsDBs[place[2]]
    [] OTHER -> s.keys[place[2]].ref

\* The pod runs with exactly the credentials its spec refers to, each in its own
\* place, in a version the Secret has had.
HasCredentials(i) ==
  \A f \in DOMAIN pod[i].file.creds :
    LET ref == RefAt(spec, f[1])
    IN IF ref = None THEN pod[i].file.creds[f] = NoText
       ELSE \E v \in 1 .. secret[ref] : pod[i].file.creds[f] = Value(ref, f[2], v)

IsCurrent(i) == IsRunning(i) /\ pod[i].tpl = Templates[spec]

\* The pod has copied the configuration that its template is annotated with. It may
\* have copied that of an edit which was undone since.
HasOwnConfig(i) == pod[i].copied = pod[i].tpl.hash[IF pod[i].tpl.ha THEN i + 1 ELSE 1]

\* An HA pod of the current template and its configuration has the credentials of
\* the spec.
HACredentialsExpanded ==
  \A i \in Ordinals : (IsCurrent(i) /\ HasOwnConfig(i) /\ pod[i].tpl.ha) => HasCredentials(i)

\* So has every pod of the current template: placeholders are expanded before Kea
\* reads the configuration.
CredentialsExpanded == \A i \in Ordinals : IsCurrent(i) => HasCredentials(i)

\* The address the status reports for an HA pod is the one the pod has given
\* itself, where the peers have none of their own and the subnet has room.
ReportedAddressIsAssigned ==
  \A i \in Ordinals : (/\ IsCurrent(i) /\ pod[i].tpl.ha /\ spec.nadInterface /\ spec.subnet # None
                       /\ \A n \in 1 .. Len(spec.peers) : spec.peers[n].address = None
                       /\ spec.subnet + spec.replicas + 1 <= 255)
                      => pod[i].nad = computeNADAddresses(spec)[i + 1]

\* The pod gave up on a host name, which leaves Kea a URL it cannot use.
GaveUp(i) ==
  pod[i].phase \in {"main", "exited"} /\ \E n \in 1 .. Len(pod[i].file.ha.peers) : pod[i].file.ha.peers[n].at[1] \in {"sts", "custom"}

\* Specs whose pods can come up: their Secrets exist, HA with a peer for every
\* pod and a pod for every peer, and no command that is not executed.
Startable(s) ==
  /\ \A e \in Templates[s].env : secret[e.ref] # 0
  /\ s.ha => HAEnabled(s) /\ Len(s.peers) = s.replicas
  /\ ExecsKea(Templates[s])

\* The settings of the file are those the user has written, explicit zeros too.
HasSettings(i) ==
  LET file == pod[i].file.rest
  IN /\ file.optional = (IF spec.rest.optional = None THEN {} ELSE {spec.rest.optional})
     /\ file.text = (IF spec.rest.text = 0 THEN {} ELSE {spec.rest.text})
     /\ file.list = (IF spec.rest.list = 0 THEN {} ELSE {spec.rest.list})

\* When users and failures come to rest, and the user has not gone back to an
\* earlier spec, every pod of a startable spec runs the configuration of that
\* spec, with no older one left, unless its script gave up on a host name. Both
\* exceptions are real: a pod that starts between an edit and its undoing has the
\* current template and keeps the configuration in between, and a script that
\* gave up is not run again.
PodsFollowSpec ==
  <>[](Startable(spec) /\ spec \notin past => \A i \in Ordinals :
         IF i >= spec.replicas THEN pod[i] = NoPod
         ELSE \/ GaveUp(i)
              \/ IsRunning(i) /\ HasSettings(i)
                 /\ pod[i].file.ha.name = ConfigMaps[spec][i].ha.name
                 /\ pod[i].tpl.env = Templates[spec].env)
============================================================================
