-------------------------- MODULE PodConfigProofs --------------------------
(***************************************************************************)
(* Theorems about PodConfig, for any set of specs, any number of replicas, *)
(* tries, edits and failures. Those about the configuration Kea runs with  *)
(* are of HA pods, whose init script writes it.                            *)
(***************************************************************************)
EXTENDS PodConfig, TLAPS

----------------------------------------------------------------------------
\* What the renderers and builders make of a spec

\* A function on 1 .. k is a sequence of length k.
LEMMA FcnLen ==
  ASSUME NEW k \in Nat, NEW f, DOMAIN f = 1 .. k, f = [n \in 1 .. k |-> f[n]]
  PROVE  Len(f) = k
<1> DEFINE S == {f[n] : n \in 1 .. k}
<1>1. f \in Seq(S)
  OBVIOUS
<1> QED
  BY <1>1

\* The peers of a configuration are those of the spec, each with a host name.
LEMMA PeersOf ==
  ASSUME NEW s \in Specs
  PROVE  LET ps == fillPeerURLs(s)
         IN /\ Len(s.peers) \in 0 .. MaxReplicas
            /\ DOMAIN ps = 1 .. Len(s.peers) /\ Len(ps) = Len(s.peers)
            /\ \A n \in 1 .. Len(s.peers) :
                 /\ ps[n] = [name |-> s.peers[n].name, at |-> ps[n].at]
                 /\ ps[n].at \in Hosts /\ s.peers[n].name \in Nat
<1> DEFINE ps == fillPeerURLs(s)
<1>1. s.peers \in Seq(PeerType) /\ Len(s.peers) <= MaxReplicas /\ MaxReplicas \in Nat
  BY ConstantsAssumption DEF SpecType
<1>2. /\ Len(s.peers) \in 0 .. MaxReplicas
      /\ DOMAIN ps = 1 .. Len(s.peers) /\ ps = [n \in 1 .. Len(s.peers) |-> ps[n]]
  BY <1>1 DEF fillPeerURLs
<1>3. Len(ps) = Len(s.peers)
  <2> HIDE DEF ps
  <2> QED
    BY <1>2, FcnLen
<1>4. ASSUME NEW n \in 1 .. Len(s.peers)
      PROVE  /\ ps[n] = [name |-> s.peers[n].name, at |-> ps[n].at]
             /\ ps[n].at \in Hosts /\ s.peers[n].name \in Nat
  <2>1. s.peers[n] \in PeerType
    BY <1>1
  <2>2. s.peers[n].name \in Nat /\ (s.peers[n].host = None \/ s.peers[n].host \in Hosts)
    BY <2>1 DEF PeerType
  <2>3. n - 1 \in Ordinals
    BY <1>1 DEF Ordinals
  <2>4. <<"sts", n - 1>> \in Hosts
    BY <2>3 DEF Hosts
  <2>5. ps[n] = [name |-> s.peers[n].name,
                 at |-> IF s.peers[n].host = None THEN <<"sts", n - 1>> ELSE s.peers[n].host]
    BY DEF fillPeerURLs
  <2> HIDE DEF ps
  <2> QED
    BY <2>2, <2>4, <2>5
<1> QED
  BY <1>2, <1>3, <1>4

\* The configuration of an ordinal of an HA spec.
LEMMA ConfigOf ==
  ASSUME NEW s \in Specs, HAEnabled(s), NEW i \in Ordinals
  PROVE  /\ ConfigMap(s, i) = [creds |-> DatabaseCreds(s),
                               ha |-> [name |-> ServerName(s, i), peers |-> fillPeerURLs(s)],
                               rest |-> renderRest(s.rest)]
         /\ ServerName(s, i) \in Nat /\ ServerName(s, i) # None
<1>1. s.kind = "dhcp4" /\ s.ha
  BY DEF HAEnabled
<1>2. i \in Nat /\ None \notin Nat
  BY ConstantsAssumption DEF Ordinals
<1>3. ServerName(s, i) \in Nat
  <2>0. Len(s.peers) \in 0 .. MaxReplicas /\ \A n \in 1 .. Len(s.peers) : s.peers[n].name \in Nat
    BY PeersOf, Zenon
  <2>1. Len(s.peers) \in Nat /\ \A n \in 1 .. Len(s.peers) : s.peers[n].name \in Nat
    BY <2>0, ConstantsAssumption
  <2>2. i < Len(s.peers) => i + 1 \in 1 .. Len(s.peers)
    BY <1>2, <2>1
  <2> QED
    BY <1>2, <2>1, <2>2 DEF ServerName
<1>4. ConfigMap(s, i) = RenderDhcp4(s, ServerName(s, i))
  BY <1>1 DEF ConfigMap
<1> QED
  BY <1>1, <1>2, <1>3, <1>4 DEF RenderDhcp4, renderHAHooks

\* The pod template of an HA spec.
LEMMA TemplateOf ==
  ASSUME NEW s \in Specs, HAEnabled(s)
  PROVE  /\ Template(s).ha = TRUE /\ Template(s).env = EnvVars(s)
         /\ DOMAIN Template(s).hosts \subseteq Hosts
         /\ s.replicas \in Nat /\ DOMAIN Template(s).hash = 1 .. s.replicas
         /\ \A i \in Ordinals : i < s.replicas => Template(s).hash[i + 1] = ConfigMap(s, i)
         /\ Template(s).nad = <<s.nadInterface, s.subnet>> /\ Template(s).static = PeerAddresses(s)
<1>1. s.replicas \in Nat
  BY ConstantsAssumption DEF SpecType
<1>2. /\ Template(s).ha = TRUE /\ Template(s).env = EnvVars(s)
      /\ Template(s).hosts = PeerHostnameMap(s)
      /\ Template(s).hash = [i \in 1 .. s.replicas |-> ConfigMap(s, i - 1)]
      /\ Template(s).nad = <<s.nadInterface, s.subnet>> /\ Template(s).static = PeerAddresses(s)
  BY DEF Template, HAEnabled
<1>3. DOMAIN PeerHostnameMap(s) = {fillPeerURLs(s)[n].at : n \in 1 .. Len(fillPeerURLs(s))}
  BY DEF PeerHostnameMap
<1>4. DOMAIN PeerHostnameMap(s) \subseteq Hosts
  BY <1>3, PeersOf
<1>5. ASSUME NEW i \in Ordinals, i < s.replicas
      PROVE  Template(s).hash[i + 1] = ConfigMap(s, i)
  <2>1. i \in Nat /\ i + 1 \in 1 .. s.replicas /\ (i + 1) - 1 = i
    BY <1>1, <1>5 DEF Ordinals
  <2> QED
    BY <1>2, <2>1
<1> QED
  BY <1>1, <1>2, <1>4, <1>5

----------------------------------------------------------------------------
\* The inductive invariant

\* Everything but the pods has its type.
AroundOK ==
  /\ spec \in Specs /\ secret \in [Secrets -> Nat] /\ lives \in [Ordinals -> Nat]
  /\ svc \in [Ordinals -> Nat] /\ dns \in [Ordinals -> Nat]
  /\ \A i \in Ordinals : dns[i] <= svc[i]
  /\ budget \in [Events -> Nat]

\* A pod is a record with the fields of NoPod.
Fields == {"phase", "tpl", "ip", "env", "copied", "file", "todo", "tries", "nad"}
Shaped(p) == p = [x \in Fields |-> p[x]]

\* Its template is that of a spec in which its ordinal was asked for; whether that
\* is an HA spec does not change, and only an HA pod resolves host names.
HasTemplate(i) ==
  LET p == pod[i]
  IN p.phase # "none" =>
       /\ p.phase = "resolve" => p.tpl.ha
       /\ \E s \in Specs : p.tpl = Template(s) /\ i < s.replicas
       /\ p.tpl.ha = HAEnabled(spec)

PodOK(i) ==
  /\ Shaped(pod[i]) /\ pod[i].phase \in PodPhases
  /\ pod[i].ip \in 0 .. lives[i] /\ pod[i].tries \in 0 .. Tries
  /\ HasTemplate(i)

\* The init container of the pod has been started.
InitBegun(i) == pod[i].phase \in {"resolve", "main", "running", "exited"} /\ pod[i].tpl.ha

\* It has copied the configuration of an HA spec for its ordinal.
HasCopied(i) ==
  InitBegun(i) =>
    /\ \E s \in Specs : HAEnabled(s) /\ pod[i].copied = ConfigMap(s, i)
    /\ pod[i].todo \subseteq DOMAIN pod[i].tpl.hosts

\* The address the script of a pod of that template and address may have put in
\* the place of a host name when the Services had had these addresses.
Resolves(i, t, ip, services, h, address) ==
  LET k == t.hosts[h]
  IN /\ h \in DOMAIN t.hosts
     /\ IF IsThisServer(h, i) THEN address = <<"pod", i, ip>>
        ELSE \E v : address = <<"svc", k, v>> /\ (k \in Ordinals => v \in 1 .. services[k])

\* The file is the copy with the addresses of some hosts in the place of their names.
PeersResolved(i) ==
  LET old == pod[i].copied.ha
      new == pod[i].file.ha
  IN InitBegun(i) =>
       /\ new = [name |-> old.name, peers |-> new.peers]
       /\ DOMAIN new.peers = DOMAIN old.peers
       /\ new.peers = [n \in DOMAIN old.peers |-> new.peers[n]]
       /\ \A n \in DOMAIN old.peers :
            LET a == new.peers[n].at
            IN /\ new.peers[n] = [name |-> old.peers[n].name, at |-> a]
               /\ \/ a = old.peers[n].at
                  \/ Resolves(i, pod[i].tpl, pod[i].ip, svc, old.peers[n].at, a)

\* The value of a variable, in a version the Secret has had.
Gives(e, value) == \E v \in 1 .. secret[e.ref] : value = Value(e.ref, e.key, v)

\* The environment of the container has the variables of its template.
HasEnvironment(i) ==
  LET p == pod[i]
  IN InitBegun(i) =>
       /\ \A e \in p.tpl.env : \E x \in p.env : x.name = e.name
       /\ \A x \in p.env : \E e \in p.tpl.env : x.name = e.name /\ Gives(e, x.value)

\* A credential before and after the placeholders are expanded.
Expands(i, old, new) ==
  IF \E e \in pod[i].tpl.env : old = Placeholder(e.name)
    THEN \E e \in pod[i].tpl.env : old = Placeholder(e.name) /\ Gives(e, new)
    ELSE new = old

CredsExpanded(i) ==
  LET old == pod[i].copied.creds
      new == pod[i].file.creds
  IN InitBegun(i) =>
       IF pod[i].phase = "resolve" THEN new = old
       ELSE DOMAIN new = DOMAIN old /\ \A f \in DOMAIN old : Expands(i, old[f], new[f])

\* Kea runs only with a file it accepts, on the address of the ordinal.
Accepted(i) ==
  IsRunning(i) /\ pod[i].tpl.ha =>
    /\ KeaAccepts(pod[i].file)
    /\ pod[i].nad = AssignedAddress(pod[i].tpl, i)

FileOK(i) ==
  InitBegun(i) => pod[i].file = [creds |-> pod[i].file.creds, ha |-> pod[i].file.ha, rest |-> pod[i].file.rest]

PodInv(i) ==
  /\ PodOK(i) /\ HasCopied(i) /\ FileOK(i) /\ PeersResolved(i) /\ HasEnvironment(i) /\ CredsExpanded(i)
  /\ Accepted(i)

IInv == AroundOK /\ pod = [i \in Ordinals |-> pod[i]] /\ \A i \in Ordinals : PodInv(i)

----------------------------------------------------------------------------
\* What a step leaves alone

\* The variables of a template are taken from Secrets.
LEMMA EnvRefs == ASSUME NEW s \in Specs, NEW e \in EnvVars(s) PROVE e.ref \in Secrets
<1>1. /\ s.lease \in Refs /\ s.hosts \in Refs /\ s.hostsDBs \in Seq(Refs)
      /\ s.keys \in Seq([name: Nat, ref: Refs])
  BY ConstantsAssumption DEF SpecType
<1>2. ASSUME NEW prefix, NEW r \in Refs, e \in dbCredentialEnvVars(prefix, r)
      PROVE  e.ref \in Secrets
  BY <1>2 DEF dbCredentialEnvVars, Refs
<1>3. CASE e \in KeyEnvVars(s)
  <2>1. PICK j \in 1 .. Len(s.keys) : s.keys[j].ref # None /\ e = secretKeyRefEnvVar(j, s.keys[j].ref)
    BY <1>3, Zenon DEF KeyEnvVars
  <2>2. s.keys[j] \in [name: Nat, ref: Refs]
    <3> DEFINE T == [name: Nat, ref: Refs]
    <3>1. s.keys \in Seq(T)
      BY <1>1
    <3> HIDE DEF T
    <3>2. s.keys[j] \in T
      BY <3>1
    <3> QED
      BY <3>2 DEF T
  <2> QED
    BY <2>1, <2>2 DEF secretKeyRefEnvVar, Refs
<1>4. CASE \E j \in 1 .. Len(s.hostsDBs) : e \in dbCredentialEnvVars(<<"HOSTS_DBS", j>>, s.hostsDBs[j])
  BY <1>1, <1>2, <1>4
<1>5. CASE \/ e \in dbCredentialEnvVars(<<"LEASE_DB", 0>>, s.lease)
           \/ e \in dbCredentialEnvVars(<<"HOSTS_DB", 0>>, s.hosts)
  BY <1>1, <1>2, <1>5
<1> QED
  BY <1>3, <1>4, <1>5, Zenon DEF EnvVars

\* Addresses and versions are only ever counted up, and a spec stays one of HA or
\* not.
Grows ==
  /\ svc' \in [Ordinals -> Nat] /\ \A k \in Ordinals : svc[k] <= svc'[k]
  /\ secret' \in [Secrets -> Nat] /\ \A r \in Secrets : secret[r] <= secret'[r]
  /\ lives' \in [Ordinals -> Nat] /\ \A k \in Ordinals : lives[k] <= lives'[k]
  /\ HAEnabled(spec)' = HAEnabled(spec)

\* What has been given stays given.
LEMMA GivesGrows ==
  ASSUME AroundOK, Grows, NEW e, e.ref \in Secrets, NEW value, Gives(e, value)
  PROVE  \E v \in 1 .. secret'[e.ref] : value = Value(e.ref, e.key, v)
<1>1. PICK v \in 1 .. secret[e.ref] : value = Value(e.ref, e.key, v)
  BY DEF Gives
<1>2. v \in 1 .. secret'[e.ref]
  BY DEF AroundOK, Grows
<1> QED
  BY <1>1, <1>2

\* A pod that does not step is not disturbed by what the others and the users do.
LEMMA Frame ==
  ASSUME AroundOK, Grows, NEW i \in Ordinals, PodInv(i), pod'[i] = pod[i]
  PROVE  PodInv(i)'
<1>1. PodOK(i)'
  <2>1. Shaped(pod[i])' /\ pod'[i].phase \in PodPhases /\ pod'[i].tries \in 0 .. Tries
    BY DEF PodInv, PodOK, Shaped, PodPhases
  <2>2. pod'[i].ip \in 0 .. lives'[i]
    <3>1. pod[i].ip \in 0 .. lives[i] /\ lives[i] \in Nat /\ lives'[i] \in Nat /\ lives[i] <= lives'[i]
      BY DEF AroundOK, Grows, PodInv, PodOK
    <3>2. pod[i].ip \in 0 .. lives'[i]
      BY <3>1
    <3> QED
      BY <3>2
  <2>3. HasTemplate(i)'
    <3>1. HasTemplate(i) /\ HAEnabled(spec)' = HAEnabled(spec)
      BY DEF Grows, PodInv, PodOK
    <3> QED
      BY <3>1 DEF HasTemplate
  <2> QED
    BY <2>1, <2>2, <2>3 DEF PodOK
<1>2. HasCopied(i)' /\ FileOK(i)'
  BY DEF PodInv, HasCopied, FileOK, InitBegun
<1>3. ASSUME NEW t, NEW ip, NEW h, NEW address, Resolves(i, t, ip, svc, h, address)
      PROVE  Resolves(i, t, ip, svc', h, address)
  BY <1>3 DEF AroundOK, Grows, Resolves, IsThisServer
<1>4. PeersResolved(i)'
  BY <1>3, ZenonT(60) DEF PodInv, PeersResolved, InitBegun
<1>5. ASSUME InitBegun(i), NEW e \in pod[i].tpl.env, NEW value, Gives(e, value)
      PROVE  Gives(e, value)'
  <2>1. e.ref \in Secrets
    <3>1. PICK s \in Specs : pod[i].tpl = Template(s)
      BY <1>5 DEF PodInv, PodOK, HasTemplate, InitBegun
    <3>2. e \in EnvVars(s)
      BY <3>1 DEF Template
    <3> QED
      BY <3>2, EnvRefs
  <2> QED
    BY <1>5, <2>1, GivesGrows DEF Gives
<1>6. HasEnvironment(i)'
  BY <1>5 DEF PodInv, HasEnvironment, InitBegun
<1>7. CredsExpanded(i)'
  <2>1. ASSUME InitBegun(i), NEW old, NEW new, Expands(i, old, new)
        PROVE  Expands(i, old, new)'
    BY <1>5, <2>1 DEF Expands
  <2> QED
    BY <2>1 DEF PodInv, CredsExpanded, InitBegun
<1>8. Accepted(i)'
  BY DEF PodInv, Accepted, IsRunning
<1> QED
  BY <1>1, <1>2, <1>4, <1>6, <1>7, <1>8 DEF PodInv

----------------------------------------------------------------------------
\* The steps of a pod

\* A pod whose init container has not been started has nothing but its type to
\* keep.
LEMMA NotBegun ==
  ASSUME NEW i \in Ordinals, PodOK(i)', ~InitBegun(i)'
  PROVE  PodInv(i)'
BY DEF PodInv, HasCopied, FileOK, PeersResolved, HasEnvironment, CredsExpanded, Accepted,
       InitBegun, IsRunning

\* A step of the scripts leaves the pod's template, address, environment and copy
\* of the configuration alone.
ScriptStep(i) ==
  /\ InitBegun(i) /\ InitBegun(i)'
  /\ pod' = [pod EXCEPT ![i] = pod'[i]]
  /\ Shaped(pod'[i]) /\ pod'[i].tries \in 0 .. Tries
  /\ pod'[i].tpl = pod[i].tpl /\ pod'[i].ip = pod[i].ip /\ pod'[i].env = pod[i].env
  /\ pod'[i].copied = pod[i].copied /\ pod'[i].todo \subseteq pod[i].todo
  /\ UNCHANGED <<spec, secret, svc, dns, lives>>

\* So it keeps what the invariant says of these.
LEMMA ScriptKeeps ==
  ASSUME NEW i \in Ordinals, PodInv(i), ScriptStep(i)
  PROVE  PodOK(i)' /\ HasCopied(i)' /\ HasEnvironment(i)'
<1>1. PodOK(i)'
  <2>1. /\ Shaped(pod[i])' /\ pod'[i].phase \in PodPhases
        /\ pod'[i].ip \in 0 .. lives'[i] /\ pod'[i].tries \in 0 .. Tries
    BY DEF ScriptStep, InitBegun, PodInv, PodOK, PodPhases, Shaped
  <2>2. HasTemplate(i)'
    BY DEF ScriptStep, InitBegun, PodInv, PodOK, HasTemplate, HAEnabled
  <2> QED
    BY <2>1, <2>2 DEF PodOK
<1>2. HasCopied(i)'
  BY DEF ScriptStep, PodInv, HasCopied
<1>3. HasEnvironment(i)'
  BY DEF ScriptStep, PodInv, HasEnvironment, Gives
<1> QED
  BY <1>1, <1>2, <1>3

\* It keeps the peers if it does not edit them, and the credentials likewise.
LEMMA FileKept ==
  ASSUME NEW i \in Ordinals, PodInv(i), ScriptStep(i)
  PROVE  /\ pod'[i].file.ha = pod[i].file.ha => PeersResolved(i)'
         /\ (/\ pod'[i].file.creds = pod[i].file.creds
             /\ pod'[i].phase = "resolve" <=> pod[i].phase = "resolve") => CredsExpanded(i)'
<1>1. ASSUME pod'[i].file.ha = pod[i].file.ha PROVE PeersResolved(i)'
  BY <1>1, ZenonT(60) DEF ScriptStep, PodInv, PeersResolved, Resolves
<1>2. ASSUME pod'[i].file.creds = pod[i].file.creds, pod'[i].phase = "resolve" <=> pod[i].phase = "resolve"
      PROVE  CredsExpanded(i)'
  BY <1>2 DEF ScriptStep, PodInv, CredsExpanded, Expands, Gives
<1> QED
  BY <1>1, <1>2

\* sed changes the peers at the host name, and nothing else of the file.
LEMMA Replaced ==
  ASSUME NEW f, f = [creds |-> f.creds, ha |-> f.ha, rest |-> f.rest],
         f.ha = [name |-> f.ha.name, peers |-> f.ha.peers], NEW h, NEW a
  PROVE  LET g == ReplaceHost(f, h, a)
         IN /\ g = [creds |-> f.creds, ha |-> g.ha, rest |-> f.rest]
            /\ g.ha = [name |-> f.ha.name, peers |-> g.ha.peers]
            /\ DOMAIN g.ha.peers = DOMAIN f.ha.peers
            /\ g.ha.peers = [n \in DOMAIN f.ha.peers |-> g.ha.peers[n]]
            /\ \A n \in DOMAIN f.ha.peers :
                 g.ha.peers[n] = IF f.ha.peers[n].at = h THEN [f.ha.peers[n] EXCEPT !.at = a]
                                 ELSE f.ha.peers[n]
<1> DEFINE ps == [n \in DOMAIN f.ha.peers |-> IF f.ha.peers[n].at = h
                                               THEN [f.ha.peers[n] EXCEPT !.at = a] ELSE f.ha.peers[n]]
           g == ReplaceHost(f, h, a)
<1>1. g = [f EXCEPT !.ha = [f.ha EXCEPT !.peers = ps]]
  BY Zenon DEF ReplaceHost
<1>2. /\ DOMAIN ps = DOMAIN f.ha.peers /\ ps = [n \in DOMAIN f.ha.peers |-> ps[n]]
      /\ \A n \in DOMAIN f.ha.peers :
           ps[n] = IF f.ha.peers[n].at = h THEN [f.ha.peers[n] EXCEPT !.at = a] ELSE f.ha.peers[n]
  OBVIOUS
<1> HIDE DEF ps, g
<1>3. [f.ha EXCEPT !.peers = ps] = [name |-> f.ha.name, peers |-> ps]
  OBVIOUS
<1>4. g = [creds |-> f.creds, ha |-> [name |-> f.ha.name, peers |-> ps], rest |-> f.rest]
  BY <1>1, <1>3
<1>5. g.ha = [name |-> f.ha.name, peers |-> ps] /\ g.ha.peers = ps
  BY <1>4
<1>6. /\ g = [creds |-> f.creds, ha |-> g.ha, rest |-> f.rest]
      /\ g.ha = [name |-> f.ha.name, peers |-> g.ha.peers]
  BY <1>4, <1>5
<1> QED
  BY <1>2, <1>5, <1>6 DEF g

\* A host name in a file is no address.
LEMMA HostIsNoAddress ==
  ASSUME NEW h \in Hosts
  PROVE  h[1] \in {"sts", "custom"}
BY DEF Hosts

\* What the invariant says of an HA pod's copy of the configuration: its peers have
\* host names, as those the script looks for are.
LEMMA CopyOf ==
  ASSUME NEW i \in Ordinals, PodInv(i), InitBegun(i)
  PROVE  /\ DOMAIN pod[i].tpl.hosts \subseteq Hosts
         /\ \E k \in Nat : /\ k <= MaxReplicas /\ DOMAIN pod[i].copied.ha.peers = 1 .. k
                          /\ Len(pod[i].copied.ha.peers) = k
         /\ \A n \in DOMAIN pod[i].copied.ha.peers : pod[i].copied.ha.peers[n].at \in Hosts
         /\ pod[i].copied.ha.name # None
<1>1. PICK s \in Specs : pod[i].tpl = Template(s)
  BY DEF PodInv, PodOK, HasTemplate, InitBegun
<1>2. HAEnabled(s)
  BY <1>1 DEF InitBegun, Template
<1>3. PICK t \in Specs : HAEnabled(t) /\ pod[i].copied = ConfigMap(t, i)
  BY DEF PodInv, HasCopied
<1>4. /\ pod[i].copied.ha.name = ServerName(t, i) /\ pod[i].copied.ha.peers = fillPeerURLs(t)
      /\ ServerName(t, i) # None
  BY <1>3, ConfigOf
<1>5. DOMAIN pod[i].tpl.hosts \subseteq Hosts
  BY <1>1, <1>2, TemplateOf
<1> DEFINE k == Len(t.peers)
<1>6. /\ k \in 0 .. MaxReplicas /\ DOMAIN fillPeerURLs(t) = 1 .. k /\ Len(fillPeerURLs(t)) = k
      /\ \A n \in 1 .. k : fillPeerURLs(t)[n].at \in Hosts
  BY PeersOf, Zenon
<1> HIDE DEF k
<1>7. k \in Nat /\ k <= MaxReplicas
  BY <1>6, ConstantsAssumption
<1> QED
  BY <1>4, <1>5, <1>6, <1>7

\* The script puts an address in the place of a host name.
LEMMA ResolveKeeps ==
  ASSUME AroundOK, NEW i \in Ordinals, PodInv(i), ScriptStep(i), pod[i].phase = "resolve",
         pod'[i].phase = "resolve", NEW h \in pod[i].todo, NEW a,
         Resolves(i, pod[i].tpl, pod[i].ip, svc, h, a),
         pod'[i].file = ReplaceHost(pod[i].file, h, a)
  PROVE  PodInv(i)'
<1> DEFINE f == pod[i].file
           g == pod'[i].file
           old == pod[i].copied.ha
           t == pod[i].tpl
           ip == pod[i].ip
<1>1. /\ f = [creds |-> f.creds, ha |-> f.ha, rest |-> f.rest]
      /\ f.ha = [name |-> old.name, peers |-> f.ha.peers] /\ DOMAIN f.ha.peers = DOMAIN old.peers
      /\ \A n \in DOMAIN old.peers :
           /\ f.ha.peers[n] = [name |-> old.peers[n].name, at |-> f.ha.peers[n].at]
           /\ \/ f.ha.peers[n].at = old.peers[n].at
              \/ Resolves(i, t, ip, svc, old.peers[n].at, f.ha.peers[n].at)
  BY DEF ScriptStep, PodInv, FileOK, PeersResolved
<1>2. /\ g = [creds |-> f.creds, ha |-> g.ha, rest |-> f.rest]
      /\ g.ha = [name |-> f.ha.name, peers |-> g.ha.peers]
      /\ DOMAIN g.ha.peers = DOMAIN f.ha.peers
      /\ g.ha.peers = [n \in DOMAIN f.ha.peers |-> g.ha.peers[n]]
      /\ \A n \in DOMAIN f.ha.peers :
           g.ha.peers[n] = IF f.ha.peers[n].at = h THEN [f.ha.peers[n] EXCEPT !.at = a]
                           ELSE f.ha.peers[n]
  <2>1. f.ha = [name |-> f.ha.name, peers |-> f.ha.peers]
    BY <1>1
  <2>2. f = [creds |-> f.creds, ha |-> f.ha, rest |-> f.rest] /\ g = ReplaceHost(f, h, a)
    BY <1>1
  <2> HIDE DEF f, g
  <2> QED
    BY <2>1, <2>2, Replaced
<1>3. h \in Hosts
  BY CopyOf DEF ScriptStep, PodInv, HasCopied
<1>4. ASSUME NEW x, NEW address, Resolves(i, t, ip, svc, x, address)
      PROVE  address # h
  <2>1. address[1] \in {"pod", "svc"}
    BY <1>4 DEF Resolves
  <2> QED
    BY <1>3, <2>1, HostIsNoAddress
<1>5. ASSUME NEW n \in DOMAIN old.peers
      PROVE  /\ g.ha.peers[n] = [name |-> old.peers[n].name, at |-> g.ha.peers[n].at]
             /\ \/ g.ha.peers[n].at = old.peers[n].at
                \/ Resolves(i, t, ip, svc, old.peers[n].at, g.ha.peers[n].at)
  <2>1. CASE f.ha.peers[n].at = h
    <3>1. f.ha.peers[n].at = old.peers[n].at
      BY <1>1, <1>4, <2>1
    <3>2. g.ha.peers[n] = [f.ha.peers[n] EXCEPT !.at = a]
      BY <1>1, <1>2, <2>1
    <3>3. f.ha.peers[n] = [name |-> old.peers[n].name, at |-> h]
      BY <1>1, <2>1
    <3>4. g.ha.peers[n] = [name |-> old.peers[n].name, at |-> a]
      BY <3>2, <3>3
    <3>5. g.ha.peers[n].at = a
      BY <3>4
    <3>6. Resolves(i, t, ip, svc, old.peers[n].at, a)
      BY <2>1, <3>1
    <3> QED
      BY <3>4, <3>5, <3>6
  <2>2. CASE f.ha.peers[n].at # h
    <3>1. g.ha.peers[n] = f.ha.peers[n]
      BY <1>1, <1>2, <2>2
    <3> QED
      BY <1>1, <3>1
  <2> QED
    BY <2>1, <2>2
<1>6. pod'[i].copied.ha = old /\ pod'[i].tpl = t /\ pod'[i].ip = ip /\ svc' = svc
  BY DEF ScriptStep
<1>7. PeersResolved(i)'
  <2>0. f.ha.name = old.name
    <3>1. f.ha = [name |-> old.name, peers |-> f.ha.peers]
      BY <1>1, Zenon
    <3> HIDE DEF f, old
    <3> QED
      BY <3>1
  <2>1. g.ha = [name |-> old.name, peers |-> g.ha.peers] /\ DOMAIN g.ha.peers = DOMAIN old.peers
    BY <1>1, <1>2, <2>0, Zenon
  <2>2. g.ha.peers = [n \in DOMAIN old.peers |-> g.ha.peers[n]]
    BY <1>1, <1>2, Zenon
  <2> QED
    BY <1>5, <1>6, <2>1, <2>2, Zenon DEF PeersResolved
<1>8. FileOK(i)'
  BY <1>2 DEF FileOK
<1>9. CredsExpanded(i)'
  <2> HIDE DEF f, g
  <2>1. g.creds = f.creds
    BY <1>2
  <2> QED
    BY <2>1, FileKept DEF f, g
<1>10. Accepted(i)'
  BY DEF Accepted, IsRunning
<1> QED
  BY <1>7, <1>8, <1>9, <1>10, ScriptKeeps DEF PodInv

\* sed changes the credentials that are placeholders of variables, and nothing else.
LEMMA Expanded ==
  ASSUME NEW f, f = [creds |-> f.creds, ha |-> f.ha, rest |-> f.rest], NEW env
  PROVE  LET g == ReplacePlaceholders(f, env)
         IN /\ g = [creds |-> g.creds, ha |-> f.ha, rest |-> f.rest]
            /\ DOMAIN g.creds = DOMAIN f.creds
            /\ \A c \in DOMAIN f.creds :
                 IF \E x \in env : f.creds[c] = Placeholder(x.name)
                   THEN \E x \in env : f.creds[c] = Placeholder(x.name) /\ g.creds[c] = x.value
                   ELSE g.creds[c] = f.creds[c]
<1> DEFINE is(c, x) == f.creds[c] = Placeholder(x.name)
           cs == [c \in DOMAIN f.creds |-> IF \E x \in env : is(c, x)
                                            THEN (CHOOSE x \in env : is(c, x)).value ELSE f.creds[c]]
           g == ReplacePlaceholders(f, env)
<1>1. g = [f EXCEPT !.creds = cs]
  BY Zenon DEF ReplacePlaceholders
<1>2. DOMAIN cs = DOMAIN f.creds
  OBVIOUS
<1>3. ASSUME NEW c \in DOMAIN f.creds
      PROVE  IF \E x \in env : is(c, x) THEN \E x \in env : is(c, x) /\ cs[c] = x.value
             ELSE cs[c] = f.creds[c]
  <2>1. CASE \E x \in env : is(c, x)
    <3> DEFINE y == CHOOSE x \in env : is(c, x)
    <3>1. y \in env /\ is(c, y)
      BY <2>1, Zenon
    <3>2. cs[c] = y.value
      BY <2>1
    <3> QED
      BY <2>1, <3>1, <3>2, Zenon
  <2>2. CASE ~\E x \in env : is(c, x)
    BY <2>2
  <2> QED
    BY <2>1, <2>2
<1> HIDE DEF cs, g
<1>4. g = [creds |-> cs, ha |-> f.ha, rest |-> f.rest] /\ g.creds = cs
  BY <1>1
<1> QED
  BY <1>2, <1>3, <1>4, Zenon DEF g

\* The script puts the values of the environment in the place of the placeholders.
LEMMA ExpandKeeps ==
  ASSUME NEW i \in Ordinals, PodInv(i), ScriptStep(i), pod[i].phase = "resolve",
         pod'[i].phase = "main", pod'[i].file = ReplacePlaceholders(pod[i].file, pod[i].env)
  PROVE  PodInv(i)'
<1> DEFINE f == pod[i].file
           g == pod'[i].file
           old == pod[i].copied.creds
           env == pod[i].env
           vs == pod[i].tpl.env
<1>1. /\ f = [creds |-> f.creds, ha |-> f.ha, rest |-> f.rest] /\ f.creds = old
      /\ \A e \in vs : \E x \in env : x.name = e.name
      /\ \A x \in env : \E e \in vs : x.name = e.name /\ Gives(e, x.value)
  BY DEF ScriptStep, PodInv, FileOK, CredsExpanded, HasEnvironment
<1>2. /\ g = [creds |-> g.creds, ha |-> f.ha, rest |-> f.rest]
      /\ DOMAIN g.creds = DOMAIN old
      /\ \A c \in DOMAIN old :
           IF \E x \in env : old[c] = Placeholder(x.name)
             THEN \E x \in env : old[c] = Placeholder(x.name) /\ g.creds[c] = x.value
             ELSE g.creds[c] = old[c]
  <2>1. LET new == ReplacePlaceholders(f, env)
        IN /\ new = [creds |-> new.creds, ha |-> f.ha, rest |-> f.rest]
           /\ DOMAIN new.creds = DOMAIN f.creds
           /\ \A c \in DOMAIN f.creds :
                IF \E x \in env : f.creds[c] = Placeholder(x.name)
                  THEN \E x \in env : f.creds[c] = Placeholder(x.name) /\ new.creds[c] = x.value
                  ELSE new.creds[c] = f.creds[c]
    BY <1>1, Expanded
  <2> QED
    BY <1>1, <2>1
<1>3. ASSUME NEW c \in DOMAIN old
      PROVE  Expands(i, old[c], g.creds[c])
  <2>1. CASE \E e \in vs : old[c] = Placeholder(e.name)
    <3>1. PICK x \in env : old[c] = Placeholder(x.name) /\ g.creds[c] = x.value
      BY <1>1, <1>2, <2>1
    <3> QED
      BY <1>1, <2>1, <3>1 DEF Expands
  <2>2. CASE ~\E e \in vs : old[c] = Placeholder(e.name)
    BY <1>1, <1>2, <2>2 DEF Expands
  <2> QED
    BY <2>1, <2>2
<1>4. pod'[i].copied.creds = old /\ pod'[i].tpl.env = vs /\ secret' = secret
  BY DEF ScriptStep
<1>5. CredsExpanded(i)'
  BY <1>2, <1>3, <1>4 DEF CredsExpanded, Expands, Gives
<1>6. PeersResolved(i)'
  BY <1>2, FileKept
<1>7. FileOK(i)' /\ Accepted(i)'
  BY <1>2 DEF FileOK, Accepted, IsRunning
<1> QED
  BY <1>5, <1>6, <1>7, ScriptKeeps DEF PodInv

\* The main container of an HA pod starts or is started again: Kea runs only with a
\* file that it accepts.
LEMMA MainKeeps ==
  ASSUME NEW i \in Ordinals, PodInv(i), ScriptStep(i), pod[i].phase # "resolve",
         pod'[i].phase # "resolve", pod'[i].file = pod[i].file,
         pod'[i].phase = "running" =>
           KeaAccepts(pod[i].file) /\ pod'[i].nad = AssignedAddress(pod[i].tpl, i)
  PROVE  PodInv(i)'
<1>1. CredsExpanded(i)' /\ PeersResolved(i)'
  BY FileKept
<1>2. FileOK(i)'
  BY DEF ScriptStep, PodInv, FileOK
<1>3. pod'[i].tpl = pod[i].tpl
  BY DEF ScriptStep
<1>4. Accepted(i)'
  BY <1>3 DEF Accepted, IsRunning
<1> QED
  BY <1>1, <1>2, <1>4, ScriptKeeps DEF PodInv

\* A step of one pod is a step of that pod only.
LEMMA SetPod ==
  ASSUME IInv, NEW i \in Ordinals, NEW q, Set(i, q)
  PROVE  /\ pod'[i] = q /\ pod' = [pod EXCEPT ![i] = pod'[i]]
         /\ pod' = [j \in Ordinals |-> pod'[j]] /\ \A j \in Ordinals \ {i} : pod'[j] = pod[j]
         /\ UNCHANGED <<spec, secret, svc, dns>>
BY DEF Set, IInv

\* A pod that is created.
LEMMA FreshPod ==
  ASSUME NEW t, NEW ip
  PROVE  LET q == [NoPod EXCEPT !.phase = "created", !.tpl = t, !.ip = ip]
         IN /\ q.phase = "created" /\ q.tpl = t /\ q.ip = ip /\ q.tries = 0
            /\ Shaped(q)
<1>1. Shaped(NoPod) /\ NoPod.tries = 0
  BY DEF Shaped, Fields, NoPod
<1> DEFINE q == [NoPod EXCEPT !.phase = "created", !.tpl = t, !.ip = ip]
<1>2. Shaped(q)
  BY <1>1 DEF Shaped
<1>3. q.phase = "created" /\ q.tpl = t /\ q.ip = ip /\ q.tries = 0
  BY <1>1 DEF Shaped, Fields
<1> QED
  BY <1>2, <1>3

\* The pod is created from the template of the spec.
LEMMA StartPodKeeps == ASSUME IInv, NEW i \in Ordinals, StartPod(i) PROVE PodInv(i)'
<1> DEFINE q == [NoPod EXCEPT !.phase = "created", !.tpl = Templates[spec], !.ip = lives'[i]]
<1>1. /\ pod[i] = NoPod /\ i < spec.replicas /\ lives' = [lives EXCEPT ![i] = @ + 1]
      /\ Set(i, q)
  BY DEF StartPod
<1>2. q.phase = "created" /\ q.tpl = Templates[spec] /\ q.ip = lives'[i] /\ q.tries = 0
      /\ Shaped(q)
  BY FreshPod
<1> HIDE DEF q
<1>3. pod'[i] = q /\ spec' = spec
  BY <1>1, SetPod
<1>4. spec \in Specs /\ Templates[spec] = Template(spec) /\ lives[i] \in Nat /\ lives'[i] \in Nat
      /\ Tries \in Nat
  BY <1>1, ConstantsAssumption DEF IInv, AroundOK, Templates
<1>5. HasTemplate(i)'
  <2>1. Template(spec).ha = HAEnabled(spec)
    BY DEF Template
  <2> QED
    BY <1>1, <1>2, <1>3, <1>4, <2>1 DEF HasTemplate, HAEnabled
<1>6. PodOK(i)'
  BY <1>2, <1>3, <1>4, <1>5 DEF PodOK, Shaped, PodPhases
<1>7. ~InitBegun(i)'
  BY <1>2, <1>3 DEF InitBegun
<1> QED
  BY <1>6, <1>7, NotBegun

\* What an HA pod mounts is the configuration of an HA spec for its ordinal.
LEMMA MountedOf ==
  ASSUME IInv, NEW i \in Ordinals, pod[i].phase # "none", pod[i].tpl.ha
  PROVE  \E s \in Specs : HAEnabled(s) /\ MountedConfig(pod[i].tpl, i) = ConfigMap(s, i)
<1>1. PICK s \in Specs : pod[i].tpl = Template(s) /\ i < s.replicas
  BY DEF IInv, PodInv, PodOK, HasTemplate
<1>2. HAEnabled(s)
  BY <1>1 DEF Template
<1>3. pod[i].tpl.hash[i + 1] = ConfigMap(s, i)
  BY <1>1, <1>2, TemplateOf
<1>4. spec \in Specs /\ HAEnabled(spec)
  BY DEF IInv, AroundOK, PodInv, PodOK, HasTemplate
<1>5. ConfigMaps[spec][i] = ConfigMap(spec, i)
  BY <1>4 DEF ConfigMaps
<1> QED
  BY <1>2, <1>3, <1>4, <1>5 DEF MountedConfig

\* The first container of the pod is created and copies the configuration.
LEMMA CreateContainerKeeps == ASSUME IInv, NEW i \in Ordinals, CreateContainer(i) PROVE PodInv(i)'
<1> DEFINE p == pod[i]
           conf == MountedConfig(p.tpl, i)
           q == [p EXCEPT !.phase = IF p.tpl.ha THEN "resolve" ELSE "main",
                          !.env = Environment(p.tpl), !.copied = conf, !.file = conf,
                          !.todo = DOMAIN p.tpl.hosts, !.tries = Tries]
<1>1. /\ p.phase = "created" /\ \A e \in p.tpl.env : secret[e.ref] # 0
      /\ Set(i, q) /\ lives' = lives
  BY DEF CreateContainer
<1>2. PodOK(i)
  BY DEF IInv, PodInv
<1>3. /\ q.tpl = p.tpl /\ q.ip = p.ip /\ q.env = Environment(p.tpl) /\ q.copied = conf
      /\ q.file = conf /\ q.todo = DOMAIN p.tpl.hosts /\ q.tries = Tries /\ Shaped(q)
      /\ q.phase = IF p.tpl.ha THEN "resolve" ELSE "main"
  <2> DEFINE env == Environment(p.tpl)
             phase == IF p.tpl.ha THEN "resolve" ELSE "main"
  <2>1. Shaped(p)
    BY <1>2 DEF PodOK
  <2> HIDE DEF env, phase, conf
  <2>2. q = [p EXCEPT !.phase = phase, !.env = env, !.copied = conf, !.file = conf,
                      !.todo = DOMAIN p.tpl.hosts, !.tries = Tries]
    BY DEF phase, env
  <2> HIDE DEF q
  <2>3. Shaped(q)
    BY <2>1, <2>2 DEF Shaped
  <2>4. /\ q.tpl = p.tpl /\ q.ip = p.ip /\ q.env = env /\ q.copied = conf
        /\ q.file = conf /\ q.todo = DOMAIN p.tpl.hosts /\ q.tries = Tries /\ q.phase = phase
    BY <2>1, <2>2 DEF Shaped, Fields
  <2> QED
    BY <2>3, <2>4 DEF env, phase
<1> HIDE DEF q
<1>4. pod'[i] = q /\ spec' = spec /\ secret' = secret
  BY <1>1, SetPod
<1> HIDE DEF conf
<1>6. PodOK(i)'
  <2>1. q.phase \in PodPhases /\ q.phase # "none"
    BY <1>3 DEF PodPhases
  <2>2. q.tries \in 0 .. Tries
    BY <1>3, ConstantsAssumption
  <2>3. HasTemplate(i)'
    BY <1>1, <1>2, <1>4, <1>3 DEF PodOK, HasTemplate, HAEnabled
  <2> QED
    BY <1>1, <1>2, <1>4, <1>3, <2>1, <2>2, <2>3 DEF PodOK
<1>7. CASE ~p.tpl.ha
  BY <1>4, <1>3, <1>6, <1>7, NotBegun DEF InitBegun
<1>8. CASE p.tpl.ha
  <2>1. PICK s \in Specs : HAEnabled(s) /\ conf = ConfigMap(s, i)
    BY <1>1, <1>8, MountedOf DEF conf
  <2>2. HasCopied(i)'
    BY <1>4, <1>3, <2>1 DEF HasCopied
  <2>3. conf = [creds |-> conf.creds, ha |-> [name |-> conf.ha.name, peers |-> conf.ha.peers],
                rest |-> conf.rest]
        /\ conf.ha.peers = fillPeerURLs(s)
    BY <2>1, ConfigOf
  <2>4. conf.ha = [name |-> conf.ha.name, peers |-> conf.ha.peers]
    BY <2>3
  <2>5. FileOK(i)'
    BY <1>4, <1>3, <2>3, <2>4 DEF FileOK
  <2>6. \A n \in DOMAIN conf.ha.peers :
          conf.ha.peers[n] = [name |-> conf.ha.peers[n].name, at |-> conf.ha.peers[n].at]
    <3>1. LET ps == fillPeerURLs(s)
          IN \A n \in DOMAIN ps : ps[n] = [name |-> s.peers[n].name, at |-> ps[n].at]
      BY PeersOf, Zenon
    <3> QED
      BY <2>3, <3>1
  <2>7. PeersResolved(i)'
    <3>1. conf.ha.peers = [n \in DOMAIN conf.ha.peers |-> conf.ha.peers[n]]
      BY <2>3 DEF fillPeerURLs
    <3> QED
      BY <1>4, <1>3, <2>4, <2>6, <3>1 DEF PeersResolved
  <2>8. HasEnvironment(i)'
    <3>1. ASSUME NEW e \in p.tpl.env
          PROVE  /\ [name |-> e.name, value |-> Value(e.ref, e.key, secret[e.ref])].name = e.name
                 /\ Gives(e, Value(e.ref, e.key, secret[e.ref]))
      <4>1. PICK t \in Specs : p.tpl = Template(t)
        BY <1>1, <1>2 DEF PodOK, HasTemplate
      <4>2. e.ref \in Secrets
        BY <4>1, EnvRefs DEF Template
      <4>3. secret[e.ref] \in 1 .. secret[e.ref]
        BY <1>1, <4>2 DEF IInv, AroundOK
      <4> QED
        BY <4>3 DEF Gives
    <3>2. \A e \in p.tpl.env : \E x \in q.env : x.name = e.name
      BY <1>3, <3>1, Zenon DEF Environment
    <3>3. \A x \in q.env : \E e \in p.tpl.env : x.name = e.name /\ Gives(e, x.value)
      BY <1>3, <3>1 DEF Environment
    <3> QED
      BY <1>4, <1>3, <3>2, <3>3 DEF HasEnvironment, Gives
  <2>9. CredsExpanded(i)'
    BY <1>4, <1>3, <1>8 DEF CredsExpanded
  <2>10. Accepted(i)'
    BY <1>4, <1>3, <1>8 DEF Accepted, IsRunning
  <2> QED
    BY <1>6, <2>2, <2>5, <2>7, <2>8, <2>9, <2>10 DEF PodInv
<1> QED
  BY <1>7, <1>8

\* The script is through with a host name.
LEMMA NextHostStep ==
  ASSUME IInv, NEW i \in Ordinals, pod[i].phase = "resolve", NEW f,
         Set(i, NextHost(pod[i], f)), lives' = lives
  PROVE  ScriptStep(i) /\ pod'[i].phase = "resolve" /\ pod'[i].file = f
<1> DEFINE p == pod[i]
           todo == p.todo \ {Current(p)}
           q == [p EXCEPT !.todo = todo, !.tries = Tries, !.file = f]
<1>1. PodOK(i) /\ InitBegun(i)
  BY DEF IInv, PodInv, PodOK, HasTemplate, InitBegun
<1>2. Set(i, q)
  BY DEF NextHost
<1>3. Shaped(q)
  BY <1>1 DEF PodOK, Shaped
<1>4. /\ q.phase = "resolve" /\ q.tpl = p.tpl /\ q.ip = p.ip /\ q.env = p.env
      /\ q.copied = p.copied /\ q.file = f /\ q.todo = todo /\ q.tries = Tries
  <2> HIDE DEF todo
  <2> QED
    BY <1>1 DEF PodOK, Shaped, Fields
<1> HIDE DEF q
<1>5. pod'[i] = q /\ pod' = [pod EXCEPT ![i] = pod'[i]] /\ UNCHANGED <<spec, secret, svc, dns>>
  BY <1>2, SetPod
<1>6. q.tries \in 0 .. Tries /\ q.todo \subseteq p.todo
  BY <1>4, ConstantsAssumption
<1> QED
  BY <1>1, <1>3, <1>4, <1>5, <1>6 DEF ScriptStep, InitBegun

\* Every answer, and none, keeps the invariant.
LEMMA ResolveHostKeeps ==
  ASSUME IInv, NEW i \in Ordinals, ResolveThisServer(i) \/ ResolvePeer(i) \/ ResolveFails(i)
  PROVE  PodInv(i)'
<1> DEFINE p == pod[i]
<1>1. PICK h : h = Current(p)
  OBVIOUS
<1>2. p.phase = "resolve" /\ p.todo # {} /\ lives' = lives
  BY DEF ResolveThisServer, ResolvePeer, ResolveFails
<1>3. h \in p.todo
  BY <1>1, <1>2 DEF Current
<1>4. AroundOK /\ PodInv(i) /\ InitBegun(i) /\ h \in DOMAIN p.tpl.hosts
  BY <1>2, <1>3 DEF IInv, PodInv, PodOK, HasTemplate, InitBegun, HasCopied
<1>5. ASSUME NEW a, Resolves(i, p.tpl, p.ip, svc, h, a), Set(i, NextHost(p, ReplaceHost(p.file, h, a)))
      PROVE  PodInv(i)'
  BY <1>2, <1>3, <1>4, <1>5, NextHostStep, ResolveKeeps
<1>6. CASE ResolveThisServer(i)
  <2>1. PICK a : a = <<"pod", i, p.ip>>
    OBVIOUS
  <2>2. Resolves(i, p.tpl, p.ip, svc, h, a)
    BY <1>1, <1>4, <1>6, <2>1 DEF ResolveThisServer, Resolves
  <2>3. Set(i, NextHost(p, ReplaceHost(p.file, h, a)))
    BY <1>1, <1>6, <2>1 DEF ResolveThisServer
  <2> QED
    BY <1>5, <2>2, <2>3
<1>7. CASE ResolvePeer(i)
  <2>1. PICK k : k = p.tpl.hosts[h]
    OBVIOUS
  <2>2. PICK v : v = dns[k]
    OBVIOUS
  <2>3. PICK a : a = <<"svc", k, v>>
    OBVIOUS
  <2>4. ~IsThisServer(h, i) /\ v # 0 /\ Set(i, NextHost(p, ReplaceHost(p.file, h, a)))
    BY <1>1, <1>7, <2>1, <2>2, <2>3 DEF ResolvePeer
  <2>5. k \in Ordinals => v \in 1 .. svc[k]
    BY <1>4, <2>2, <2>4 DEF AroundOK
  <2>6. Resolves(i, p.tpl, p.ip, svc, h, a)
    BY <1>4, <2>1, <2>3, <2>4, <2>5 DEF Resolves
  <2> QED
    BY <1>5, <2>4, <2>6
<1>8. ASSUME ScriptStep(i), pod'[i].phase = "resolve", pod'[i].file = p.file
      PROVE  PodInv(i)'
  <2>1. PeersResolved(i)' /\ CredsExpanded(i)'
    BY <1>2, <1>4, <1>8, FileKept
  <2>2. FileOK(i)' /\ Accepted(i)'
    BY <1>4, <1>8 DEF PodInv, FileOK, Accepted, IsRunning
  <2> QED
    BY <1>4, <1>8, <2>1, <2>2, ScriptKeeps DEF PodInv
<1>9. CASE ResolveFails(i)
  <2>1. CASE ~(p.tries > 1)
    <3>1. PICK f : f = p.file
      OBVIOUS
    <3>2. Set(i, NextHost(p, f))
      BY <1>9, <2>1, <3>1 DEF ResolveFails
    <3> QED
      BY <1>2, <1>8, <3>1, <3>2, NextHostStep
  <2>2. CASE p.tries > 1
    <3> DEFINE n == p.tries - 1
               q == [p EXCEPT !.tries = n]
    <3>1. Set(i, q)
      BY <1>9, <2>2 DEF ResolveFails
    <3>2. n \in 0 .. Tries
      BY <1>4, <2>2, ConstantsAssumption DEF PodInv, PodOK
    <3> HIDE DEF n
    <3>3. Shaped(q)
      BY <1>4 DEF PodInv, PodOK, Shaped
    <3>4. /\ q.phase = p.phase /\ q.tpl = p.tpl /\ q.ip = p.ip /\ q.env = p.env
          /\ q.copied = p.copied /\ q.file = p.file /\ q.todo = p.todo /\ q.tries = n
      BY <1>4 DEF PodInv, PodOK, Shaped, Fields
    <3> HIDE DEF q
    <3>5. pod'[i] = q /\ pod' = [pod EXCEPT ![i] = pod'[i]] /\ UNCHANGED <<spec, secret, svc, dns>>
      BY <3>1, SetPod
    <3>6. ScriptStep(i)
      BY <1>2, <1>4, <3>2, <3>3, <3>4, <3>5 DEF ScriptStep, InitBegun
    <3> QED
      BY <1>2, <1>8, <3>4, <3>5, <3>6
  <2> QED
    BY <2>1, <2>2
<1> QED
  BY <1>6, <1>7, <1>9

\* The credentials are expanded.
LEMMA ExpandSecretsKeeps == ASSUME IInv, NEW i \in Ordinals, ExpandSecrets(i) PROVE PodInv(i)'
<1> DEFINE p == pod[i]
<1>1. PICK f : f = ReplacePlaceholders(p.file, p.env)
  OBVIOUS
<1> DEFINE q == [p EXCEPT !.phase = "main", !.tries = 0, !.file = f]
<1>2. p.phase = "resolve" /\ Set(i, q) /\ lives' = lives
  BY <1>1 DEF ExpandSecrets
<1>3. PodInv(i) /\ PodOK(i) /\ InitBegun(i)
  BY <1>2 DEF IInv, PodInv, PodOK, HasTemplate, InitBegun
<1>4. Shaped(q)
  BY <1>3 DEF PodOK, Shaped
<1>5. /\ q.phase = "main" /\ q.tpl = p.tpl /\ q.ip = p.ip /\ q.env = p.env
      /\ q.copied = p.copied /\ q.file = f /\ q.todo = p.todo /\ q.tries = 0
  BY <1>3 DEF PodOK, Shaped, Fields
<1> HIDE DEF q
<1>6. pod'[i] = q /\ pod' = [pod EXCEPT ![i] = pod'[i]] /\ UNCHANGED <<spec, secret, svc, dns>>
  BY <1>2, SetPod
<1>7. q.tries \in 0 .. Tries
  BY <1>5, ConstantsAssumption
<1>8. ScriptStep(i)
  BY <1>2, <1>3, <1>4, <1>5, <1>6, <1>7 DEF ScriptStep, InitBegun
<1> QED
  BY <1>1, <1>2, <1>3, <1>5, <1>6, <1>8, ExpandKeeps

\* A pod without HA keeps its type in the steps of its only container.
LEMMA PlainKeeps ==
  ASSUME IInv, NEW i \in Ordinals, pod[i].phase # "none", ~pod[i].tpl.ha, NEW q, Set(i, q),
         Shaped(q), q.phase \in PodPhases \ {"none", "resolve"}, q.tpl = pod[i].tpl,
         q.ip = pod[i].ip, q.tries = 0, lives' = lives
  PROVE  PodInv(i)'
<1>1. PodOK(i)
  BY DEF IInv, PodInv
<1>2. pod'[i] = q /\ spec' = spec
  BY SetPod
<1>3. HasTemplate(i)'
  BY <1>1, <1>2 DEF PodOK, HasTemplate, HAEnabled
<1>4. q.tries \in 0 .. Tries
  BY ConstantsAssumption
<1>5. PodOK(i)'
  BY <1>1, <1>2, <1>3, <1>4 DEF PodOK
<1> QED
  BY <1>2, <1>5, NotBegun DEF InitBegun

\* The main container starts Kea.
LEMMA StartKeaKeeps == ASSUME IInv, NEW i \in Ordinals, StartKea(i) PROVE PodInv(i)'
<1> DEFINE p == pod[i]
<1>1. PICK f : f = IF p.tpl.ha THEN p.file ELSE DeploymentFile(p.file, p.env)
  OBVIOUS
<1>2. PICK ph : ph = IF ExecsKea(p.tpl) /\ KeaAccepts(f) THEN "running" ELSE "exited"
  OBVIOUS
<1>3. PICK nad : nad = AssignedAddress(p.tpl, i)
  OBVIOUS
<1> DEFINE q == [p EXCEPT !.file = f, !.tries = 0, !.nad = nad, !.phase = ph]
<1>4. p.phase = "main" /\ Set(i, q) /\ lives' = lives
  BY <1>1, <1>2, <1>3, Zenon DEF StartKea
<1>5. PodInv(i) /\ PodOK(i)
  BY DEF IInv, PodInv
<1>6. Shaped(q)
  BY <1>5 DEF PodOK, Shaped
<1>7. /\ q.phase = ph /\ q.tpl = p.tpl /\ q.ip = p.ip /\ q.env = p.env /\ q.nad = nad
      /\ q.copied = p.copied /\ q.file = f /\ q.todo = p.todo /\ q.tries = 0
  BY <1>5 DEF PodOK, Shaped, Fields
<1> HIDE DEF q
<1>8. ph \in {"running", "exited"} /\ (ph = "running" => KeaAccepts(f))
  BY <1>2
<1>9. CASE ~p.tpl.ha
  BY <1>4, <1>6, <1>7, <1>8, <1>9, PlainKeeps DEF PodPhases
<1>10. CASE p.tpl.ha
  <2>1. pod'[i] = q /\ pod' = [pod EXCEPT ![i] = pod'[i]] /\ UNCHANGED <<spec, secret, svc, dns>>
    BY <1>4, SetPod
  <2>2. q.tries \in 0 .. Tries /\ f = p.file
    BY <1>1, <1>7, <1>10, ConstantsAssumption
  <2>3. ScriptStep(i)
    BY <1>4, <1>6, <1>7, <1>8, <1>10, <2>1, <2>2 DEF ScriptStep, InitBegun
  <2> QED
    BY <1>3, <1>4, <1>5, <1>7, <1>8, <2>1, <2>2, <2>3, MainKeeps
<1> QED
  BY <1>9, <1>10

\* The main container is started again.
LEMMA AgainKeeps ==
  ASSUME IInv, NEW i \in Ordinals, pod[i].phase \in {"running", "exited"}, Again(i), lives' = lives
  PROVE  PodInv(i)'
<1> DEFINE p == pod[i]
<1>1. PodInv(i) /\ PodOK(i)
  BY DEF IInv, PodInv
<1>2. CASE ~p.tpl.ha
  <2> DEFINE q == [NoPod EXCEPT !.phase = "created", !.tpl = p.tpl, !.ip = p.ip]
  <2>1. Set(i, q)
    BY <1>2 DEF Again
  <2>2. q.phase = "created" /\ q.tpl = p.tpl /\ q.ip = p.ip /\ q.tries = 0 /\ Shaped(q)
    BY FreshPod
  <2> HIDE DEF q
  <2> QED
    BY <1>2, <2>1, <2>2, PlainKeeps DEF PodPhases
<1>3. CASE p.tpl.ha
  <2> DEFINE q == [p EXCEPT !.phase = "main"]
  <2>1. Set(i, q)
    BY <1>3 DEF Again
  <2>2. Shaped(q)
    BY <1>1 DEF PodOK, Shaped
  <2>3. /\ q.phase = "main" /\ q.tpl = p.tpl /\ q.ip = p.ip /\ q.env = p.env
        /\ q.copied = p.copied /\ q.file = p.file /\ q.todo = p.todo /\ q.tries = p.tries
    BY <1>1 DEF PodOK, Shaped, Fields
  <2> HIDE DEF q
  <2>4. pod'[i] = q /\ pod' = [pod EXCEPT ![i] = pod'[i]] /\ UNCHANGED <<spec, secret, svc, dns>>
    BY <2>1, SetPod
  <2>5. ScriptStep(i)
    BY <1>1, <1>3, <2>2, <2>3, <2>4 DEF ScriptStep, InitBegun, PodOK
  <2> QED
    BY <1>1, <2>3, <2>4, <2>5, MainKeeps
<1> QED
  BY <1>2, <1>3

\* A pod is gone.
LEMMA NoPodKeeps ==
  ASSUME AroundOK', NEW i \in Ordinals, pod'[i] = NoPod
  PROVE  PodInv(i)'
<1>1. /\ NoPod.phase = "none" /\ NoPod.ip = 0 /\ NoPod.tries = 0 /\ Shaped(NoPod)
  BY DEF NoPod, Shaped, Fields
<1>2. 0 \in 0 .. lives'[i] /\ 0 \in 0 .. Tries
  BY ConstantsAssumption DEF AroundOK
<1>3. PodOK(i)'
  BY <1>1, <1>2 DEF PodOK, HasTemplate, PodPhases
<1>4. ~InitBegun(i)'
  BY <1>1 DEF InitBegun
<1> QED
  BY <1>3, <1>4, NotBegun

----------------------------------------------------------------------------
\* The invariant holds

\* Spending leaves a budget.
LEMMA SpendType ==
  ASSUME AroundOK, NEW e \in Events \ {"any"}, Spend(e)
  PROVE  budget' \in [Events -> Nat]
<1>1. budget \in [Events -> Nat] /\ "any" \in Events /\ e # "any"
      /\ budget[e] > 0 /\ budget["any"] > 0
      /\ budget' = IF budget["any"] = 1 THEN [x \in Events |-> 0]
                   ELSE [budget EXCEPT ![e] = @ - 1, !["any"] = @ - 1]
  BY DEF Spend, AroundOK, Events
<1> QED
  BY <1>1

\* Steps of a pod keep the invariant.
LEMMA PodStepInv ==
  ASSUME IInv, NEW i \in Ordinals, RunPod(i) \/ StopPod(i) \/ KeaDies(i) \/ LosePod(i)
  PROVE  IInv'
<1>1. PICK q : Set(i, q)
  <2>1. CASE RunPod(i)
    <3>1. CASE StartPod(i)
      BY <3>1, Zenon DEF StartPod
    <3>2. CASE CreateContainer(i)
      BY <3>2, Zenon DEF CreateContainer
    <3>3. CASE ResolveThisServer(i) \/ ResolvePeer(i) \/ ResolveFails(i)
      BY <3>3, Zenon DEF ResolveThisServer, ResolvePeer, ResolveFails
    <3>4. CASE ExpandSecrets(i) \/ StartKea(i)
      BY <3>4, Zenon DEF ExpandSecrets, StartKea
    <3>5. CASE RestartExited(i)
      BY <3>5, Zenon DEF RestartExited, Again
    <3> QED
      BY <2>1, <3>1, <3>2, <3>3, <3>4, <3>5 DEF RunPod
  <2>2. CASE StopPod(i) \/ KeaDies(i) \/ LosePod(i)
    BY <2>2, Zenon DEF StopPod, KeaDies, LosePod, Again
  <2> QED
    BY <2>1, <2>2
<1>2. /\ UNCHANGED <<spec, secret, svc, dns>> /\ pod' = [j \in Ordinals |-> pod'[j]]
      /\ \A j \in Ordinals \ {i} : pod'[j] = pod[j]
  BY <1>1, SetPod
<1>3. lives' = lives \/ lives' = [lives EXCEPT ![i] = @ + 1]
  BY DEF RunPod, StartPod, CreateContainer, ResolveThisServer, ResolvePeer, ResolveFails,
         ExpandSecrets, StartKea, RestartExited, StopPod, KeaDies, LosePod
<1>4. lives' \in [Ordinals -> Nat] /\ \A k \in Ordinals : lives[k] <= lives'[k]
  BY <1>3 DEF IInv, AroundOK
<1>5. budget' \in [Events -> Nat]
  <2>1. budget' = budget \/ Spend("restart") \/ Spend("lose")
    BY DEF RunPod, StartPod, CreateContainer, ResolveThisServer, ResolvePeer, ResolveFails,
           ExpandSecrets, StartKea, RestartExited, StopPod, KeaDies, LosePod
  <2> QED
    BY <2>1, SpendType DEF IInv, AroundOK, Events
<1>6. AroundOK' /\ Grows
  BY <1>2, <1>4, <1>5 DEF IInv, AroundOK, Grows, HAEnabled
<1>7. \A j \in Ordinals \ {i} : PodInv(j)'
  BY <1>2, <1>6, Frame DEF IInv
<1>8. PodInv(i)'
  <2>1. CASE RunPod(i)
    <3>1. CASE RestartExited(i)
      BY <3>1, AgainKeeps DEF RestartExited
    <3> QED
      BY <2>1, <3>1, StartPodKeeps, CreateContainerKeeps, ResolveHostKeeps, ExpandSecretsKeeps,
         StartKeaKeeps DEF RunPod
  <2>2. CASE KeaDies(i)
    BY <2>2, AgainKeeps DEF KeaDies
  <2>3. CASE StopPod(i) \/ LosePod(i)
    <3>1. Set(i, NoPod)
      BY <2>3 DEF StopPod, LosePod
    <3>2. pod'[i] = NoPod
      BY <3>1 DEF Set, IInv
    <3> QED
      BY <1>6, <3>2, NoPodKeeps
  <2> QED
    BY <2>1, <2>2, <2>3
<1> QED
  BY <1>2, <1>6, <1>7, <1>8 DEF IInv

\* So do steps of the users and of the cluster, which leave the pods alone.
LEMMA AroundStepInv ==
  ASSUME IInv, \/ \E i \in Ordinals : PublishDNS(i) \/ RenumberService(i)
               \/ EditSpec \/ \E r \in Secrets : WriteSecret(r)
  PROVE  IInv'
<1>0. AroundOK
  BY DEF IInv
<1>1. pod' = pod /\ lives' = lives
  BY DEF PublishDNS, RenumberService, EditSpec, WriteSecret
<1>2. budget' \in [Events -> Nat]
  BY <1>0, SpendType DEF AroundOK, Events, PublishDNS, RenumberService, EditSpec, WriteSecret
<1>3. AroundOK' /\ Grows
  <2>1. CASE \E i \in Ordinals : PublishDNS(i)
    BY <1>0, <1>1, <1>2, <2>1 DEF PublishDNS, AroundOK, Grows, HAEnabled
  <2>2. CASE \E i \in Ordinals : RenumberService(i)
    <3>1. /\ UNCHANGED <<spec, secret, dns>> /\ svc' \in [Ordinals -> Nat]
          /\ \A k \in Ordinals : svc[k] <= svc'[k]
      BY <1>0, <2>2 DEF RenumberService, AroundOK
    <3>2. \A k \in Ordinals : dns'[k] <= svc'[k]
      BY <1>0, <3>1 DEF AroundOK
    <3> QED
      BY <1>0, <1>1, <1>2, <3>1, <3>2 DEF AroundOK, Grows, HAEnabled
  <2>3. CASE EditSpec
    <3>1. PICK s \in Specs : /\ HAEnabled(s) = HAEnabled(spec)
                             /\ spec' = s /\ svc' = ServicesOf(s, svc)
                             /\ UNCHANGED <<secret, dns>>
      BY <2>3 DEF EditSpec
    <3>2. svc' \in [Ordinals -> Nat] /\ \A k \in Ordinals : svc[k] <= svc'[k]
      BY <1>0, <3>1 DEF ServicesOf, AroundOK
    <3>3. \A k \in Ordinals : dns'[k] <= svc'[k]
      BY <1>0, <3>1, <3>2 DEF AroundOK
    <3>4. HAEnabled(spec)' = HAEnabled(spec)
      BY <3>1 DEF HAEnabled
    <3> QED
      BY <1>0, <1>1, <1>2, <3>1, <3>2, <3>3, <3>4 DEF AroundOK, Grows
  <2>4. CASE \E r \in Secrets : WriteSecret(r)
    BY <1>0, <1>1, <1>2, <2>4 DEF WriteSecret, AroundOK, Grows, HAEnabled
  <2> QED
    BY <2>1, <2>2, <2>3, <2>4
<1>4. \A i \in Ordinals : PodInv(i)'
  BY <1>0, <1>1, <1>3, Frame DEF IInv
<1> QED
  BY <1>1, <1>3, <1>4 DEF IInv

\* Initially there are no pods.
LEMMA InitInv == Init => IInv
<1> SUFFICES ASSUME Init PROVE IInv
  OBVIOUS
<1>1. AroundOK
  <2>1. spec \in Specs /\ budget \in [Events -> Nat] /\ lives \in [Ordinals -> Nat]
        /\ dns \in [Ordinals -> Nat] /\ secret \in [Secrets -> Nat]
    BY ConstantsAssumption DEF Init
  <2>2. svc \in [Ordinals -> Nat]
    BY DEF Init, ServicesOf
  <2>3. \A i \in Ordinals : dns[i] <= svc[i]
    BY <2>2 DEF Init
  <2> QED
    BY <2>1, <2>2, <2>3 DEF AroundOK
<1>2. ASSUME NEW i \in Ordinals PROVE PodInv(i)
  <2>1. /\ NoPod.phase = "none" /\ NoPod.ip = 0 /\ NoPod.tries = 0 /\ Shaped(NoPod)
    BY DEF NoPod, Shaped, Fields
  <2>2. 0 \in 0 .. lives[i] /\ 0 \in 0 .. Tries
    BY <1>1, ConstantsAssumption DEF AroundOK
  <2>3. pod[i] = NoPod
    BY DEF Init
  <2>4. PodOK(i)
    BY <2>1, <2>2, <2>3 DEF PodOK, HasTemplate, PodPhases
  <2> QED
    BY <2>1, <2>3, <2>4
    DEF PodInv, HasCopied, FileOK, PeersResolved, HasEnvironment, CredsExpanded, Accepted,
        InitBegun, IsRunning
<1> QED
  BY <1>1, <1>2 DEF IInv, Init

\* Every step keeps the invariant.
LEMMA NextInv == IInv /\ [Next]_vars => IInv'
<1>1. ASSUME IInv, UNCHANGED vars PROVE IInv'
  <2>1. AroundOK' /\ Grows /\ pod' = pod
    BY <1>1 DEF IInv, AroundOK, Grows, vars, HAEnabled
  <2>2. \A i \in Ordinals : PodInv(i)'
    BY <1>1, <2>1, Frame DEF IInv
  <2> QED
    BY <1>1, <2>1, <2>2 DEF IInv
<1> QED
  BY <1>1, PodStepInv, AroundStepInv DEF Next

\* The specs of the past were specs.
LEMMA PastKept == IInv /\ past \subseteq Specs /\ [Next]_vars => (past \subseteq Specs)'
<1> SUFFICES ASSUME IInv, past \subseteq Specs, [Next]_vars PROVE past' \subseteq Specs
  OBVIOUS
<1>1. spec \in Specs
  BY DEF IInv, AroundOK
<1>2. CASE EditSpec
  BY <1>1, <1>2 DEF EditSpec
<1>3. ASSUME NEW i \in Ordinals, RunPod(i) \/ StopPod(i) \/ KeaDies(i) \/ LosePod(i)
      PROVE  past' = past
  BY <1>3 DEF RunPod, StartPod, CreateContainer, ResolveThisServer, ResolvePeer, ResolveFails,
              ExpandSecrets, StartKea, RestartExited, StopPod, KeaDies, LosePod, Again, Set
<1>4. ASSUME NEW i \in Ordinals, PublishDNS(i) \/ RenumberService(i) PROVE past' = past
  BY <1>4 DEF PublishDNS, RenumberService
<1>5. ASSUME NEW r \in Secrets, WriteSecret(r) PROVE past' = past
  BY <1>5 DEF WriteSecret
<1> QED
  BY <1>2, <1>3, <1>4, <1>5 DEF Next, vars

\* Every variable of PodConfig has its type in every reachable state: an address
\* that the name server gives out is one that the Service has had, and the tries of
\* the init script are counted anew for every host.
THEOREM TypeCorrect == Spec => []TypeOK
<1>1. IInv /\ past \subseteq Specs => TypeOK
  BY DEF IInv, AroundOK, PodInv, PodOK, TypeOK
<1>2. Init => past \subseteq Specs
  BY DEF Init
<1> QED
  BY <1>1, <1>2, InitInv, NextInv, PastKept, PTL DEF Spec

----------------------------------------------------------------------------
\* Peers

\* The file has k peers, all of them resolved, and the pod's own name is among
\* theirs.
AllResolved(i, k) ==
  LET old == pod[i].copied.ha
      new == pod[i].file.ha
  IN /\ new.name = old.name /\ Len(old.peers) = k /\ Len(new.peers) = k
     /\ \A n \in 1 .. k :
          /\ new.peers[n].name = old.peers[n].name
          /\ Resolves(i, pod[i].tpl, pod[i].ip, svc, old.peers[n].at, new.peers[n].at)
     /\ \E n \in 1 .. k : new.peers[n].name = new.name

\* That is so of a file that Kea accepts.
LEMMA AcceptedPeers ==
  ASSUME IInv, NEW i \in Ordinals, IsRunning(i), pod[i].tpl.ha
  PROVE  \E k \in Nat : k <= MaxReplicas /\ AllResolved(i, k)
<1> DEFINE old == pod[i].copied.ha
           new == pod[i].file.ha
<1>1. PodInv(i) /\ InitBegun(i)
  BY DEF IInv, IsRunning, InitBegun
<1>2. PICK k \in Nat : k <= MaxReplicas /\ DOMAIN old.peers = 1 .. k /\ Len(old.peers) = k
  BY <1>1, CopyOf
<1>3. (\A n \in 1 .. k : old.peers[n].at \in Hosts) /\ old.name # None
  BY <1>1, <1>2, CopyOf
<1>4. /\ new = [name |-> old.name, peers |-> new.peers]
      /\ DOMAIN new.peers = 1 .. k /\ new.peers = [n \in 1 .. k |-> new.peers[n]]
  BY <1>1, <1>2 DEF PodInv, PeersResolved
<1>5. \A n \in 1 .. k : LET a == new.peers[n].at
                        IN /\ new.peers[n] = [name |-> old.peers[n].name, at |-> a]
                           /\ \/ a = old.peers[n].at
                              \/ Resolves(i, pod[i].tpl, pod[i].ip, svc, old.peers[n].at, a)
  BY <1>1, <1>2 DEF PodInv, PeersResolved
<1>6. new.name = old.name
  BY <1>4
<1>7. new # NoHAHooks
  BY <1>3, <1>6 DEF NoHAHooks
<1>8. KeaAccepts(pod[i].file)
  BY <1>1 DEF PodInv, Accepted
<1>9. Len(new.peers) = k
  BY <1>2, <1>4, FcnLen
<1>10. /\ \A n \in 1 .. k : new.peers[n].at[1] \in {"pod", "svc"}
       /\ \E n \in 1 .. k : new.peers[n].name = new.name
  BY <1>7, <1>8, <1>9 DEF KeaAccepts
<1>11. ASSUME NEW n \in 1 .. k
       PROVE  Resolves(i, pod[i].tpl, pod[i].ip, svc, old.peers[n].at, new.peers[n].at)
  <2>1. new.peers[n].at # old.peers[n].at
    BY <1>3, <1>10, HostIsNoAddress
  <2> QED
    BY <1>5, <2>1
<1>12. ASSUME NEW n \in 1 .. k PROVE new.peers[n].name = old.peers[n].name
  <2>1. PICK a : new.peers[n] = [name |-> old.peers[n].name, at |-> a]
    BY <1>5, Zenon
  <2> QED
    BY <2>1
<1> QED
  BY <1>2, <1>6, <1>9, <1>10, <1>11, <1>12 DEF AllResolved

\* An HA pod that runs knows itself by the name of its ordinal, at its own present
\* address, and every other peer at an address of its Service, for every spec whose
\* peers are named as the StatefulSet's pods are, and whatever was edited, renumbered
\* or restarted while the script ran.
THEOREM PeersReachable == Spec => []PeersAreReachable
<1>1. ASSUME IInv, NEW i \in Ordinals, IsRunning(i), pod[i].tpl.ha, Conventional(i)
      PROVE  LET peers == pod[i].file.ha.peers
             IN /\ i < Len(peers) /\ peers[i + 1].name = pod[i].file.ha.name
                /\ peers[i + 1].at = <<"pod", i, pod[i].ip>>
                /\ \A n \in (1 .. Len(peers)) \ {i + 1} :
                     \E v \in 1 .. svc[n - 1] : peers[n].at = <<"svc", n - 1, v>>
  <2> DEFINE hosts == pod[i].tpl.hosts
             old == pod[i].copied.ha
             new == pod[i].file.ha
  <2>1. PICK k \in Nat : k <= MaxReplicas /\ AllResolved(i, k)
    BY <1>1, AcceptedPeers
  <2>2. /\ new.name = old.name /\ Len(old.peers) = k /\ Len(new.peers) = k
        /\ \A n \in 1 .. k :
             /\ new.peers[n].name = old.peers[n].name
             /\ Resolves(i, pod[i].tpl, pod[i].ip, svc, old.peers[n].at, new.peers[n].at)
        /\ \E n \in 1 .. k : new.peers[n].name = new.name
    BY <2>1 DEF AllResolved
  <2>3. \A n \in 1 .. k :
          /\ old.peers[n].at = <<"sts", n - 1>>
          /\ <<"sts", n - 1>> \in DOMAIN hosts => hosts[<<"sts", n - 1>>] = n - 1
          /\ old.peers[n].name = old.name => n = i + 1
    BY <1>1, <2>2 DEF Conventional
  <2>4. i + 1 \in 1 .. k /\ new.peers[i + 1].name = new.name
    <3>1. PICK n \in 1 .. k : new.peers[n].name = new.name
      BY <2>2
    <3>2. old.peers[n].name = old.name
      BY <2>1, <2>2, <3>1
    <3>3. n = i + 1
      BY <2>3, <3>2
    <3> QED
      BY <3>1, <3>3
  <2>5. i \in Nat /\ MaxReplicas \in Nat
    BY ConstantsAssumption DEF Ordinals
  <2>6. i < k
    BY <2>4, <2>5
  <2>7. new.peers[i + 1].at = <<"pod", i, pod[i].ip>>
    <3>1. old.peers[i + 1].at = <<"sts", i>>
      <4>1. old.peers[i + 1].at = <<"sts", (i + 1) - 1>>
        BY <2>3, <2>4
      <4>2. (i + 1) - 1 = i
        BY <2>5
      <4> QED
        BY <4>1, <4>2
    <3>2. Resolves(i, pod[i].tpl, pod[i].ip, svc, <<"sts", i>>, new.peers[i + 1].at)
      BY <2>2, <2>4, <3>1
    <3> QED
      BY <3>2 DEF Resolves, IsThisServer
  <2>8. ASSUME NEW n \in (1 .. k) \ {i + 1}
        PROVE  \E v \in 1 .. svc[n - 1] : new.peers[n].at = <<"svc", n - 1, v>>
    <3> DEFINE h == <<"sts", n - 1>>
    <3>1. Resolves(i, pod[i].tpl, pod[i].ip, svc, h, new.peers[n].at)
      BY <2>2, <2>3
    <3>2. ~IsThisServer(h, i)
      BY <2>5 DEF IsThisServer
    <3>3. h \in DOMAIN hosts
      BY <3>1 DEF Resolves
    <3>4. hosts[h] = n - 1
      BY <2>3, <3>3
    <3>5. n - 1 \in Ordinals
      BY <2>1, <2>5 DEF Ordinals
    <3> HIDE DEF h
    <3> QED
      BY <3>1, <3>2, <3>4, <3>5 DEF Resolves
  <2> QED
    BY <2>2, <2>4, <2>6, <2>7, <2>8
<1>2. IInv => PeersAreReachable
  BY <1>1 DEF PeersAreReachable
<1> QED
  BY <1>2, InitInv, NextInv, PTL DEF Spec

----------------------------------------------------------------------------
\* Credentials

\* A database with a credentialsSecretRef has a variable for each part.
LEMMA DatabaseEnvVars ==
  ASSUME NEW prefix, NEW r
  PROVE  /\ \A e \in dbCredentialEnvVars(prefix, r) : e.name = <<prefix, e.key>> /\ e.ref = r
         /\ r # None => \A part \in Parts :
              \E e \in dbCredentialEnvVars(prefix, r) : e.name = <<prefix, part>>
<1>1. ASSUME NEW e \in dbCredentialEnvVars(prefix, r)
      PROVE  e.name = <<prefix, e.key>> /\ e.ref = r
  BY DEF dbCredentialEnvVars
<1>2. ASSUME r # None, NEW part \in Parts
      PROVE  \E e \in dbCredentialEnvVars(prefix, r) : e.name = <<prefix, part>>
  <2> DEFINE e == [name |-> <<prefix, part>>, ref |-> r, key |-> part]
  <2>1. e \in dbCredentialEnvVars(prefix, r)
    BY <1>2 DEF dbCredentialEnvVars
  <2>2. e.name = <<prefix, part>>
    OBVIOUS
  <2> QED
    BY <2>1, <2>2, Zenon
<1> QED
  BY <1>1, <1>2

\* The variables of a DHCP server and where each is from: the name tells.
LEMMA VariablesOf ==
  ASSUME NEW s \in Specs, s.kind = "dhcp4", NEW e \in EnvVars(s)
  PROVE  \/ e.name = <<<<"LEASE_DB", 0>>, e.key>> /\ e.ref = s.lease
         \/ e.name = <<<<"HOSTS_DB", 0>>, e.key>> /\ e.ref = s.hosts
         \/ \E j \in 1 .. Len(s.hostsDBs) :
              e.name = <<<<"HOSTS_DBS", j>>, e.key>> /\ e.ref = s.hostsDBs[j]
<1>1. KeyEnvVars(s) = {}
  <2>1. s.keys = <<>>
    BY ConstantsAssumption
  <2>2. Len(s.keys) = 0
    BY <2>1
  <2>3. 1 .. Len(s.keys) = {}
    BY <2>2
  <2> QED
    BY <2>3, Zenon DEF KeyEnvVars
<1>2. \/ e \in dbCredentialEnvVars(<<"LEASE_DB", 0>>, s.lease)
      \/ e \in dbCredentialEnvVars(<<"HOSTS_DB", 0>>, s.hosts)
      \/ \E j \in 1 .. Len(s.hostsDBs) : e \in dbCredentialEnvVars(<<"HOSTS_DBS", j>>, s.hostsDBs[j])
  BY <1>1, Zenon DEF EnvVars
<1>3. ASSUME NEW prefix, NEW r, e \in dbCredentialEnvVars(prefix, r)
      PROVE  e.name = <<prefix, e.key>> /\ e.ref = r
  BY <1>3, DatabaseEnvVars
<1> QED
  BY <1>2, <1>3

\* The credential at a place of the configuration is the one of the database there:
\* none, or the placeholder of a variable that takes it from the database's Secret.
CredentialIs(s, cred, r, part) ==
  IF r = None THEN cred = NoText
  ELSE \E name : /\ cred = Placeholder(name) /\ \E e \in EnvVars(s) : e.name = name
                 /\ \A e \in EnvVars(s) : e.name = name => e.ref = r /\ e.key = part

\* With a prefix of its own, a database gets its own variables.
LEMMA RenderedCredential ==
  ASSUME NEW s \in Specs, NEW prefix \in Prefixes, NEW r, NEW part \in Parts,
         dbCredentialEnvVars(prefix, r) \subseteq EnvVars(s),
         \A e \in EnvVars(s) : e.name = <<prefix, e.key>> => e.ref = r,
         \A e \in EnvVars(s) : \E pre : e.name = <<pre, e.key>>
  PROVE  CredentialIs(s, renderDatabaseConfig(IF r = None THEN None ELSE prefix, part), r, part)
<1>1. CASE r = None
  BY <1>1 DEF CredentialIs, renderDatabaseConfig
<1>2. CASE r # None
  <2> DEFINE name == <<prefix, part>>
  <2>1. prefix # None
    BY ConstantsAssumption
  <2>2. renderDatabaseConfig(IF r = None THEN None ELSE prefix, part) = Placeholder(name)
    BY <1>2, <2>1 DEF renderDatabaseConfig
  <2>3. \E e \in EnvVars(s) : e.name = name
    BY <1>2, DatabaseEnvVars
  <2>4. ASSUME NEW e \in EnvVars(s), e.name = name
        PROVE  e.ref = r /\ e.key = part
    <3>1. PICK pre : e.name = <<pre, e.key>>
      OBVIOUS
    <3>2. pre = prefix /\ e.key = part
      BY <2>4, <3>1
    <3> QED
      BY <3>1, <3>2
  <2> HIDE DEF name
  <2> QED
    BY <1>2, <2>2, <2>3, <2>4 DEF CredentialIs
<1> QED
  BY <1>1, <1>2

\* The places of the configuration of a DHCP server and what is rendered there.
LEMMA CredsOf ==
  ASSUME NEW s \in Specs, s.kind = "dhcp4", NEW f \in DOMAIN DatabaseCreds(s)
  PROVE  CredentialIs(s, DatabaseCreds(s)[f], RefAt(s, f[1]), f[2])
<1> DEFINE dbs == HostsDBsCreds(s)
           prefix(place) ==
             CASE place[1] = "lease-database" -> IF s.lease = None THEN None ELSE <<"LEASE_DB", 0>>
               [] place[1] = "hosts-database" -> IF s.hosts = None THEN None ELSE <<"HOSTS_DB", 0>>
               [] OTHER -> IF place[2] \in DOMAIN dbs THEN dbs[place[2]] ELSE None
           places == {<<"lease-database", 0>>, <<"hosts-database", 0>>}
                       \cup {<<"hosts-databases", j>> : j \in 1 .. Len(s.hostsDBs)}
<1>1. f \in places \X Parts /\ DatabaseCreds(s)[f] = renderDatabaseConfig(prefix(f[1]), f[2])
  BY DEF DatabaseCreds
<1>2. PICK place \in places, part \in Parts : f = <<place, part>>
  BY <1>1
<1>3. f[1] = place /\ f[2] = part
  BY <1>2
<1>4. \A e \in EnvVars(s) : \E pre : e.name = <<pre, e.key>>
  BY VariablesOf
<1>5. ASSUME NEW pre \in Prefixes, NEW r, prefix(place) = IF r = None THEN None ELSE pre,
             RefAt(s, place) = r, dbCredentialEnvVars(pre, r) \subseteq EnvVars(s),
             \A e \in EnvVars(s) : e.name = <<pre, e.key>> => e.ref = r
      PROVE  CredentialIs(s, DatabaseCreds(s)[f], RefAt(s, f[1]), f[2])
  <2> HIDE DEF prefix
  <2>1. CredentialIs(s, renderDatabaseConfig(IF r = None THEN None ELSE pre, part), r, part)
    BY <1>4, <1>5, RenderedCredential
  <2> QED
    BY <1>1, <1>3, <1>5, <2>1
<1>6. CASE place = <<"lease-database", 0>>
  <2>1. prefix(place) = (IF s.lease = None THEN None ELSE <<"LEASE_DB", 0>>) /\ RefAt(s, place) = s.lease
    BY <1>6 DEF RefAt
  <2>2. dbCredentialEnvVars(<<"LEASE_DB", 0>>, s.lease) \subseteq EnvVars(s)
    BY Zenon DEF EnvVars
  <2>3. \A e \in EnvVars(s) : e.name = <<<<"LEASE_DB", 0>>, e.key>> => e.ref = s.lease
    BY VariablesOf
  <2>4. <<"LEASE_DB", 0>> \in Prefixes
    BY DEF Prefixes
  <2> HIDE DEF prefix
  <2> QED
    BY <1>5, <2>1, <2>2, <2>3, <2>4
<1>7. CASE place = <<"hosts-database", 0>>
  <2>1. prefix(place) = (IF s.hosts = None THEN None ELSE <<"HOSTS_DB", 0>>) /\ RefAt(s, place) = s.hosts
    BY <1>7 DEF RefAt
  <2>2. dbCredentialEnvVars(<<"HOSTS_DB", 0>>, s.hosts) \subseteq EnvVars(s)
    BY Zenon DEF EnvVars
  <2>3. \A e \in EnvVars(s) : e.name = <<<<"HOSTS_DB", 0>>, e.key>> => e.ref = s.hosts
    BY VariablesOf
  <2>4. <<"HOSTS_DB", 0>> \in Prefixes
    BY DEF Prefixes
  <2> HIDE DEF prefix
  <2> QED
    BY <1>5, <2>1, <2>2, <2>3, <2>4
<1>8. ASSUME NEW j \in 1 .. Len(s.hostsDBs), place = <<"hosts-databases", j>>
      PROVE  CredentialIs(s, DatabaseCreds(s)[f], RefAt(s, f[1]), f[2])
  <2>0. s.hostsDBs \in Seq(Refs)
    BY ConstantsAssumption DEF SpecType
  <2>1. PICK r : r = s.hostsDBs[j]
    OBVIOUS
  <2>2. IF r = None THEN j \notin DOMAIN dbs \/ dbs[j] = None
        ELSE j \in DOMAIN dbs /\ dbs[j] = <<"HOSTS_DBS", j>>
    BY <2>0, <2>1 DEF HostsDBsCreds
  <2> HIDE DEF dbs
  <2>3. place[1] = "hosts-databases" /\ place[2] = j
    BY <1>8
  <2>4. prefix(place) = (IF r = None THEN None ELSE <<"HOSTS_DBS", j>>)
    BY <2>2, <2>3
  <2>5. RefAt(s, place) = r
    BY <2>1, <2>3 DEF RefAt
  <2>6. dbCredentialEnvVars(<<"HOSTS_DBS", j>>, r) \subseteq EnvVars(s)
    BY <2>1, Zenon DEF EnvVars
  <2>7. \A e \in EnvVars(s) : e.name = <<<<"HOSTS_DBS", j>>, e.key>> => e.ref = r
    BY <2>1, VariablesOf
  <2>8. <<"HOSTS_DBS", j>> \in Prefixes
    BY <2>0 DEF Prefixes
  <2> HIDE DEF prefix
  <2> QED
    BY <1>5, <2>4, <2>5, <2>6, <2>7, <2>8
<1> QED
  BY <1>6, <1>7, <1>8

\* A running HA pod of the current template is one of the present replicas, and the
\* annotation of its template has the present configuration of its ordinal.
LEMMA CurrentPod ==
  ASSUME IInv, NEW i \in Ordinals, IsCurrent(i), pod[i].tpl.ha
  PROVE  /\ spec \in Specs /\ HAEnabled(spec) /\ spec.kind = "dhcp4" /\ PodInv(i) /\ InitBegun(i)
         /\ i < spec.replicas /\ pod[i].tpl = Template(spec)
         /\ pod[i].tpl.hash[i + 1] = ConfigMap(spec, i)
<1>1. spec \in Specs /\ PodInv(i) /\ InitBegun(i) /\ pod[i].phase # "none"
  BY DEF IInv, AroundOK, IsCurrent, IsRunning, InitBegun
<1>2. pod[i].tpl = Template(spec)
  BY <1>1 DEF IsCurrent, Templates
<1>3. HAEnabled(spec) /\ spec.kind = "dhcp4"
  BY <1>1 DEF PodInv, PodOK, HasTemplate, HAEnabled
<1>4. PICK s \in Specs : pod[i].tpl = Template(s) /\ i < s.replicas
  BY <1>1 DEF PodInv, PodOK, HasTemplate
<1>5. HAEnabled(s)
  BY <1>4 DEF Template
<1>6. /\ s.replicas \in Nat /\ DOMAIN Template(s).hash = 1 .. s.replicas
      /\ spec.replicas \in Nat /\ DOMAIN Template(spec).hash = 1 .. spec.replicas
  BY <1>1, <1>3, <1>5, TemplateOf
<1>7. 1 .. s.replicas = 1 .. spec.replicas
  BY <1>2, <1>4, <1>6
<1>8. i < spec.replicas
  <2>1. i \in Nat /\ i + 1 \in 1 .. s.replicas
    BY <1>4, <1>6 DEF Ordinals
  <2>2. i + 1 \in 1 .. spec.replicas
    BY <1>7, <2>1
  <2> QED
    BY <1>6, <2>1, <2>2
<1>9. Template(spec).hash[i + 1] = ConfigMap(spec, i)
  BY <1>1, <1>3, <1>8, TemplateOf
<1> QED
  BY <1>1, <1>2, <1>3, <1>8, <1>9

\* An expanded credential is the one the database refers to.
LEMMA ExpandedCredential ==
  ASSUME NEW i \in Ordinals, NEW s \in Specs, pod[i].tpl.env = EnvVars(s), NEW r, NEW part,
         NEW old, CredentialIs(s, old, r, part), NEW new, Expands(i, old, new)
  PROVE  IF r = None THEN new = NoText ELSE \E v \in 1 .. secret[r] : new = Value(r, part, v)
<1>1. CASE r = None
  <2>1. old = NoText
    BY <1>1 DEF CredentialIs
  <2>2. ASSUME NEW name PROVE NoText # Placeholder(name)
    BY DEF NoText, Placeholder
  <2>3. new = old
    BY <2>1, <2>2 DEF Expands
  <2> QED
    BY <1>1, <2>1, <2>3
<1>2. CASE r # None
  <2>1. PICK name : /\ old = Placeholder(name) /\ \E e \in EnvVars(s) : e.name = name
                    /\ \A e \in EnvVars(s) : e.name = name => e.ref = r /\ e.key = part
    BY <1>2 DEF CredentialIs
  <2>2. PICK e \in EnvVars(s) : old = Placeholder(e.name) /\ Gives(e, new)
    BY <2>1 DEF Expands
  <2>3. e.name = name
    BY <2>1, <2>2 DEF Placeholder
  <2>4. e.ref = r /\ e.key = part
    BY <2>1, <2>3
  <2> QED
    BY <1>2, <2>2, <2>4 DEF Gives
<1> QED
  BY <1>1, <1>2

\* An HA pod that runs the current configuration has, in the place of every database's
\* credentials, what that database's own Secret has held, whichever of the databases
\* have a Secret, and nothing where there is none: no placeholder is left and none is
\* expanded with another entry's value.
THEOREM CredentialsInPlace == Spec => []HACredentialsExpanded
<1>1. ASSUME IInv, NEW i \in Ordinals, IsCurrent(i), HasOwnConfig(i), pod[i].tpl.ha
      PROVE  HasCredentials(i)
  <2> DEFINE old == pod[i].copied.creds
             new == pod[i].file.creds
  <2>1. /\ spec \in Specs /\ HAEnabled(spec) /\ spec.kind = "dhcp4" /\ PodInv(i) /\ InitBegun(i)
        /\ pod[i].tpl = Template(spec) /\ pod[i].tpl.hash[i + 1] = ConfigMap(spec, i)
    BY <1>1, CurrentPod
  <2>2. old = DatabaseCreds(spec)
    <3>1. pod[i].copied = ConfigMap(spec, i)
      BY <1>1, <2>1 DEF HasOwnConfig
    <3>2. ConfigMap(spec, i).creds = DatabaseCreds(spec)
      <4>1. ConfigMap(spec, i) = [creds |-> DatabaseCreds(spec),
                                  ha |-> [name |-> ServerName(spec, i), peers |-> fillPeerURLs(spec)],
                                  rest |-> renderRest(spec.rest)]
        BY <2>1, ConfigOf
      <4> QED
        BY <4>1
    <3> QED
      BY <3>1, <3>2
  <2>3. pod[i].tpl.env = EnvVars(spec)
    BY <2>1, TemplateOf
  <2>4. DOMAIN new = DOMAIN old /\ \A f \in DOMAIN old : Expands(i, old[f], new[f])
    BY <1>1, <2>1 DEF PodInv, CredsExpanded, IsCurrent, IsRunning
  <2>5. ASSUME NEW f \in DOMAIN old
        PROVE  LET ref == RefAt(spec, f[1])
               IN IF ref = None THEN new[f] = NoText
                  ELSE \E v \in 1 .. secret[ref] : new[f] = Value(ref, f[2], v)
    <3>1. CredentialIs(spec, old[f], RefAt(spec, f[1]), f[2])
      BY <2>1, <2>2, CredsOf
    <3>2. Expands(i, old[f], new[f])
      BY <2>4
    <3> HIDE DEF old, new
    <3> QED
      BY <2>1, <2>3, <3>1, <3>2, ExpandedCredential
  <2> QED
    BY <2>4, <2>5 DEF HasCredentials
<1>2. IInv => HACredentialsExpanded
  BY <1>1 DEF HACredentialsExpanded
<1> QED
  BY <1>2, InitInv, NextInv, PTL DEF Spec

----------------------------------------------------------------------------
\* Addresses on the secondary network

\* The address that the status reports for an HA pod, computed in bytes, is the one
\* the shell of the pod computes: the two agree for every subnet and every number of
\* replicas it has room for.
THEOREM AddressReported == Spec => []ReportedAddressIsAssigned
<1>1. ASSUME IInv, NEW i \in Ordinals, IsCurrent(i), pod[i].tpl.ha, spec.nadInterface,
             spec.subnet # None, \A n \in 1 .. Len(spec.peers) : spec.peers[n].address = None,
             spec.subnet + spec.replicas + 1 <= 255
      PROVE  pod[i].nad = computeNADAddresses(spec)[i + 1]
  <2> DEFINE t == pod[i].tpl
             base == spec.subnet
             k == spec.replicas
  <2>1. spec \in Specs /\ HAEnabled(spec) /\ PodInv(i) /\ i < k /\ t = Template(spec)
    BY <1>1, CurrentPod
  <2>2. base \in 0 .. 255 /\ k \in Nat /\ i \in Nat
    BY <1>1, <2>1, ConstantsAssumption DEF SpecType, Ordinals
  <2>3. t.nad = <<spec.nadInterface, base>> /\ t.static = PeerAddresses(spec)
    BY <2>1, TemplateOf
  <2>4. i < Len(t.static) => t.static[i + 1] = None
    <3>1. t.static = [n \in 1 .. Len(spec.peers) |-> spec.peers[n].address]
      BY <2>1, <2>3 DEF PeerAddresses
    <3>2. Len(spec.peers) \in 0 .. MaxReplicas /\ MaxReplicas \in Nat
      BY <2>1, ConstantsAssumption, PeersOf, Zenon
    <3> DEFINE m == Len(spec.peers)
               st == t.static
    <3>3. DOMAIN st = 1 .. m /\ st = [n \in 1 .. m |-> st[n]] /\ \A n \in 1 .. m : st[n] = None
      BY <1>1, <3>1
    <3> HIDE DEF m, st
    <3>4. m \in Nat
      BY <3>2 DEF m
    <3>5. Len(st) = m
      BY <3>3, <3>4, FcnLen
    <3>6. i < Len(st) => i + 1 \in 1 .. m
      BY <2>2, <3>4, <3>5
    <3>7. i < Len(st) => st[i + 1] = None
      BY <3>3, <3>6
    <3> QED
      BY <3>7 DEF st
  <2>5. pod[i].nad = AssignedAddress(t, i)
    BY <1>1, <2>1 DEF PodInv, Accepted, IsCurrent
  <2>6. AssignedAddress(t, i) = ShellAddress(base, i + 2)
    BY <1>1, <2>3, <2>4 DEF AssignedAddress
  <2>7. computeNADAddresses(spec)[i + 1] = (base + (i + 1) + 1) % 256
    <3>1. i + 1 \in 1 .. k
      BY <2>1, <2>2
    <3> QED
      BY <1>1, <3>1 DEF computeNADAddresses
  <2>8. base + (i + 2) <= 255 /\ base + (i + 1) + 1 = base + (i + 2)
    <3>1. base + k + 1 <= 255 /\ i < k
      BY <1>1, <2>1
    <3> HIDE DEF base, k
    <3> QED
      BY <2>2, <3>1
  <2> HIDE DEF t, base, k
  <2>9. ShellAddress(base, i + 2) = base + (i + 2)
    BY <2>2, <2>8 DEF ShellAddress
  <2>10. (base + (i + 1) + 1) % 256 = base + (i + 2)
    BY <2>2, <2>8
  <2> QED
    BY <2>5, <2>6, <2>7, <2>9, <2>10
<1>2. IInv => ReportedAddressIsAssigned
  BY <1>1 DEF ReportedAddressIsAssigned
<1> QED
  BY <1>2, InitInv, NextInv, PTL DEF Spec
============================================================================
