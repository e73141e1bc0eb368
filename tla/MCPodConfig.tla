---------------------------- MODULE MCPodConfig ----------------------------
(***************************************************************************)
(* Instances of PodConfig for TLC: HA specs that differ in what the init   *)
(* script, the credentials and the addresses depend on, and Deployments of *)
(* all four kinds.                                                         *)
(***************************************************************************)
EXTENDS PodConfig

CONSTANTS MCEdit, MCLose, MCRestart, MCRenumber, MCSecret, MCAny, SecretA, SecretB

MCBudget ==
  [e \in Events |->
     CASE e = "edit" -> MCEdit [] e = "lose" -> MCLose [] e = "restart" -> MCRestart
       [] e = "renumber" -> MCRenumber [] e = "secret" -> MCSecret [] e = "any" -> MCAny]

MCSecrets == {SecretA, SecretB}
MCMissing == {SecretA}

Unset == [optional |-> None, text |-> 0, list |-> 0]
Written == [optional |-> 0, text |-> 1, list |-> 1]

Plain(kind) ==
  [kind |-> kind, replicas |-> 1, ha |-> FALSE, peers |-> <<>>, thisServerName |-> 1,
   lease |-> None, hosts |-> None, hostsDBs |-> <<>>, keys |-> <<>>, nadInterface |-> FALSE,
   subnet |-> None, rest |-> Unset]

Peer(n) == [name |-> n, host |-> None, address |-> None]
HA == [Plain("dhcp4") EXCEPT !.ha = TRUE, !.replicas = 2, !.peers = <<Peer(1), Peer(2)>>]

HASpecs ==
  { [HA EXCEPT !.lease = SecretA, !.hostsDBs = <<None, SecretB>>, !.peers[1].host = <<"sts", 0>>],
    [HA EXCEPT !.lease = SecretB, !.peers = <<Peer(2), Peer(1)>>, !.nadInterface = TRUE,
               !.subnet = 252, !.rest = Written],
    [HA EXCEPT !.replicas = 1, !.nadInterface = TRUE, !.subnet = 253,
               !.peers = <<[name |-> 1, host |-> <<"custom", 0>>, address |-> 7]>>] }

DeploymentSpecs ==
  { Plain("dhcp4"),
    [Plain("dhcp4") EXCEPT !.hosts = SecretA, !.replicas = 2],
    [Plain("dhcp4") EXCEPT !.nadInterface = TRUE, !.subnet = 0],
    [Plain("dhcp4") EXCEPT !.nadInterface = TRUE, !.subnet = 0, !.lease = SecretA],
    [Plain("dhcp6") EXCEPT !.lease = SecretA],
    [Plain("dhcp6") EXCEPT !.ha = TRUE, !.peers = <<Peer(1), Peer(2)>>],
    [Plain("ddns") EXCEPT !.keys = <<[name |-> 1, ref |-> SecretA], [name |-> 2, ref |-> None]>>],
    [Plain("ddns") EXCEPT !.keys = <<[name |-> 1, ref |-> SecretA]>>, !.rest = Written],
    Plain("ctrl-agent"), [Plain("ctrl-agent") EXCEPT !.rest = Written],
    [Plain("ctrl-agent") EXCEPT !.keys = <<[name |-> 1, ref |-> SecretA], [name |-> 1, ref |-> SecretB]>>] }

MCSpecs == HASpecs \cup DeploymentSpecs
============================================================================
