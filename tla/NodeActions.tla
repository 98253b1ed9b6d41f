----------------------------- MODULE NodeActions -----------------------------
(***************************************************************************)
(* What create.Cluster does to the node containers once they exist: the    *)
(* actions loadbalancer, config, kubeadminit, installcni, installstorage,  *)
(* kubeadmjoin and waitforready, over the nodes the action context lists   *)
(* once and keeps.                                                         *)
(*                                                                         *)
(* Files are written and workers join in goroutines of                     *)
(* errors.UntilErrorConcurrent, which go on after main has seen an error.  *)
(* kubeadm, kubectl and the kubelets are external.                         *)
(***************************************************************************)
EXTENDS KindConfig, Version

CONSTANTS RawConfigs   \* configurations as the user may write them

(* Of the Kubernetes version that the node image has: its number, and the  *)
(* labels and taints that its kubeadm puts on a control plane.             *)
KubeRelease ==
    [version : [components : Seq(Nat), semver : BOOLEAN,
                pre : Seq([num : BOOLEAN, at : Nat])],
     labels : SUBSET {"master", "control-plane"},
     taints : SUBSET {"master", "control-plane"}]

RawConfig ==
    [name : {"kind", "invalid"}, nodes : Seq(Role), family : Family \union {""},
     pods : Seq({"4", "6", "bad"}), services : Seq({"4", "6", "bad"}),
     proxy : {"", "iptables", "ipvs", "none", "other"},
     port : Int, mappings : SUBSET Int, disableCNI : BOOLEAN, patches : BOOLEAN,
     wait : BOOLEAN, kube : KubeRelease]

(* NameBefore is the order of names for numbers of two digits.             *)
ASSUME RawConfigsAssumption ==
    \A raw \in RawConfigs : raw \in RawConfig /\ Len(raw.nodes) < 100

VARIABLES
    cfg,      \* the configuration, with its defaults
    order,    \* the order in which docker lists the nodes
    cache,    \* the nodes the action context has listed, <<>> before
    pc,       \* where main is
    todo,     \* nodes a loop of main has still to visit
    gor,      \* the goroutine of each node
    errCh,    \* results sent and not yet received
    pending,  \* results main has still to receive
    conf,     \* /kind/kubeadm.conf of each node
    runtime,  \* the containerd of each node: its configuration, restarted or not
    files,    \* files copied from the bootstrap node: "none", "part", "all"
    member,   \* is the node in the cluster: "no", "joining", "yes"
    taints,   \* taints of the first control plane
    backends, \* servers in the load balancer's configuration
    cni, storage,
    ready,    \* nodes whose kubelet reports Ready
    report    \* what waitforready has told the user

control == <<cfg, order, cache, pc, todo>>
threads == <<gor, errCh, pending>>
world   == <<conf, runtime, files, member, taints, backends, cni, storage, ready, report>>
vars    == <<control, threads, world>>

-----------------------------------------------------------------------------
ListNodes == order

All == Range(order)

(* The node list of the context, from docker the first time.               *)
Nodes == IF cache = <<>> THEN ListNodes ELSE cache

Keep == cache' = Nodes

NoConf == [plane |-> FALSE, endpoint |-> NoEndpoint, addresses |-> <<>>]

Init ==
    \E raw \in RawConfigs :
      /\ cfg = SetDefaultsCluster(raw)
      /\ order \in SetToSeqs(PlanCreation(cfg))
      /\ cache = <<>> /\ pc = "validate" /\ todo = {}
      /\ gor = [n \in All |-> "none"] /\ errCh = <<>> /\ pending = 0
      /\ conf = [n \in All |-> NoConf]
      /\ runtime = [n \in All |-> "default"]
      /\ files = [n \in All |-> "none"]
      /\ member = [n \in All |-> "no"]
      /\ taints = {} /\ backends = {}
      /\ cni = FALSE /\ storage = "none" /\ ready = {} /\ report = "none"

-----------------------------------------------------------------------------
(* The actions to run, as positions of main.                               *)
JoinAfterWait == <<"loadbalancer", "config", "init", "cni", "storage", "wait", "join">>

Actions == <<"loadbalancer", "config", "init", "cni", "storage", "join", "wait">>

Following(a) ==
    LET i == CHOOSE i \in DOMAIN Actions : Actions[i] = a
        s == IF i = Len(Actions) THEN "success" ELSE Actions[i + 1]
    IN  IF s = "cni" /\ cfg.disableCNI THEN "storage" ELSE s

(* An action returns its error; what create.Cluster does then is in        *)
(* LocalCluster.  The goroutines go on until the process ends.             *)
ReturnError == pc' = "failed"

ValidateConfig ==
    /\ pc = "validate"
    /\ IF Validate(cfg) THEN pc' = Actions[1] ELSE pc' = "rejected"
    /\ UNCHANGED <<cfg, order, cache, todo, threads, world>>

(* A command, a template or a call of docker fails before it has changed   *)
(* anything.                                                               *)
StepFails ==
    /\ pc \in {"loadbalancer", "config", "init", "copy", "untaint", "cni",
               "storage", "join", "join_next", "wait"}
    /\ ReturnError
    /\ UNCHANGED <<cfg, order, cache, todo, threads, world>>

-----------------------------------------------------------------------------
ConfigureLoadBalancer ==
    /\ pc = "loadbalancer"
    /\ Keep
    /\ LET balancers == SelectNodesByRole(Nodes, ExternalLoadBalancer)
       IN  IF balancers = {} THEN UNCHANGED backends
           ELSE backends' = SelectNodesByRole(Nodes, ControlPlane)
    /\ pc' = Following("loadbalancer")
    /\ UNCHANGED <<cfg, order, todo, threads>>
    /\ UNCHANGED <<conf, runtime, files, member, taints, cni, storage, ready, report>>

OneResultTooMany(nodes, l) ==
    /\ gor' = [n \in All |-> IF n \in nodes THEN l ELSE gor[n]]
    /\ pending' = Cardinality(nodes) + 1
    /\ errCh' = <<>>

(* UntilErrorConcurrent starts a goroutine for each of the nodes.          *)
Spawn(nodes, l) ==
    /\ gor' = [n \in All |-> IF n \in nodes THEN l ELSE gor[n]]
    /\ pending' = Cardinality(nodes)
    /\ errCh' = <<>>

(* The place of a node in the configuration: the last one whose name is    *)
(* the end of the node's.                                                  *)
MatchingNode(n) ==
    LET match == {i \in DOMAIN cfg.nodes : MakeNodeNamer(cfg, i) = n}
    IN  IF match = {} THEN 0 ELSE Max(match)

(* The primary service subnet decides the order of the two addresses.      *)
NodeAddresses ==
    CASE cfg.family = "ipv6" -> <<"6">>
      [] cfg.family = "dual" -> IF cfg.services[1] = "4" THEN <<"4", "6">> ELSE <<"6", "4">>
      [] OTHER -> <<"4">>

KubeadmConfig(n) ==
    [plane     |-> cfg.nodes[MatchingNode(n)] = ControlPlane,
     endpoint  |-> APIServerEndpointNode(ListNodes),
     addresses |-> NodeAddresses]

WriteConfig ==
    /\ pc = "config"
    /\ Keep
    /\ APIServerEndpointNode(ListNodes) # NoEndpoint
    /\ Spawn(InternalNodes(Nodes), "kubeadm")
    /\ pc' = "config_wait"
    /\ UNCHANGED <<cfg, order, todo, world>>

Send(n, err) ==
    /\ gor' = [gor EXCEPT ![n] = "none"]
    /\ errCh' = Append(errCh, err)
    /\ UNCHANGED <<pending, control>>

WriteKubeadmConfig(n) ==
    /\ gor[n] = "kubeadm"
    /\ MatchingNode(n) # 0
    /\ conf' = [conf EXCEPT ![n] = KubeadmConfig(n)]
    /\ Send(n, "nil")
    /\ UNCHANGED <<runtime, files, member, taints, backends, cni, storage, ready, report>>

(* The patched containerd configuration is written, then containerd starts *)
(* again with it.                                                          *)
PatchContainerd(n) ==
    /\ gor[n] = "patch"
    /\ runtime' = [runtime EXCEPT ![n] = "written"]
    /\ gor' = [gor EXCEPT ![n] = "restart"]
    /\ UNCHANGED <<control, errCh, pending>>
    /\ UNCHANGED <<conf, files, member, taints, backends, cni, storage, ready, report>>

RestartContainerd(n) ==
    /\ gor[n] = "restart"
    /\ runtime' = [runtime EXCEPT ![n] = "patched"]
    /\ Send(n, "nil")
    /\ UNCHANGED <<conf, files, member, taints, backends, cni, storage, ready, report>>

(* A goroutine fails; a worker that fails to join may be half in.          *)
GoroutineFails(n) ==
    /\ gor[n] # "none"
    /\ Send(n, "error")
    /\ UNCHANGED world

(* Main receives the results until one is an error.                        *)
FirstResultIsEnough(next) ==
    /\ errCh # <<>>
    /\ errCh' = Tail(errCh)
    /\ pending' = pending - 1
    /\ IF Head(errCh) = "nil" THEN pc' = next ELSE ReturnError
    /\ UNCHANGED <<cfg, order, cache, todo, gor, world>>

Receive(next) ==
    /\ errCh # <<>>
    /\ errCh' = Tail(errCh)
    /\ pending' = pending - 1
    /\ IF Head(errCh) # "nil" THEN ReturnError
       ELSE pc' = IF pending = 1 THEN next ELSE pc
    /\ UNCHANGED <<cfg, order, cache, todo, gor, world>>

ReceiveConfig ==
    /\ pc = "config_wait"
    /\ Receive(IF cfg.patches THEN "patch" ELSE Following("config"))

PatchAll ==
    /\ pc = "patch"
    /\ Spawn(InternalNodes(Nodes), "patch")
    /\ pc' = "patch_wait"
    /\ UNCHANGED <<cfg, order, cache, todo, world>>

ReceivePatched ==
    /\ pc = "patch_wait"
    /\ Receive(Following("config"))

-----------------------------------------------------------------------------
(* kubeadm init on the bootstrap node: certificates, admin.conf, taints.   *)
KubeadmInit ==
    /\ pc = "init"
    /\ Keep
    /\ LET b == BootstrapControlPlaneNode(Nodes)
       IN  /\ member' = [member EXCEPT ![b] = "yes"]
           /\ files' = [files EXCEPT ![b] = "all"]
    /\ taints' = cfg.kube.taints
    /\ todo' = SecondaryControlPlaneNodes(Nodes)
    /\ pc' = "copy"
    /\ UNCHANGED <<cfg, order, threads>>
    /\ UNCHANGED <<conf, runtime, backends, cni, storage, ready, report>>

(* admin.conf and the certificates, in this order, for each other control  *)
(* plane.                                                                  *)
CopyToSecondary ==
    /\ pc = "copy" /\ todo # {}
    /\ LET n == First(todo)
       IN  \/ /\ files[n] = "none"
              /\ files' = [files EXCEPT ![n] = "part"]
              /\ UNCHANGED todo
           \/ /\ files[n] # "none"
              /\ files' = [files EXCEPT ![n] = "all"]
              /\ todo' = todo \ {n}
    /\ UNCHANGED <<cfg, order, cache, pc, threads>>
    /\ UNCHANGED <<conf, runtime, member, taints, backends, cni, storage, ready, report>>

CopyDone ==
    /\ pc = "copy" /\ todo = {}
    /\ pc' = IF Len(Nodes) = 1 THEN "untaint" ELSE Following("init")
    /\ UNCHANGED <<cfg, order, cache, todo, threads, world>>

NewTaints == Semantic(<<1, 24, 0>>, <<Alpha, Num(1), Num(592)>>)

OnlyNewTaint == Semantic(<<1, 25, 0>>, <<Alpha, Num(0), Num(557)>>)

TaintsToRemoveByRelease ==
    IF LessThan(cfg.kube.version, Semantic(<<1, 24, 0>>, <<>>)) THEN {"master"}
    ELSE IF LessThan(cfg.kube.version, Semantic(<<1, 25, 0>>, <<>>)) THEN {"control-plane", "master"}
    ELSE {"control-plane"}

TaintsToRemove ==
    IF LessThan(cfg.kube.version, NewTaints) THEN {"master"}
    ELSE IF LessThan(cfg.kube.version, OnlyNewTaint) THEN {"control-plane", "master"}
    ELSE {"control-plane"}

(* kubectl refuses to remove a taint that is not there.                    *)
RemoveTaints ==
    /\ pc = "untaint"
    /\ TaintsToRemove \subseteq taints
    /\ taints' = taints \ TaintsToRemove
    /\ pc' = Following("init")
    /\ UNCHANGED <<cfg, order, cache, todo, threads>>
    /\ UNCHANGED <<conf, runtime, files, member, backends, cni, storage, ready, report>>

InstallCNI ==
    /\ pc = "cni"
    /\ Keep
    /\ cni' = TRUE
    /\ pc' = Following("cni")
    /\ UNCHANGED <<cfg, order, todo, threads>>
    /\ UNCHANGED <<conf, runtime, files, member, taints, backends, storage, ready, report>>

(* A node without a manifest gets the old host-path class.                 *)
InstallStorage ==
    /\ pc = "storage"
    /\ Keep
    /\ storage' \in {"manifest", "host-path"}
    /\ pc' = Following("storage")
    /\ UNCHANGED <<cfg, order, todo, threads>>
    /\ UNCHANGED <<conf, runtime, files, member, taints, backends, cni, ready, report>>

-----------------------------------------------------------------------------
(* The other control planes join one after another, then the workers.      *)
JoinBegin ==
    /\ pc = "join"
    /\ Keep
    /\ todo' = SecondaryControlPlaneNodes(Nodes)
    /\ pc' = "join_next"
    /\ UNCHANGED <<cfg, order, threads, world>>

JoinSecondary ==
    /\ pc = "join_next" /\ todo # {}
    /\ member' = [member EXCEPT ![First(todo)] = "yes"]
    /\ todo' = todo \ {First(todo)}
    /\ UNCHANGED <<cfg, order, cache, pc, threads>>
    /\ UNCHANGED <<conf, runtime, files, taints, backends, cni, storage, ready, report>>

JoinWorkers ==
    /\ pc = "join_next" /\ todo = {}
    /\ LET workers == SelectNodesByRole(Nodes, Worker)
       IN  IF workers = {}
           THEN pc' = Following("join") /\ UNCHANGED threads
           ELSE Spawn(workers, "join") /\ pc' = "join_wait"
    /\ UNCHANGED <<cfg, order, cache, todo, world>>

StartJoin(n) ==
    /\ gor[n] = "join"
    /\ gor' = [gor EXCEPT ![n] = "joining"]
    /\ member' = [member EXCEPT ![n] = "joining"]
    /\ UNCHANGED <<control, errCh, pending>>
    /\ UNCHANGED <<conf, runtime, files, taints, backends, cni, storage, ready, report>>

FinishJoin(n) ==
    /\ gor[n] = "joining"
    /\ member' = [member EXCEPT ![n] = "yes"]
    /\ Send(n, "nil")
    /\ UNCHANGED <<conf, runtime, files, taints, backends, cni, storage, ready, report>>

ReceiveJoined ==
    /\ pc = "join_wait"
    /\ Receive(Following("join"))

-----------------------------------------------------------------------------
NewLabel == Semantic(<<1, 24, 0>>, <<Alpha, Num(1), Num(591)>>)

SelectorLabel ==
    IF LessThan(cfg.kube.version, NewLabel) THEN "master" ELSE "control-plane"

WaitBegin ==
    /\ pc = "wait"
    /\ Keep
    /\ pc' = IF cfg.wait THEN "poll" ELSE Following("wait")
    /\ UNCHANGED <<cfg, order, todo, threads, world>>

(* The nodes `kubectl get nodes --selector` answers.  With none of them    *)
(* the answer is a pair of quotes, which is not "True".                    *)
Selected ==
    {n \in All : /\ n.role = ControlPlane
                 /\ member[n] = "yes"
                 /\ SelectorLabel \in cfg.kube.labels}

Poll ==
    /\ pc = "poll"
    /\ Selected # {} /\ Selected \subseteq ready
    /\ report' = "ready"
    /\ pc' = Following("wait")
    /\ UNCHANGED <<cfg, order, cache, todo, threads>>
    /\ UNCHANGED <<conf, runtime, files, member, taints, backends, cni, storage, ready>>

PollsForever ==
    /\ pc = "poll"
    /\ UNCHANGED vars

(* A wait that times out is a warning.                                     *)
WaitTimesOut ==
    /\ pc = "poll"
    /\ report' = "timeout"
    /\ pc' = Following("wait")
    /\ UNCHANGED <<cfg, order, cache, todo, threads>>
    /\ UNCHANGED <<conf, runtime, files, member, taints, backends, cni, storage, ready>>

(* The kubelet of a member reports Ready once there is a network plugin,   *)
(* kind's or the user's.                                                   *)
BecomesReady(n) ==
    /\ n \notin ready
    /\ member[n] = "yes"
    /\ cni \/ cfg.disableCNI
    /\ ready' = ready \union {n}
    /\ UNCHANGED <<control, threads>>
    /\ UNCHANGED <<conf, runtime, files, member, taints, backends, cni, storage, report>>

-----------------------------------------------------------------------------
MainStep ==
    \/ ValidateConfig
    \/ ConfigureLoadBalancer
    \/ WriteConfig \/ ReceiveConfig \/ PatchAll \/ ReceivePatched
    \/ KubeadmInit \/ CopyToSecondary \/ CopyDone \/ RemoveTaints
    \/ InstallCNI \/ InstallStorage
    \/ JoinBegin \/ JoinSecondary \/ JoinWorkers \/ ReceiveJoined
    \/ WaitBegin \/ Poll \/ WaitTimesOut
    \/ StepFails

GoroutineStep(n) ==
    \/ WriteKubeadmConfig(n) \/ PatchContainerd(n) \/ RestartContainerd(n)
    \/ StartJoin(n) \/ FinishJoin(n)
    \/ GoroutineFails(n)

Next ==
    \/ MainStep
    \/ \E n \in All : GoroutineStep(n) \/ BecomesReady(n)

Spec == Init /\ [][Next]_vars

Returned == pc \in {"success", "failed", "rejected"}

(* Commands return, and the deadline of the wait passes.                   *)
FairSpec == Spec /\ WF_vars(MainStep) /\ WF_vars(\E n \in All : GoroutineStep(n))

-----------------------------------------------------------------------------
(* The variables stay within their domains.                                *)
TypeOK ==
    /\ All = PlanCreation(cfg)
    /\ cache \in {<<>>, order}
    /\ todo \subseteq All
    /\ gor \in [All -> {"none", "kubeadm", "patch", "restart", "join", "joining"}]
    /\ errCh \in Seq({"nil", "error"}) /\ pending \in 0..Cardinality(All)
    /\ DOMAIN conf = All
    /\ runtime \in [All -> {"default", "written", "patched"}]
    /\ files \in [All -> {"none", "part", "all"}]
    /\ member \in [All -> {"no", "joining", "yes"}]
    /\ taints \subseteq {"master", "control-plane"}
    /\ backends \subseteq All /\ ready \subseteq All
    /\ report \in {"none", "ready", "timeout"}

(***************************************************************************)
(* Whatever the order in which docker lists the nodes and goroutines end,  *)
(* a node that enters the cluster has a kubeadm.conf for its own role that *)
(* names the one endpoint, whose first address is of the family of the     *)
(* primary service subnet, its containerd runs the patched configuration,  *)
(* and a control plane has all the certificates.                           *)
(***************************************************************************)
NodesAreProvisioned ==
    \A n \in All : member[n] # "no" =>
        /\ conf[n].plane = (n.role = ControlPlane)
        /\ conf[n].endpoint # NoEndpoint
        /\ conf[n].endpoint = APIServerEndpointNode(order)
        /\ Head(conf[n].addresses) = Head(cfg.services)
        /\ cfg.patches => runtime[n] = "patched"
        /\ n.role = ControlPlane => files[n] = "all"

(***************************************************************************)
(* The control plane that installcni, installstorage and waitforready take *)
(* for their kubectl is the one kubeadm init ran on, whatever the list's   *)
(* order, and the endpoint in its admin.conf leads to it.                  *)
(***************************************************************************)
KubectlFindsServer ==
    pc \in {"cni", "storage", "poll"} =>
        LET n == First(ControlPlaneNodes(Nodes))
            e == APIServerEndpointNode(order)
        IN  /\ member[n] = "yes" /\ files[n] = "all"
            /\ e = n \/ (e.role = ExternalLoadBalancer /\ n \in backends)

(* waitforready says Ready only when every control plane of the            *)
(* configuration is, whichever label the Kubernetes version puts on them.  *)
ReadyIsTrue ==
    report = "ready" => \A n \in All : n.role = ControlPlane => n \in ready

(* On a cluster of one node, the taints kind removes for a version are     *)
(* those kubeadm of that version set: no more, which kubectl refuses, and  *)
(* no fewer, which leaves nowhere for pods to run.                         *)
TaintsMatch == pc = "untaint" => TaintsToRemove = taints

(* The actions come to an end: no goroutine's result is waited for in      *)
(* vain, and the wait for Ready has a deadline.                            *)
ActionsReturn == <>Returned

=============================================================================
