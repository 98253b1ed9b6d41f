---------------------------- MODULE CreateWorker ----------------------------
(***************************************************************************)
(* The createworker action: it turns the local cluster into a manager,     *)
(* creates the workload cluster in the cloud through it, furnishes the     *)
(* workload cluster, and moves the management there                        *)
(* (pkg/cluster/internal/create/actions/createworker), followed by what    *)
(* create.Cluster does with the local cluster.                             *)
(*                                                                         *)
(* Execute is a list of steps; each runs one or more shell commands in the *)
(* node with commons.ExecuteCommand.  A command succeeds, or fails and has *)
(* done nothing, or fails and has done its work (its answer was lost).     *)
(* When the output looks like a lost connection or a timeout it is run     *)
(* again, up to three times, from wherever the first attempt got to; the   *)
(* last failure ends Execute.  The operators and Cluster API controllers   *)
(* of the two clusters run all the while.                                  *)
(***************************************************************************)
EXTENDS Charts, Sequences

CONSTANT Descriptors   \* the descriptors and flags considered

Infra == {"aws", "azure", "gcp"}

Flag == {"none", "retain", "keep-mgmt", "avoid-creation"}

Descriptor ==
    [infra : Infra, managed : BOOLEAN, private : BOOLEAN, gitops : BOOLEAN,
     iam : BOOLEAN, autoscaler : BOOLEAN, forwarders : BOOLEAN,
     lbctl : BOOLEAN, role : BOOLEAN, flag : Flag,
     k8s : K8sVersionSupported, helmPrivate : BOOLEAN,
     overrides : SUBSET {"cert-manager", "cluster-autoscaler", "tigera-operator"}]

ASSUME DescriptorsAssumption == Descriptors \subseteq Descriptor

VARIABLES
    d,         \* descriptor and flags of this run
    phase,     \* of create.Cluster
    todo,      \* steps of Execute still to do
    cl,        \* what lives in the local and in the workload cluster
    alive,     \* do the containers of the local cluster exist?
    cloud,     \* the infrastructure of the workload cluster
    backup,    \* where the backup of the Cluster API objects is
    refresher, \* the goroutine of StartKubeconfigRefresher
    misled,    \* history: successes that were none, by an "empty" answer or a "repeated" move
    charts     \* Helm charts: dictionary, configuration, pulled and released ones

vars == <<d, phase, todo, cl, alive, cloud, backup, refresher, misled, charts>>

-----------------------------------------------------------------------------
(* The state of a cluster: the keos operator, the KeosCluster and          *)
(* ClusterConfig resources with their finalizers, the Cluster API objects, *)
(* the MachineHealthChecks among them, and their controllers, with or      *)
(* without those of kubeadm.                                               *)
ClusterState ==
    [op : {"none", "starting", "ready"},
     keos : BOOLEAN, keosFin : BOOLEAN,
     config : BOOLEAN, configFin : BOOLEAN,
     capi : {"none", "paused", "active"}, mhc : BOOLEAN,
     capx : {"none", "noKubeadm", "all"}]

Blank == [op |-> "none", keos |-> FALSE, keosFin |-> FALSE, config |-> FALSE,
          configFin |-> FALSE, capi |-> "none", mhc |-> FALSE, capx |-> "none"]

Retain(x) == x.flag # "none"

Keep(x) == x.flag = "keep-mgmt"

Avoid(x) == x.flag = "avoid-creation"

EKS(x) == x.infra = "aws" /\ x.managed

GKE(x) == x.infra = "gcp" /\ x.managed

If(b, s) == IF b THEN s ELSE <<>>

-----------------------------------------------------------------------------
(* The steps of Execute, in order.                                         *)
SetupSteps(x) ==
    <<"login", "pullCharts", "registry">> \o If(x.private, <<"privateCNI">>) \o <<"chartsList">>

ManagerSteps ==
    <<"certManagerLocal", "capxLocal", "secretsFile", "descriptorFile">>

NamespaceSteps == <<"createNs", "netpolFile", "operatorLocal">>

CreationSteps(x) ==
    If(x.infra = "aws" /\ x.iam, <<"iam">>) \o
    <<"applyConfig", "applyKeos", "waitCluster", "waitControlPlane",
      "getKubeconfig", "workerSecret", "saveKubeconfig", "startRefresher">>

NodeSteps(x) ==
    If(~x.managed, <<"cloudProvider">>) \o
    If(~x.managed \/ x.infra = "aws", <<"calico">>) \o
    <<"nodes">>

CapxSteps(x) ==
    If(GKE(x), <<"gkeCoreDNS">>) \o <<"coreDNS", "certManagerWork", "capxWork", "capiWork">>

FluxSteps(x) == If(~x.gitops, <<"flux", "reconcileCharts">>)

PolicySteps == <<"selfHealing", "netpols">>

(* isMachinePool || awsEKSEnabled comes to this for the autoscaler.        *)
OperatorSteps(x) ==
    If(~x.managed, <<"csi">>) \o <<"storageClass">> \o
    If(~x.gitops, If(x.autoscaler /\ (~x.managed \/ x.infra = "aws"), <<"autoscaler">>)
                    \o <<"operatorWork">>) \o
    If(x.forwarders, <<"customDNS">>) \o
    If(x.infra = "gcp", <<"rbac">>) \o
    If(~x.gitops /\ EKS(x) /\ x.lbctl, <<"lbController">>)

BackupSteps == <<"backup", "copyBackup">>

PivotRedeploysEarly(x) ==
    <<"uninstallOperator", "workNs", "move">> \o
    If(~x.gitops,
       <<"rollout", "patchConfig", "copyConfig", "deleteConfig",
         "copyKeos", "redeployOperator", "patchKeos", "deleteKeos">>
       \o If(x.role, <<"identity">>))

PivotSteps(x) ==
    <<"uninstallOperator", "workNs", "move">> \o
    If(~x.gitops,
       <<"rollout", "patchConfig", "copyConfig", "deleteConfig",
         "copyKeos", "patchKeos", "deleteKeos", "redeployOperator">>
       \o If(x.role, <<"identity">>))

BackupAfterPivot(x) ==
    CreationSteps(x) \o NodeSteps(x) \o CapxSteps(x) \o FluxSteps(x) \o
    PolicySteps \o OperatorSteps(x) \o
    If(~Keep(x), PivotSteps(x)) \o BackupSteps \o <<"postInstall">>

WorkloadSteps(x) ==
    CreationSteps(x) \o NodeSteps(x) \o CapxSteps(x) \o FluxSteps(x) \o
    PolicySteps \o OperatorSteps(x) \o
    BackupSteps \o If(~Keep(x), PivotSteps(x)) \o <<"postInstall">>

Execute(x) ==
    SetupSteps(x) \o ManagerSteps \o NamespaceSteps \o If(~Avoid(x), WorkloadSteps(x)) \o
    <<"keosDescriptor", "overrideVars">> \o If(~Avoid(x), <<"stopRefresher">>)

(* Steps that leave alone what this module keeps track of.                 *)
PlainSteps ==
    {"login", "registry", "privateCNI", "secretsFile", "descriptorFile", "createNs",
     "netpolFile", "iam", "waitControlPlane", "workerSecret", "saveKubeconfig",
     "nodes", "gkeCoreDNS", "coreDNS", "netpols", "storageClass",
     "customDNS", "rbac", "workNs", "identity", "postInstall", "keosDescriptor",
     "overrideVars"}

StatefulSteps ==
    {"pullCharts", "chartsList", "certManagerLocal", "certManagerWork", "cloudProvider",
     "calico", "flux", "reconcileCharts", "csi", "autoscaler", "lbController",
     "capxLocal", "operatorLocal", "applyConfig", "applyKeos", "waitCluster",
     "getKubeconfig", "startRefresher", "capxWork", "capiWork", "selfHealing",
     "operatorWork", "backup", "copyBackup", "uninstallOperator", "move", "rollout", "patchConfig",
     "copyConfig", "deleteConfig", "copyKeos", "patchKeos", "deleteKeos",
     "redeployOperator", "stopRefresher"}

Phases == {"execute", "ok", "failed", "returnOk", "returnErr", "killed"}

TypeOK ==
    /\ d \in Descriptors
    /\ phase \in Phases
    /\ todo \in Seq(PlainSteps \union StatefulSteps)
    /\ cl \in [{"local", "work"} -> ClusterState]
    /\ alive \in BOOLEAN
    /\ cloud \in {"none", "created", "destroyed"}
    /\ backup \in {"none", "node", "host"}
    /\ refresher \in {"off", "on", "stopped"}
    /\ misled \subseteq {"empty", "repeated"}
    /\ charts.repos \subseteq {"keos"} \union DOMAIN charts.dict
    /\ charts.operator \in {"", "v1", "v2"}
    /\ phase # "execute" => todo = <<>>

Init ==
    /\ d \in Descriptors
    /\ phase = "execute"
    /\ todo = Execute(d)
    /\ cl = [c \in {"local", "work"} |-> Blank]
    /\ alive = TRUE
    /\ cloud = "none" /\ backup = "none" /\ refresher = "off"
    /\ misled = {}
    /\ charts = NoCharts(d)

-----------------------------------------------------------------------------
At(l) == phase = "execute" /\ todo # <<>> /\ Head(todo) = l

Proceed == todo' = Tail(todo) /\ UNCHANGED phase

ReturnForgotten == todo' = Tail(todo) /\ phase' = "failed"

GiveUp == todo' = <<>> /\ phase' = "failed"

(* Has the step at the head of todo the charts and templates it needs?     *)
Equipped(l) == Installable(l, charts, d)

(* ExecuteCommand on a command that would bring the clusters from cl to    *)
(* new.  Repeated after a failure, most commands do the same again         *)
(* (`kubectl apply`, `clusterctl init`); one that was carried out and then *)
(* finds its work done (`helm install`, `kubectl delete`) fails with its   *)
(* effect.  Move is the exception, and has its own attempts.               *)
ExecuteCommand(l, new) ==
    /\ At(l)
    /\ \/ Equipped(l) /\ cl' = new /\ Proceed
       \/ cl' \in {cl, new} /\ GiveUp

(* A command that succeeds only once a condition holds.                    *)
WaitFor(l, condition) ==
    /\ At(l)
    /\ (Equipped(l) /\ condition /\ Proceed) \/ GiveUp
    /\ UNCHANGED cl

(* What a step has done to the charts when it succeeds, or gives up.       *)
Charted(new) == charts' \in IF phase' = "execute" THEN {new} ELSE {charts, new}

PlainStep ==
    /\ \E l \in PlainSteps : WaitFor(l, TRUE)
    /\ UNCHANGED <<d, alive, cloud, backup, refresher, misled, charts>>

-----------------------------------------------------------------------------
(* The steps that pull, install and release charts.                        *)
PullProviderCharts ==
    /\ WaitFor("pullCharts", TRUE)
    /\ Charted(AfterPull(charts, d))
    /\ UNCHANGED <<d, alive, cloud, backup, refresher, misled>>

GetProviderCharts ==
    /\ At("chartsList")
    /\ Proceed
    /\ charts' = AfterLookup(charts, d)
    /\ UNCHANGED <<d, cl, alive, cloud, backup, refresher, misled>>

InstallChart(l) ==
    /\ WaitFor(l, TRUE)
    /\ Charted(AfterInstall(l, charts, d))
    /\ UNCHANGED <<d, alive, cloud, backup, refresher, misled>>

DeployCertManager == InstallChart("certManagerLocal") \/ InstallChart("certManagerWork")

InstallCloudProvider == InstallChart("cloudProvider")

InstallCalico == InstallChart("calico")

ConfigureFlux ==
    /\ WaitFor("flux", TRUE)
    /\ Charted(AfterFlux(charts, d))
    /\ UNCHANGED <<d, alive, cloud, backup, refresher, misled>>

(* configureHelmRelease, for every chart of the step.                      *)
ConfigureHelmRelease(l) ==
    /\ WaitFor(l, TRUE)
    /\ Charted(IF Equipped(l) THEN AfterRelease(l, charts, d) ELSE charts)
    /\ UNCHANGED <<d, alive, cloud, backup, refresher, misled>>

ReconcileCharts == ConfigureHelmRelease("reconcileCharts")

InstallCSI == ConfigureHelmRelease("csi")

DeployClusterAutoscaler == ConfigureHelmRelease("autoscaler")

InstallLBController == ConfigureHelmRelease("lbController")

-----------------------------------------------------------------------------
(* The local cluster becomes the manager, and creates the workload cluster.*)
CapxLocal ==
    /\ ExecuteCommand("capxLocal", [cl EXCEPT !["local"].capx = "all"])
    /\ UNCHANGED <<d, alive, cloud, backup, refresher, misled, charts>>

(* deployClusterOperator, `helm pull` and `helm install --wait` in the     *)
(* local cluster.                                                          *)
OperatorLocal ==
    /\ ExecuteCommand("operatorLocal", [cl EXCEPT !["local"].op = "ready"])
    /\ \E v \in OperatorVersions(charts) : Charted(OperatorPulled(charts, v))
    /\ UNCHANGED <<d, alive, cloud, backup, refresher, misled>>

ApplyConfig ==
    /\ ExecuteCommand("applyConfig", [cl EXCEPT !["local"].config = TRUE])
    /\ UNCHANGED <<d, alive, cloud, backup, refresher, misled, charts>>

ApplyKeos ==
    /\ ExecuteCommand("applyKeos", [cl EXCEPT !["local"].keos = TRUE])
    /\ UNCHANGED <<d, alive, cloud, backup, refresher, misled, charts>>

WaitCluster ==
    /\ WaitFor("waitCluster", cl["local"].capi # "none")
    /\ UNCHANGED <<d, alive, cloud, backup, refresher, misled, charts>>

(* The loop over `clusterctl get kubeconfig`.  When the last answer is     *)
(* empty and no error, errors.Wrap(nil, ...) is nil: Execute returns nil.  *)
GetKubeconfig ==
    /\ At("getKubeconfig")
    /\ \/ Proceed /\ UNCHANGED misled
       \/ GiveUp /\ UNCHANGED misled
       \/ todo' = <<>> /\ phase' = "ok" /\ misled' = misled \union {"empty"}
    /\ UNCHANGED <<d, cl, alive, cloud, backup, refresher, charts>>

StartRefresher ==
    /\ At("startRefresher")
    /\ Proceed
    /\ refresher' = "on"
    /\ UNCHANGED <<d, cl, alive, cloud, backup, misled, charts>>

CapxForgotten ==
    /\ WaitFor("capxWork", TRUE)
    /\ UNCHANGED <<d, alive, cloud, backup, refresher, misled, charts>>

CapxWork ==
    /\ ExecuteCommand("capxWork", [cl EXCEPT !["work"].capx = "all"])
    /\ UNCHANGED <<d, alive, cloud, backup, refresher, misled, charts>>

(* The controllers of kubeadm are scaled to none in a managed cluster.     *)
ConfigCAPIWorker ==
    /\ ExecuteCommand("capiWork",
                      [cl EXCEPT !["work"].capx = IF d.managed THEN "noKubeadm" ELSE @])
    /\ UNCHANGED <<d, alive, cloud, backup, refresher, misled, charts>>

(* The MachineHealthChecks go to the cluster that manages at that time.    *)
EnableSelfHealing ==
    /\ ExecuteCommand("selfHealing", [cl EXCEPT !["local"].mhc = TRUE])
    /\ UNCHANGED <<d, alive, cloud, backup, refresher, misled, charts>>

(* deployClusterOperator with a kubeconfig: a HelmRelease that Flux will   *)
(* install.  The rollout it then waits for is that of the local cluster.   *)
(* An empty values file and no error: errors.Wrap(nil, ...) again.         *)
OperatorWork ==
    /\ \/ /\ ExecuteCommand("operatorWork", [cl EXCEPT !["work"].op = "starting"])
          /\ \E v \in OperatorVersions(charts) : Charted(OperatorReleased(charts, v))
          /\ UNCHANGED misled
       \/ WaitFor("operatorWork", TRUE) /\ misled' = misled \union {"empty"} /\ UNCHANGED charts
    /\ UNCHANGED <<d, alive, cloud, backup, refresher>>

(* `clusterctl move --to-directory`, then `docker cp` to the host.         *)
Backup ==
    /\ At("backup")
    /\ \/ backup' = "node" /\ Proceed
       \/ backup' \in {backup, "node"} /\ GiveUp
    /\ UNCHANGED <<d, cl, alive, cloud, refresher, misled, charts>>

CopyBackup ==
    /\ At("copyBackup")
    /\ \/ backup' = "host" /\ Proceed
       \/ backup' = backup /\ GiveUp
    /\ UNCHANGED <<d, cl, alive, cloud, refresher, misled, charts>>

-----------------------------------------------------------------------------
(* Moving the management role.                                             *)
UninstallForgotten ==
    /\ WaitFor("uninstallOperator", TRUE)
    /\ UNCHANGED <<d, alive, cloud, backup, refresher, misled, charts>>

UninstallOperator ==
    /\ ExecuteCommand("uninstallOperator", [cl EXCEPT !["local"].op = "none"])
    /\ UNCHANGED <<d, alive, cloud, backup, refresher, misled, charts>>

(***************************************************************************)
(* `clusterctl move --to-kubeconfig` (external): pause the cluster, create *)
(* its objects in the target, delete them in the source, resume there.     *)
(* Cut short it stops between two of these.  ExecuteCommand runs it again, *)
(* and it completes what is left, as long as the source has the objects.   *)
(* Cut after their deletion it finds nothing to move and succeeds: the     *)
(* target stays paused.                                                    *)
(***************************************************************************)
MoveStages ==
    LET paused  == [cl EXCEPT !["local"].capi = "paused"]
        copied  == [paused EXCEPT !["work"].capi = "paused", !["work"].mhc = cl["local"].mhc]
        deleted == [copied EXCEPT !["local"].capi = "none", !["local"].mhc = FALSE]
    IN  <<cl, paused, copied, deleted, [deleted EXCEPT !["work"].capi = "active"]>>

Move ==
    /\ At("move")
    /\ \/ cl' = MoveStages[5] /\ Proceed /\ UNCHANGED misled
       \/ cl' = MoveStages[4] /\ Proceed /\ misled' = misled \union {"repeated"}
       \/ \E i \in 1..5 : cl' = MoveStages[i] /\ GiveUp /\ UNCHANGED misled
    /\ UNCHANGED <<d, alive, cloud, backup, refresher, charts>>

Rollout ==
    /\ WaitFor("rollout", cl["work"].op = "ready")
    /\ UNCHANGED <<d, alive, cloud, backup, refresher, misled, charts>>

PatchConfig ==
    /\ ExecuteCommand("patchConfig", [cl EXCEPT !["local"].configFin = FALSE])
    /\ UNCHANGED <<d, alive, cloud, backup, refresher, misled, charts>>

CopyConfig ==
    /\ ExecuteCommand("copyConfig", [cl EXCEPT !["work"].config = cl["local"].config])
    /\ UNCHANGED <<d, alive, cloud, backup, refresher, misled, charts>>

(* `kubectl delete` waits until the resource has gone, and it goes once    *)
(* it has no finalizer or the operator has dealt with it.                  *)
DeleteConfig ==
    /\ At("deleteConfig")
    /\ cl["local"].configFin => cl["local"].op = "ready"
    /\ ExecuteCommand("deleteConfig",
                      [cl EXCEPT !["local"].config = FALSE, !["local"].configFin = FALSE])
    /\ UNCHANGED <<d, alive, cloud, backup, refresher, misled, charts>>

CopyKeosForgotten ==
    /\ WaitFor("copyKeos", TRUE)
    /\ UNCHANGED <<d, alive, cloud, backup, refresher, misled, charts>>

CopyKeos ==
    /\ ExecuteCommand("copyKeos", [cl EXCEPT !["work"].keos = cl["local"].keos,
                                             !["work"].keosFin = cl["local"].keosFin])
    /\ UNCHANGED <<d, alive, cloud, backup, refresher, misled, charts>>

PatchForgotten ==
    /\ WaitFor("patchKeos", TRUE)
    /\ UNCHANGED <<d, alive, cloud, backup, refresher, misled, charts>>

PatchKeos ==
    /\ ExecuteCommand("patchKeos", [cl EXCEPT !["local"].keosFin = FALSE])
    /\ UNCHANGED <<d, alive, cloud, backup, refresher, misled, charts>>

(* An operator that finds a KeosCluster with its finalizer deleted takes   *)
(* the infrastructure down before it lets go of the resource.              *)
DeleteKeos ==
    /\ At("deleteKeos")
    /\ cl["local"].keosFin => cl["local"].op = "ready"
    /\ ExecuteCommand("deleteKeos",
                      [cl EXCEPT !["local"].keos = FALSE, !["local"].keosFin = FALSE])
    /\ cloud' = IF cl["local"].keosFin /\ ~cl'["local"].keos THEN "destroyed" ELSE cloud
    /\ UNCHANGED <<d, alive, backup, refresher, misled, charts>>

RedeployOperator ==
    /\ ExecuteCommand("redeployOperator", [cl EXCEPT !["local"].op = "ready"])
    /\ UNCHANGED <<d, alive, cloud, backup, refresher, misled, charts>>

(* close(stopRefresher), on the way out of a successful Execute.           *)
StopRefresher ==
    /\ At("stopRefresher")
    /\ Proceed
    /\ refresher' = "stopped"
    /\ UNCHANGED <<d, cl, alive, cloud, backup, misled, charts>>

ReturnNil ==
    /\ phase = "execute" /\ todo = <<>>
    /\ phase' = "ok"
    /\ UNCHANGED <<d, todo, cl, alive, cloud, backup, refresher, misled, charts>>

-----------------------------------------------------------------------------
(* create.Cluster after Execute: delete.Cluster on the local cluster, of   *)
(* which an error is ignored.                                              *)
DeleteLocal == alive' \in {FALSE, TRUE}

CleanUp ==
    /\ phase = "failed"
    /\ phase' = "returnErr"
    /\ IF Retain(d) THEN UNCHANGED alive ELSE DeleteLocal
    /\ refresher' = "stopped"
    /\ UNCHANGED <<d, todo, cl, cloud, backup, misled, charts>>

ExportFails ==
    /\ phase = "ok"
    /\ phase' = "returnErr"
    /\ refresher' = "stopped"
    /\ UNCHANGED <<d, todo, cl, alive, cloud, backup, misled, charts>>

ExportAndCleanUp ==
    /\ phase = "ok"
    /\ phase' = "returnOk"
    /\ IF Retain(d) THEN UNCHANGED alive ELSE DeleteLocal
    /\ refresher' = "stopped"
    /\ UNCHANGED <<d, todo, cl, cloud, backup, misled, charts>>

Kill ==
    /\ phase \in {"execute", "ok", "failed"}
    /\ phase' = "killed"
    /\ todo' = <<>>
    /\ refresher' = "stopped"
    /\ UNCHANGED <<d, cl, alive, cloud, backup, misled, charts>>

-----------------------------------------------------------------------------
(* The controllers (external).                                             *)
Running(c) == c = "local" => alive

(* An operator puts its finalizers on the resources it looks after and     *)
(* has Cluster API create the cluster.                                     *)
Reconcile(c) ==
    /\ Running(c)
    /\ cl[c].op = "ready" /\ cl[c].keos
    /\ cl' = [cl EXCEPT ![c].keosFin = TRUE,
                        ![c].configFin = cl[c].config,
                        ![c].capi = IF c = "local" /\ cloud = "none" THEN "active" ELSE @]
    /\ cl' # cl
    /\ cloud' = IF cl'[c].capi = "active" /\ cloud = "none" THEN "created" ELSE cloud
    /\ UNCHANGED <<d, phase, todo, alive, backup, refresher, misled, charts>>

(* Flux installs the operator in the workload cluster.                     *)
FluxInstalls ==
    /\ cl["work"].op = "starting"
    /\ cl' = [cl EXCEPT !["work"].op = "ready"]
    /\ UNCHANGED <<d, phase, todo, alive, cloud, backup, refresher, misled, charts>>

Main ==
    \/ PlainStep
    \/ PullProviderCharts \/ GetProviderCharts \/ DeployCertManager
    \/ InstallCloudProvider \/ InstallCalico \/ ConfigureFlux \/ ReconcileCharts \/ InstallCSI
    \/ DeployClusterAutoscaler \/ InstallLBController
    \/ CapxLocal \/ OperatorLocal \/ ApplyConfig \/ ApplyKeos \/ WaitCluster
    \/ GetKubeconfig \/ StartRefresher \/ CapxWork \/ ConfigCAPIWorker
    \/ EnableSelfHealing \/ OperatorWork
    \/ Backup \/ CopyBackup
    \/ UninstallOperator \/ Move \/ Rollout
    \/ PatchConfig \/ CopyConfig \/ DeleteConfig
    \/ CopyKeos \/ PatchKeos \/ DeleteKeos \/ RedeployOperator
    \/ StopRefresher \/ ReturnNil
    \/ CleanUp \/ ExportFails \/ ExportAndCleanUp

Next ==
    \/ Main \/ Kill \/ FluxInstalls
    \/ \E c \in {"local", "work"} : Reconcile(c)

Spec == Init /\ [][Next]_vars

(* Commands come to an end when what they wait for does; Flux and the      *)
(* operators keep running.                                                 *)
FairSpec ==
    /\ Spec
    /\ WF_vars(Main)
    /\ WF_vars(FluxInstalls)
    /\ \A c \in {"local", "work"} : WF_vars(Reconcile(c))

-----------------------------------------------------------------------------
Managing(c) == Running(c) /\ cl[c].op = "ready" /\ cl[c].keos

(***************************************************************************)
(* At no moment of the pivot do the operators of both clusters manage the  *)
(* same KeosCluster: the local one is uninstalled before the resource is   *)
(* copied and comes back after it was deleted here.                        *)
(***************************************************************************)
SingleActiveManager == ~(Managing("local") /\ Managing("work"))

(***************************************************************************)
(* Deleting the local KeosCluster at the end of the pivot never makes an   *)
(* operator take down the infrastructure of the new cluster, not even      *)
(* after an empty answer was taken for a success.                          *)
(***************************************************************************)
NoTeardown == cloud # "destroyed"

(***************************************************************************)
(* Once the infrastructure exists, the KeosCluster and the ClusterConfig   *)
(* exist in a cluster at every moment of the pivot, whichever command      *)
(* fails, with or without having done its work.                            *)
(***************************************************************************)
ResourcesKept ==
    cloud = "created" =>
        /\ \E c \in {"local", "work"} : cl[c].keos
        /\ \E c \in {"local", "work"} : cl[c].config

(***************************************************************************)
(* The Cluster API objects of infrastructure that exists are held by a     *)
(* cluster that exists, also in the middle of `clusterctl move`, until     *)
(* create.Cluster cleans up after a failure without Retain; if that comes  *)
(* after the pivot began, their backup is on the host.  (Unless an empty   *)
(* answer was taken for a success before.)                                 *)
(***************************************************************************)
ObjectsHeld ==
    cloud = "created" /\ "empty" \notin misled =>
        \/ \E c \in {"local", "work"} : Running(c) /\ cl[c].capi # "none"
        \/ /\ phase = "returnErr" /\ ~Retain(d)
           /\ cl["local"].capi = "paused" => backup = "host"

Controllers == IF d.managed THEN {"noKubeadm", "all"} ELSE {"all"}

(* Cluster c exists and has the Cluster API objects in one of the given    *)
(* states, the MachineHealthChecks with them, and the controllers, those   *)
(* of kubeadm if the cluster is built with it.                             *)
Manages(c, states) ==
    Running(c) /\ cl[c].capi \in states /\ cl[c].mhc /\ cl[c].capx \in Controllers

(***************************************************************************)
(* When `create cluster` reports success, some cluster that still exists   *)
(* manages the new one.  Left out are empty answers that were taken for a  *)
(* success (SuccessHoldsObjects).  If `clusterctl move` was repeated after *)
(* it had deleted the objects here, and so had nothing left to resume, the *)
(* workload cluster has all of it but the objects are paused.              *)
(***************************************************************************)
AnsweredSuccessIsManaged ==
    phase = "returnOk" /\ ~Avoid(d) /\ "empty" \notin misled =>
        \/ \E c \in {"local", "work"} : Manages(c, {"active"})
        \/ "repeated" \in misled /\ Manages("work", {"paused"})

(***************************************************************************)
(* create.go: "The cluster has been installed successfully" comes after    *)
(* the pivot, so the Cluster API objects of the infrastructure are in a    *)
(* cluster that exists, whatever the commands answered.                    *)
(***************************************************************************)
SuccessHoldsObjects ==
    phase = "returnOk" /\ cloud = "created" =>
        \E c \in {"local", "work"} : Running(c) /\ cl[c].capi # "none"

(***************************************************************************)
(* Execute ends and create.Cluster returns: no `kubectl delete` of the     *)
(* pivot waits for a finalizer that nobody removes.                        *)
(***************************************************************************)
CreateReturns == <>(phase \in {"returnOk", "returnErr", "killed"})

(***************************************************************************)
(* What Flux releases in the workload cluster is what was asked for: a     *)
(* version that the user set in the ClusterConfig, whichever step releases *)
(* the chart, and of a chart that was pulled and installed before the same *)
(* version from the same repository, the operator included.  The user's    *)
(* version reaches charts that are not pulled only through the global      *)
(* dictionaries, since the configuration has forgotten it by then.         *)
(***************************************************************************)
ReleasedAsAsked ==
    \A c \in DOMAIN charts.releases :
        LET release == charts.releases[c]
        IN  /\ c \in d.overrides => release.version = "asked"
            /\ c \in DOMAIN charts.pulled =>
                  /\ release.version = charts.pulled[c].version
                  /\ SourceOf(release.ref, charts) = charts.pulled[c].repository

(* The flavours of the documentation: EKS, GKE and Azure.                  *)
Documented == d.managed \/ d.infra = "azure"

(***************************************************************************)
(* Every step finds what the steps before it were to provide: the chart it *)
(* installs is pulled, the chart it has Flux release has an entry, a       *)
(* repository and a values file.  Left out are Kubernetes versions without *)
(* templates (SupportedVersionsInstall) and the CSI drivers of Azure under *)
(* gitops_enabled, which are released although there is no Flux.           *)
(***************************************************************************)
ChartsFound ==
    Documented /\ d.k8s \in TemplateVersions /\ (d.gitops => d.managed) =>
        \A l \in StatefulSteps : At(l) => Equipped(l)

(***************************************************************************)
(* common.go: every version of k8sVersionSupported is one of the           *)
(* "kubernetes versions supported", so the templates and charts that the   *)
(* steps need for it exist.                                                *)
(***************************************************************************)
SupportedVersionsInstall ==
    Documented /\ ~d.gitops => \A l \in StatefulSteps : At(l) => Equipped(l)

=============================================================================
