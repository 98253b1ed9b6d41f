------------------------------- MODULE Charts -------------------------------
(***************************************************************************)
(* The Helm charts of the createworker action: which ones a cluster gets,  *)
(* what is pulled into the node, and what Flux is told to release in the   *)
(* workload cluster.                                                       *)
(*                                                                         *)
(* The dictionaries are global variables of the package that every lookup  *)
(* writes to.  Of a version it matters whether it is the one listed there  *)
(* or the one the user asked for, of a repository whether it is the        *)
(* chart's own or the cluster's Helm repository.                           *)
(***************************************************************************)
EXTENDS Naturals

(* The minor versions of Kubernetes that validateK8SVersion accepts, and   *)
(* those that have a directory of templates: a manifest of the others      *)
(* cannot be generated.                                                    *)
K8sVersionSupported == 32..35

TemplateVersions == {32, 34, 35}

(* A dictionary: charts that are pulled and installed by the action and    *)
(* then left to Flux, and charts that Flux alone installs.                 *)
Table(installed, released) ==
    [c \in installed \union released |->
        [version |-> "listed", repository |-> "own",
         pull |-> c \in installed, reconcile |-> c \in installed]]

(* Entries of first and, for other keys, of second.                        *)
Merged(first, second) ==
    [c \in DOMAIN first \union DOMAIN second |-> IF c \in DOMAIN first THEN first[c] ELSE second[c]]

CommonsCharts == Table({"cert-manager", "flux2"}, {})

AwsCharts(k8s, managed) ==
    IF managed
    THEN Table({"tigera-operator"}, {"aws-load-balancer-controller", "cluster-autoscaler"})
    ELSE Table({}, {})

AzureChartsFluxed(k8s, managed) ==
    IF k8s \in {32, 34, 35} /\ ~managed
    THEN Table({"tigera-operator"},
               {"cloud-provider-azure", "azuredisk-csi-driver", "azurefile-csi-driver",
                "cluster-autoscaler"})
    ELSE Table({}, {})

AzureCharts(k8s, managed) ==
    IF k8s \in {32, 34, 35} /\ ~managed
    THEN Table({"cloud-provider-azure", "tigera-operator"},
               {"azuredisk-csi-driver", "azurefile-csi-driver", "cluster-autoscaler"})
    ELSE Table({}, {})

GoogleCharts(k8s, managed) ==
    IF k8s \in {32, 34, 35} /\ managed THEN Table({}, {"tigera-operator"}) ELSE Table({}, {})

(* The two dictionaries of a cluster; no chart is in both.                 *)
Dictionary(x) ==
    Merged(CASE x.infra = "aws"   -> AwsCharts(x.k8s, x.managed)
             [] x.infra = "azure" -> AzureCharts(x.k8s, x.managed)
             [] x.infra = "gcp"   -> GoogleCharts(x.k8s, x.managed),
           CommonsCharts)

OverrideLost(dict, asked, private) ==
    [c \in DOMAIN dict |-> [dict[c] EXCEPT !.repository = IF private THEN "helm" ELSE @]]

(* What a lookup leaves in the dictionary, and returns.                    *)
GetGenericCharts(dict, asked, private) ==
    [c \in DOMAIN dict |->
        [dict[c] EXCEPT !.version = IF c \in DOMAIN asked THEN asked[c] ELSE @,
                        !.repository = IF private THEN "helm" ELSE @]]

(* The AWS builder asks for the load balancer controller to be pulled.     *)
WithLBController(dict, x) ==
    [c \in DOMAIN dict |->
        [dict[c] EXCEPT !.pull = @ \/ /\ c = "aws-load-balancer-controller"
                                      /\ x.infra = "aws" /\ x.managed /\ x.lbctl]]

ToPull(dict) == {c \in DOMAIN dict : dict[c].pull}

PulledCharts(dict) ==
    [c \in ToPull(dict) |-> [version |-> dict[c].version, repository |-> dict[c].repository]]

(* getOverriddenCharts: the charts of the cluster's configuration are from *)
(* now on the pulled ones.  The loops over the user's charts change copies.*)
ConvertToChart(dict) == [c \in ToPull(dict) |-> dict[c].version]

NoCharts(x) ==
    [dict     |-> Dictionary(x),
     asked    |-> [c \in x.overrides |-> "asked"],
     pulled   |-> Table({}, {}),
     values   |-> {},       \* values files in the node
     repos    |-> {},       \* HelmRepositories in the workload cluster
     releases |-> Table({}, {}),
     operator |-> ""]       \* ClusterOperatorVersion of the configuration

AfterPull(ch, x) ==
    LET dict == GetGenericCharts(WithLBController(ch.dict, x), ch.asked, x.helmPrivate)
    IN  [ch EXCEPT !.dict = dict, !.pulled = PulledCharts(dict), !.asked = ConvertToChart(dict)]

(* getProviderCharts, the list the rest of the action works with.          *)
AfterLookup(ch, x) == [ch EXCEPT !.dict = GetGenericCharts(@, ch.asked, x.helmPrivate)]

(* configureFlux: the cluster's repository, and unless it is used for      *)
(* everything one for each chart.                                          *)
AfterFlux(ch, x) ==
    [ch EXCEPT !.values = @ \union {"flux2"},
               !.repos = @ \union {"keos"} \union IF x.helmPrivate THEN {} ELSE DOMAIN ch.dict]

(* The charts that configureHelmRelease is called for, in each step.       *)
ToReconcile(ch) == {c \in DOMAIN ch.dict : ch.dict[c].reconcile}

CsiDrivers(x) == IF x.infra = "azure" THEN {"azuredisk-csi-driver", "azurefile-csi-driver"} ELSE {}

ToRelease(l, ch, x) ==
    CASE l = "reconcileCharts" -> ToReconcile(ch)
      [] l = "csi"             -> CsiDrivers(x)
      [] l = "autoscaler"      -> {"cluster-autoscaler"}
      [] l = "lbController"    -> {"aws-load-balancer-controller"}
      [] OTHER                 -> {}

RepoRef(c, x) == IF x.helmPrivate THEN "keos" ELSE c

AfterRelease(l, ch, x) ==
    [ch EXCEPT !.releases =
        Merged([c \in ToRelease(l, ch, x) |->
                   [version |-> ch.dict[c].version, ref |-> RepoRef(c, x)]], @)]

(* The charts that are installed from the node's /stratio/helm.            *)
CloudProviderCharts(x) == IF x.infra = "azure" THEN {"cloud-provider-azure"} ELSE {}

ToInstall(l, x) ==
    CASE l \in {"certManagerLocal", "certManagerWork"} -> {"cert-manager"}
      [] l = "cloudProvider"    -> CloudProviderCharts(x)
      [] l = "calico"           -> {"tigera-operator"}
      [] l = "flux"             -> {"flux2"}
      [] l = "redeployOperator" -> {"cluster-operator"}
      [] OTHER                  -> {}

(* Their values files are generated first.                                 *)
AfterInstall(l, ch, x) == [ch EXCEPT !.values = @ \union ToInstall(l, x)]

(* The operator: a version that is not set is looked up once, and kept.    *)
OperatorVersions(ch) == IF ch.operator = "" THEN {"v1", "v2"} ELSE {ch.operator}

OperatorPulled(ch, v) ==
    [ch EXCEPT !.operator = v,
               !.pulled = Merged([c \in {"cluster-operator"} |->
                                     [version |-> v, repository |-> "helm"]], @)]

OperatorReleased(ch, v) ==
    [ch EXCEPT !.operator = v,
               !.releases = Merged([c \in {"cluster-operator"} |->
                                       [version |-> v, ref |-> "keos"]], @)]

(* The steps that call getManifest with the version of the cluster.        *)
Templated(l, x) ==
    \/ l \in {"certManagerLocal", "certManagerWork", "calico", "flux", "reconcileCharts",
              "autoscaler", "lbController", "operatorWork", "gkeCoreDNS"}
    \/ l \in {"cloudProvider", "csi"} /\ x.infra = "azure"
    \/ l = "capxWork" /\ x.infra = "gcp" /\ x.managed

(* A step has what its commands need: templates, the chart to install, and *)
(* for a release the chart's entry, the resources of Flux, the repository  *)
(* it refers to and the values file.                                       *)
Installable(l, ch, x) ==
    /\ Templated(l, x) => x.k8s \in TemplateVersions
    /\ ToInstall(l, x) \subseteq DOMAIN ch.pulled
    /\ \A c \in ToRelease(l, ch, x) : c \in DOMAIN ch.dict /\ RepoRef(c, x) \in ch.repos
    /\ l = "reconcileCharts" => ToReconcile(ch) \subseteq ch.values
    /\ l = "operatorWork" => "keos" \in ch.repos

(* Where the repository that a release refers to comes from.               *)
SourceOf(ref, ch) == IF ref = "keos" THEN "helm" ELSE ch.dict[ref].repository

=============================================================================
