------------------------- MODULE CreateWorkerProofs -------------------------
(***************************************************************************)
(* Proofs about CreateWorker for every set of descriptors: the pivot never *)
(* has two managers, takes nothing down and loses no resource, whichever   *)
(* command fails, and a success leaves a cluster that is managed; what     *)
(* Flux releases is what was asked for and pulled, and every step finds    *)
(* the charts it needs.                                                    *)
(*                                                                         *)
(* The proofs look at Execute's list of steps as the set of the steps that *)
(* are left, with an order among those that matter to the pivot or to the  *)
(* charts.                                                                 *)
(***************************************************************************)
EXTENDS CreateWorker, TLAPS

AllSteps == PlainSteps \union StatefulSteps

StepsOf(s) == {s[i] : i \in DOMAIN s}

(* The steps that the pivot and the charts depend on, in the order of      *)
(* Execute.                                                                *)
Rank(l) ==
    CASE l = "pullCharts"        -> 1
      [] l = "chartsList"        -> 2
      [] l = "certManagerLocal"  -> 3
      [] l = "capxLocal"         -> 4
      [] l = "operatorLocal"     -> 5
      [] l = "applyConfig"       -> 6
      [] l = "applyKeos"         -> 7
      [] l = "waitCluster"       -> 8
      [] l = "cloudProvider"     -> 9
      [] l = "calico"            -> 10
      [] l = "certManagerWork"   -> 11
      [] l = "capxWork"          -> 12
      [] l = "flux"              -> 13
      [] l = "reconcileCharts"   -> 14
      [] l = "selfHealing"       -> 15
      [] l = "csi"               -> 16
      [] l = "autoscaler"        -> 17
      [] l = "operatorWork"      -> 18
      [] l = "lbController"      -> 19
      [] l = "backup"            -> 20
      [] l = "copyBackup"        -> 21
      [] l = "uninstallOperator" -> 22
      [] l = "move"              -> 23
      [] l = "copyConfig"        -> 24
      [] l = "deleteConfig"      -> 25
      [] l = "copyKeos"          -> 26
      [] l = "deleteKeos"        -> 27
      [] l = "redeployOperator"  -> 28
      [] OTHER                    -> 0

Key(l) == Rank(l) > 0

(* Of a list of steps, those that matter come once each, in order, with    *)
(* ranks above lo and up to hi.                                            *)
Within(s, lo, hi) ==
    /\ s \in Seq(AllSteps)
    /\ \A i \in DOMAIN s : Key(s[i]) => lo < Rank(s[i]) /\ Rank(s[i]) <= hi
    /\ \A i, j \in DOMAIN s : i < j /\ Key(s[i]) /\ Key(s[j]) => Rank(s[i]) < Rank(s[j])

LEMMA RankType == \A l : Rank(l) \in Nat
  BY DEF Rank

(* Lists joined, left out, and without a step that matters.                *)
LEMMA Joined ==
    ASSUME NEW s, NEW t, NEW lo \in Nat, NEW mid \in Nat, NEW hi \in Nat,
           lo <= mid, mid <= hi, Within(s, lo, mid), Within(t, mid, hi)
    PROVE  /\ Within(s \o t, lo, hi)
           /\ StepsOf(s \o t) = StepsOf(s) \union StepsOf(t)
<1>1. s \in Seq(AllSteps) /\ t \in Seq(AllSteps) /\ s \o t \in Seq(AllSteps)
  BY DEF Within
<1>2. /\ Len(s) \in Nat /\ Len(t) \in Nat /\ Len(s \o t) = Len(s) + Len(t)
      /\ DOMAIN s = 1..Len(s) /\ DOMAIN t = 1..Len(t) /\ DOMAIN (s \o t) = 1..(Len(s) + Len(t))
  BY <1>1
<1>3. \A i \in 1..Len(s) : (s \o t)[i] = s[i]
  BY <1>1
<1>4. \A i \in 1..Len(t) : (s \o t)[Len(s) + i] = t[i]
  BY <1>1
<1>5. \A i \in (Len(s) + 1)..(Len(s) + Len(t)) :
          i - Len(s) \in 1..Len(t) /\ (s \o t)[i] = t[i - Len(s)]
  BY <1>1, <1>2
<1>6. StepsOf(s \o t) = StepsOf(s) \union StepsOf(t)
  <2>1. StepsOf(s \o t) \subseteq StepsOf(s) \union StepsOf(t)
    BY <1>2, <1>3, <1>5 DEF StepsOf
  <2>2. ASSUME NEW i \in DOMAIN s PROVE s[i] \in StepsOf(s \o t)
    BY <1>2, <1>3 DEF StepsOf
  <2>3. ASSUME NEW i \in DOMAIN t PROVE t[i] \in StepsOf(s \o t)
    <3>1. Len(s) + i \in DOMAIN (s \o t)
      BY <1>2
    <3> QED
      BY <1>2, <1>4, <3>1 DEF StepsOf
  <2> QED
    BY <2>1, <2>2, <2>3 DEF StepsOf
<1>7. \A i \in DOMAIN (s \o t) : Key((s \o t)[i]) =>
          lo < Rank((s \o t)[i]) /\ Rank((s \o t)[i]) <= hi
  <2> SUFFICES ASSUME NEW i \in DOMAIN (s \o t), Key((s \o t)[i])
               PROVE  lo < Rank((s \o t)[i]) /\ Rank((s \o t)[i]) <= hi
    OBVIOUS
  <2>1. CASE i \in 1..Len(s)
    BY <1>2, <1>3, <2>1, RankType DEF Within
  <2>2. CASE i \in (Len(s) + 1)..(Len(s) + Len(t))
    BY <1>2, <1>5, <2>2, RankType DEF Within
  <2> QED
    BY <1>2, <2>1, <2>2
<1>8. \A i, j \in DOMAIN (s \o t) :
         i < j /\ Key((s \o t)[i]) /\ Key((s \o t)[j]) => Rank((s \o t)[i]) < Rank((s \o t)[j])
  <2> SUFFICES ASSUME NEW i \in DOMAIN (s \o t), NEW j \in DOMAIN (s \o t),
                      i < j, Key((s \o t)[i]), Key((s \o t)[j])
               PROVE  Rank((s \o t)[i]) < Rank((s \o t)[j])
    OBVIOUS
  <2>1. CASE j \in 1..Len(s)
    BY <1>2, <1>3, <2>1 DEF Within
  <2>2. CASE i \in 1..Len(s) /\ j \in (Len(s) + 1)..(Len(s) + Len(t))
    <3>1. Rank((s \o t)[i]) <= mid
      BY <1>2, <1>3, <2>2 DEF Within
    <3>2. mid < Rank((s \o t)[j])
      BY <1>2, <1>5, <2>2 DEF Within
    <3> QED
      BY <3>1, <3>2, RankType
  <2>3. CASE i \in (Len(s) + 1)..(Len(s) + Len(t))
    <3>1. j \in (Len(s) + 1)..(Len(s) + Len(t)) /\ i - Len(s) < j - Len(s)
      BY <1>2, <2>3
    <3> QED
      BY <1>2, <1>5, <2>3, <3>1 DEF Within
  <2> QED
    BY <1>2, <2>1, <2>2, <2>3
<1> QED
  BY <1>1, <1>6, <1>7, <1>8 DEF Within

LEMMA LeftOut ==
    ASSUME NEW b \in BOOLEAN, NEW s, NEW lo \in Nat, NEW hi \in Nat, Within(s, lo, hi)
    PROVE  /\ Within(If(b, s), lo, hi)
           /\ StepsOf(If(b, s)) = IF b THEN StepsOf(s) ELSE {}
<1>1. CASE b
  BY <1>1 DEF If
<1>2. CASE ~b
  <2>1. If(b, s) = <<>> /\ DOMAIN << >> = {}
    BY <1>2 DEF If
  <2> QED
    BY <1>2, <2>1 DEF Within, StepsOf
<1> QED
  BY <1>1, <1>2

(* The ranks, one by one.                                                  *)
LEMMA Ranked ==
    /\ Rank("pullCharts") = 1
    /\ Rank("chartsList") = 2
    /\ Rank("certManagerLocal") = 3
    /\ Rank("capxLocal") = 4
    /\ Rank("operatorLocal") = 5
    /\ Rank("applyConfig") = 6
    /\ Rank("applyKeos") = 7
    /\ Rank("waitCluster") = 8
    /\ Rank("cloudProvider") = 9
    /\ Rank("calico") = 10
    /\ Rank("certManagerWork") = 11
    /\ Rank("capxWork") = 12
    /\ Rank("flux") = 13
    /\ Rank("reconcileCharts") = 14
    /\ Rank("selfHealing") = 15
    /\ Rank("csi") = 16
    /\ Rank("autoscaler") = 17
    /\ Rank("operatorWork") = 18
    /\ Rank("lbController") = 19
    /\ Rank("backup") = 20
    /\ Rank("copyBackup") = 21
    /\ Rank("uninstallOperator") = 22
    /\ Rank("move") = 23
    /\ Rank("copyConfig") = 24
    /\ Rank("deleteConfig") = 25
    /\ Rank("copyKeos") = 26
    /\ Rank("deleteKeos") = 27
    /\ Rank("redeployOperator") = 28
  BY DEF Rank

LEMMA Unranked ==
    /\ Rank("login") = 0 /\ Rank("registry") = 0 /\ Rank("privateCNI") = 0
    /\ Rank("secretsFile") = 0 /\ Rank("descriptorFile") = 0 /\ Rank("createNs") = 0
    /\ Rank("netpolFile") = 0 /\ Rank("iam") = 0 /\ Rank("waitControlPlane") = 0
    /\ Rank("workerSecret") = 0 /\ Rank("saveKubeconfig") = 0 /\ Rank("nodes") = 0
    /\ Rank("gkeCoreDNS") = 0 /\ Rank("coreDNS") = 0 /\ Rank("netpols") = 0
    /\ Rank("storageClass") = 0 /\ Rank("customDNS") = 0 /\ Rank("rbac") = 0
    /\ Rank("workNs") = 0 /\ Rank("identity") = 0 /\ Rank("postInstall") = 0
    /\ Rank("keosDescriptor") = 0 /\ Rank("overrideVars") = 0 /\ Rank("getKubeconfig") = 0
    /\ Rank("startRefresher") = 0 /\ Rank("capiWork") = 0 /\ Rank("rollout") = 0
    /\ Rank("patchConfig") = 0 /\ Rank("patchKeos") = 0 /\ Rank("stopRefresher") = 0
  BY DEF Rank

-----------------------------------------------------------------------------
(* The lists of which Execute is put together.                             *)
LEMMA SetupList ==
    ASSUME NEW x \in Descriptor
    PROVE  /\ Within(SetupSteps(x), 0, 2)
           /\ StepsOf(SetupSteps(x)) =
                 {"login", "pullCharts", "registry"} \union (IF x.private THEN {"privateCNI"} ELSE {}) \union {"chartsList"}
<1>0. /\ (x.private) \in BOOLEAN
  BY DEF Descriptor, EKS, GKE
<1>1. Within(<<"login", "pullCharts", "registry">>, 0, 1)
      /\ StepsOf(<<"login", "pullCharts", "registry">>) = {"login", "pullCharts", "registry"}
  BY Unranked, Ranked DEF Within, Key, StepsOf, AllSteps, PlainSteps, StatefulSteps
<1>2. Within(If(x.private, <<"privateCNI">>), 1, 1)
      /\ StepsOf(If(x.private, <<"privateCNI">>)) = (IF x.private THEN {"privateCNI"} ELSE {})
  <2>1. Within(<<"privateCNI">>, 1, 1)
        /\ StepsOf(<<"privateCNI">>) = {"privateCNI"}
    BY Unranked, Ranked DEF Within, Key, StepsOf, AllSteps, PlainSteps, StatefulSteps
  <2> QED
    BY <2>1, <1>0, LeftOut
<1>3. Within(<<"login", "pullCharts", "registry">> \o If(x.private, <<"privateCNI">>), 0, 1)
      /\ StepsOf(<<"login", "pullCharts", "registry">> \o If(x.private, <<"privateCNI">>)) =
            {"login", "pullCharts", "registry"} \union (IF x.private THEN {"privateCNI"} ELSE {})
  BY <1>1, <1>2, Joined
<1>4. Within(<<"chartsList">>, 1, 2)
      /\ StepsOf(<<"chartsList">>) = {"chartsList"}
  BY Unranked, Ranked DEF Within, Key, StepsOf, AllSteps, PlainSteps, StatefulSteps
<1>5. Within(<<"login", "pullCharts", "registry">> \o If(x.private, <<"privateCNI">>) \o <<"chartsList">>, 0, 2)
      /\ StepsOf(<<"login", "pullCharts", "registry">> \o If(x.private, <<"privateCNI">>) \o <<"chartsList">>) =
            {"login", "pullCharts", "registry"} \union (IF x.private THEN {"privateCNI"} ELSE {}) \union {"chartsList"}
  BY <1>3, <1>4, Joined
<1> QED
  BY <1>5 DEF SetupSteps

LEMMA CreationList ==
    ASSUME NEW x \in Descriptor
    PROVE  /\ Within(CreationSteps(x), 5, 8)
           /\ StepsOf(CreationSteps(x)) =
                 (IF x.infra = "aws" /\ x.iam THEN {"iam"} ELSE {}) \union {"applyConfig", "applyKeos", "waitCluster", "waitControlPlane", "getKubeconfig", "workerSecret", "saveKubeconfig", "startRefresher"}
<1>0. /\ (x.infra = "aws" /\ x.iam) \in BOOLEAN
  BY DEF Descriptor, EKS, GKE
<1>1. Within(If(x.infra = "aws" /\ x.iam, <<"iam">>), 5, 5)
      /\ StepsOf(If(x.infra = "aws" /\ x.iam, <<"iam">>)) = (IF x.infra = "aws" /\ x.iam THEN {"iam"} ELSE {})
  <2>1. Within(<<"iam">>, 5, 5)
        /\ StepsOf(<<"iam">>) = {"iam"}
    BY Unranked, Ranked DEF Within, Key, StepsOf, AllSteps, PlainSteps, StatefulSteps
  <2> QED
    BY <2>1, <1>0, LeftOut
<1>2. Within(<<"applyConfig", "applyKeos", "waitCluster", "waitControlPlane", "getKubeconfig", "workerSecret", "saveKubeconfig", "startRefresher">>, 5, 8)
      /\ StepsOf(<<"applyConfig", "applyKeos", "waitCluster", "waitControlPlane", "getKubeconfig", "workerSecret", "saveKubeconfig", "startRefresher">>) = {"applyConfig", "applyKeos", "waitCluster", "waitControlPlane", "getKubeconfig", "workerSecret", "saveKubeconfig", "startRefresher"}
  BY Unranked, Ranked DEF Within, Key, StepsOf, AllSteps, PlainSteps, StatefulSteps
<1>3. Within(If(x.infra = "aws" /\ x.iam, <<"iam">>) \o <<"applyConfig", "applyKeos", "waitCluster", "waitControlPlane", "getKubeconfig", "workerSecret", "saveKubeconfig", "startRefresher">>, 5, 8)
      /\ StepsOf(If(x.infra = "aws" /\ x.iam, <<"iam">>) \o <<"applyConfig", "applyKeos", "waitCluster", "waitControlPlane", "getKubeconfig", "workerSecret", "saveKubeconfig", "startRefresher">>) =
            (IF x.infra = "aws" /\ x.iam THEN {"iam"} ELSE {}) \union {"applyConfig", "applyKeos", "waitCluster", "waitControlPlane", "getKubeconfig", "workerSecret", "saveKubeconfig", "startRefresher"}
  BY <1>1, <1>2, Joined
<1> QED
  BY <1>3 DEF CreationSteps

LEMMA NodeList ==
    ASSUME NEW x \in Descriptor
    PROVE  /\ Within(NodeSteps(x), 8, 10)
           /\ StepsOf(NodeSteps(x)) =
                 (IF ~x.managed THEN {"cloudProvider"} ELSE {}) \union (IF ~x.managed \/ x.infra = "aws" THEN {"calico"} ELSE {}) \union {"nodes"}
<1>0. /\ (~x.managed) \in BOOLEAN
      /\ (~x.managed \/ x.infra = "aws") \in BOOLEAN
  BY DEF Descriptor, EKS, GKE
<1>1. Within(If(~x.managed, <<"cloudProvider">>), 8, 9)
      /\ StepsOf(If(~x.managed, <<"cloudProvider">>)) = (IF ~x.managed THEN {"cloudProvider"} ELSE {})
  <2>1. Within(<<"cloudProvider">>, 8, 9)
        /\ StepsOf(<<"cloudProvider">>) = {"cloudProvider"}
    BY Unranked, Ranked DEF Within, Key, StepsOf, AllSteps, PlainSteps, StatefulSteps
  <2> QED
    BY <2>1, <1>0, LeftOut
<1>2. Within(If(~x.managed \/ x.infra = "aws", <<"calico">>), 9, 10)
      /\ StepsOf(If(~x.managed \/ x.infra = "aws", <<"calico">>)) = (IF ~x.managed \/ x.infra = "aws" THEN {"calico"} ELSE {})
  <2>1. Within(<<"calico">>, 9, 10)
        /\ StepsOf(<<"calico">>) = {"calico"}
    BY Unranked, Ranked DEF Within, Key, StepsOf, AllSteps, PlainSteps, StatefulSteps
  <2> QED
    BY <2>1, <1>0, LeftOut
<1>3. Within(If(~x.managed, <<"cloudProvider">>) \o If(~x.managed \/ x.infra = "aws", <<"calico">>), 8, 10)
      /\ StepsOf(If(~x.managed, <<"cloudProvider">>) \o If(~x.managed \/ x.infra = "aws", <<"calico">>)) =
            (IF ~x.managed THEN {"cloudProvider"} ELSE {}) \union (IF ~x.managed \/ x.infra = "aws" THEN {"calico"} ELSE {})
  BY <1>1, <1>2, Joined
<1>4. Within(<<"nodes">>, 10, 10)
      /\ StepsOf(<<"nodes">>) = {"nodes"}
  BY Unranked, Ranked DEF Within, Key, StepsOf, AllSteps, PlainSteps, StatefulSteps
<1>5. Within(If(~x.managed, <<"cloudProvider">>) \o If(~x.managed \/ x.infra = "aws", <<"calico">>) \o <<"nodes">>, 8, 10)
      /\ StepsOf(If(~x.managed, <<"cloudProvider">>) \o If(~x.managed \/ x.infra = "aws", <<"calico">>) \o <<"nodes">>) =
            (IF ~x.managed THEN {"cloudProvider"} ELSE {}) \union (IF ~x.managed \/ x.infra = "aws" THEN {"calico"} ELSE {}) \union {"nodes"}
  BY <1>3, <1>4, Joined
<1> QED
  BY <1>5 DEF NodeSteps

LEMMA CapxList ==
    ASSUME NEW x \in Descriptor
    PROVE  /\ Within(CapxSteps(x), 10, 12)
           /\ StepsOf(CapxSteps(x)) =
                 (IF GKE(x) THEN {"gkeCoreDNS"} ELSE {}) \union {"coreDNS", "certManagerWork", "capxWork", "capiWork"}
<1>0. /\ (GKE(x)) \in BOOLEAN
  BY DEF Descriptor, EKS, GKE
<1>1. Within(If(GKE(x), <<"gkeCoreDNS">>), 10, 10)
      /\ StepsOf(If(GKE(x), <<"gkeCoreDNS">>)) = (IF GKE(x) THEN {"gkeCoreDNS"} ELSE {})
  <2>1. Within(<<"gkeCoreDNS">>, 10, 10)
        /\ StepsOf(<<"gkeCoreDNS">>) = {"gkeCoreDNS"}
    BY Unranked, Ranked DEF Within, Key, StepsOf, AllSteps, PlainSteps, StatefulSteps
  <2> QED
    BY <2>1, <1>0, LeftOut
<1>2. Within(<<"coreDNS", "certManagerWork", "capxWork", "capiWork">>, 10, 12)
      /\ StepsOf(<<"coreDNS", "certManagerWork", "capxWork", "capiWork">>) = {"coreDNS", "certManagerWork", "capxWork", "capiWork"}
  BY Unranked, Ranked DEF Within, Key, StepsOf, AllSteps, PlainSteps, StatefulSteps
<1>3. Within(If(GKE(x), <<"gkeCoreDNS">>) \o <<"coreDNS", "certManagerWork", "capxWork", "capiWork">>, 10, 12)
      /\ StepsOf(If(GKE(x), <<"gkeCoreDNS">>) \o <<"coreDNS", "certManagerWork", "capxWork", "capiWork">>) =
            (IF GKE(x) THEN {"gkeCoreDNS"} ELSE {}) \union {"coreDNS", "certManagerWork", "capxWork", "capiWork"}
  BY <1>1, <1>2, Joined
<1> QED
  BY <1>3 DEF CapxSteps

LEMMA FluxList ==
    ASSUME NEW x \in Descriptor
    PROVE  /\ Within(FluxSteps(x), 12, 14)
           /\ StepsOf(FluxSteps(x)) =
                 (IF ~x.gitops THEN {"flux", "reconcileCharts"} ELSE {})
<1>0. /\ (~x.gitops) \in BOOLEAN
  BY DEF Descriptor, EKS, GKE
<1>1. Within(If(~x.gitops, <<"flux", "reconcileCharts">>), 12, 14)
      /\ StepsOf(If(~x.gitops, <<"flux", "reconcileCharts">>)) = (IF ~x.gitops THEN {"flux", "reconcileCharts"} ELSE {})
  <2>1. Within(<<"flux", "reconcileCharts">>, 12, 14)
        /\ StepsOf(<<"flux", "reconcileCharts">>) = {"flux", "reconcileCharts"}
    BY Unranked, Ranked DEF Within, Key, StepsOf, AllSteps, PlainSteps, StatefulSteps
  <2> QED
    BY <2>1, <1>0, LeftOut
<1> QED
  BY <1>1 DEF FluxSteps

LEMMA FixedLists ==
    /\ Within(ManagerSteps, 2, 4)
    /\ StepsOf(ManagerSteps) = {"certManagerLocal", "capxLocal", "secretsFile", "descriptorFile"}
    /\ Within(NamespaceSteps, 4, 5)
    /\ StepsOf(NamespaceSteps) = {"createNs", "netpolFile", "operatorLocal"}
    /\ Within(PolicySteps, 14, 15)
    /\ StepsOf(PolicySteps) = {"selfHealing", "netpols"}
    /\ Within(BackupSteps, 19, 21)
    /\ StepsOf(BackupSteps) = {"backup", "copyBackup"}
  BY Unranked, Ranked
     DEF Within, Key, StepsOf, AllSteps, PlainSteps, StatefulSteps, ManagerSteps, NamespaceSteps, PolicySteps, BackupSteps

LEMMA OperatorList ==
    ASSUME NEW x \in Descriptor
    PROVE  /\ Within(OperatorSteps(x), 15, 19)
           /\ StepsOf(OperatorSteps(x)) =
                 (IF ~x.managed THEN {"csi"} ELSE {}) \union {"storageClass"} \union
                 (IF ~x.gitops
                  THEN (IF x.autoscaler /\ (~x.managed \/ x.infra = "aws") THEN {"autoscaler"} ELSE {})
                       \union {"operatorWork"}
                  ELSE {}) \union
                 (IF x.forwarders THEN {"customDNS"} ELSE {}) \union
                 (IF x.infra = "gcp" THEN {"rbac"} ELSE {}) \union
                 (IF ~x.gitops /\ EKS(x) /\ x.lbctl THEN {"lbController"} ELSE {})
<1> DEFINE autoscaled == x.autoscaler /\ (~x.managed \/ x.infra = "aws")
           balanced == ~x.gitops /\ EKS(x) /\ x.lbctl
           csi == If(~x.managed, <<"csi">>)
           auto == If(autoscaled, <<"autoscaler">>)
           ops == If(~x.gitops, auto \o <<"operatorWork">>)
           dns == If(x.forwarders, <<"customDNS">>)
           rbac == If(x.infra = "gcp", <<"rbac">>)
           lb == If(balanced, <<"lbController">>)
<1>0. /\ (~x.managed) \in BOOLEAN /\ autoscaled \in BOOLEAN /\ balanced \in BOOLEAN
      /\ (~x.gitops) \in BOOLEAN /\ x.forwarders \in BOOLEAN /\ (x.infra = "gcp") \in BOOLEAN
  BY DEF Descriptor, EKS
<1>1. /\ Within(<<"csi">>, 15, 16) /\ Within(<<"storageClass">>, 16, 16)
      /\ Within(<<"autoscaler">>, 16, 17) /\ Within(<<"operatorWork">>, 17, 18)
      /\ Within(<<"customDNS">>, 18, 18) /\ Within(<<"rbac">>, 18, 18)
      /\ Within(<<"lbController">>, 18, 19)
  BY Unranked, Ranked DEF Within, Key, AllSteps, PlainSteps, StatefulSteps
<1>a. \A l : StepsOf(<<l>>) = {l}
  BY DEF StepsOf
<1>2. Within(csi, 15, 16) /\ StepsOf(csi) = IF ~x.managed THEN {"csi"} ELSE {}
  BY <1>0, <1>1, <1>a, LeftOut
<1>3. Within(auto, 16, 17) /\ StepsOf(auto) = IF autoscaled THEN {"autoscaler"} ELSE {}
  BY <1>0, <1>1, <1>a, LeftOut
<1>b. Within(<<"customDNS">>, 18, 18) /\ StepsOf(<<"customDNS">>) = {"customDNS"}
  BY <1>1, <1>a
<1>4. Within(dns, 18, 18) /\ StepsOf(dns) = IF x.forwarders THEN {"customDNS"} ELSE {}
  <2>1. \A b \in BOOLEAN :
           /\ Within(If(b, <<"customDNS">>), 18, 18)
           /\ StepsOf(If(b, <<"customDNS">>)) = IF b THEN {"customDNS"} ELSE {}
    BY <1>b, LeftOut
  <2> QED
    BY <1>0, <2>1, Zenon
<1>5. Within(rbac, 18, 18) /\ StepsOf(rbac) = IF x.infra = "gcp" THEN {"rbac"} ELSE {}
  BY <1>0, <1>1, <1>a, LeftOut
<1>6. Within(lb, 18, 19) /\ StepsOf(lb) = IF balanced THEN {"lbController"} ELSE {}
  BY <1>0, <1>1, <1>a, LeftOut
<1>7. /\ Within(ops, 16, 18)
      /\ StepsOf(ops) = IF ~x.gitops THEN StepsOf(auto) \union {"operatorWork"} ELSE {}
  <2>1. Within(auto \o <<"operatorWork">>, 16, 18)
        /\ StepsOf(auto \o <<"operatorWork">>) = StepsOf(auto) \union {"operatorWork"}
    <3> HIDE DEF auto
    <3> QED
      BY <1>1, <1>a, <1>3, Joined
  <2>2. Within(ops, 16, 18)
        /\ StepsOf(ops) = IF ~x.gitops THEN StepsOf(auto \o <<"operatorWork">>) ELSE {}
    BY <1>0, <2>1, LeftOut
  <2> QED
    BY <2>1, <2>2
<1>8. OperatorSteps(x) = csi \o <<"storageClass">> \o ops \o dns \o rbac \o lb
  BY DEF OperatorSteps
<1> HIDE DEF csi, ops, dns, rbac, lb
<1>9. Within(csi \o <<"storageClass">>, 15, 16)
      /\ StepsOf(csi \o <<"storageClass">>) = StepsOf(csi) \union {"storageClass"}
  BY <1>1, <1>a, <1>2, Joined
<1>10. Within(csi \o <<"storageClass">> \o ops, 15, 18)
       /\ StepsOf(csi \o <<"storageClass">> \o ops) =
             StepsOf(csi) \union {"storageClass"} \union StepsOf(ops)
  BY <1>7, <1>9, Joined
<1>11. Within(csi \o <<"storageClass">> \o ops \o dns, 15, 18)
       /\ StepsOf(csi \o <<"storageClass">> \o ops \o dns) =
             StepsOf(csi) \union {"storageClass"} \union StepsOf(ops) \union StepsOf(dns)
  BY <1>4, <1>10, Joined
<1>12. Within(csi \o <<"storageClass">> \o ops \o dns \o rbac, 15, 18)
       /\ StepsOf(csi \o <<"storageClass">> \o ops \o dns \o rbac) =
             StepsOf(csi) \union {"storageClass"} \union StepsOf(ops) \union StepsOf(dns)
             \union StepsOf(rbac)
  BY <1>5, <1>11, Joined
<1>13. Within(csi \o <<"storageClass">> \o ops \o dns \o rbac \o lb, 15, 19)
       /\ StepsOf(csi \o <<"storageClass">> \o ops \o dns \o rbac \o lb) =
             StepsOf(csi) \union {"storageClass"} \union StepsOf(ops) \union StepsOf(dns)
             \union StepsOf(rbac) \union StepsOf(lb)
  BY <1>6, <1>12, Joined
<1> QED
  BY <1>2, <1>3, <1>4, <1>5, <1>6, <1>7, <1>8, <1>13

LEMMA PivotList ==
    ASSUME NEW x \in Descriptor
    PROVE  /\ Within(PivotSteps(x), 21, 28)
           /\ StepsOf(PivotSteps(x)) =
                 {"uninstallOperator", "workNs", "move"} \union
                 (IF ~x.gitops
                  THEN {"rollout", "patchConfig", "copyConfig", "deleteConfig",
                        "copyKeos", "patchKeos", "deleteKeos", "redeployOperator"}
                       \union (IF x.role THEN {"identity"} ELSE {})
                  ELSE {})
<1> DEFINE first == <<"uninstallOperator", "workNs", "move">>
           second == <<"rollout", "patchConfig", "copyConfig", "deleteConfig",
                       "copyKeos", "patchKeos", "deleteKeos", "redeployOperator">>
           last == If(x.role, <<"identity">>)
<1>0. (~x.gitops) \in BOOLEAN /\ x.role \in BOOLEAN
  BY DEF Descriptor
<1>1. Within(first, 21, 23) /\ StepsOf(first) = {"uninstallOperator", "workNs", "move"}
  BY Unranked, Ranked DEF Within, Key, StepsOf, AllSteps, PlainSteps, StatefulSteps
<1>2. /\ Within(second, 23, 28)
      /\ StepsOf(second) = {"rollout", "patchConfig", "copyConfig", "deleteConfig",
                            "copyKeos", "patchKeos", "deleteKeos", "redeployOperator"}
  <2>1. second \in Seq(AllSteps) /\ DOMAIN second = 1..8
    BY DEF AllSteps, PlainSteps, StatefulSteps
  <2>2. StepsOf(second) = {"rollout", "patchConfig", "copyConfig", "deleteConfig",
                           "copyKeos", "patchKeos", "deleteKeos", "redeployOperator"}
    BY DEF StepsOf
  <2>3. /\ Rank(second[1]) = 0 /\ Rank(second[2]) = 0 /\ Rank(second[3]) = 24
        /\ Rank(second[4]) = 25 /\ Rank(second[5]) = 26 /\ Rank(second[6]) = 0
        /\ Rank(second[7]) = 27 /\ Rank(second[8]) = 28
    BY Unranked, Ranked
  <2> HIDE DEF second
  <2>4. \A i \in 1..8 : i = 1 \/ i = 2 \/ i = 3 \/ i = 4 \/ i = 5 \/ i = 6 \/ i = 7 \/ i = 8
    OBVIOUS
  <2>5. \A i \in 1..8 : Key(second[i]) => 23 < Rank(second[i]) /\ Rank(second[i]) <= 28
    BY <2>3, <2>4 DEF Key
  <2>6. \A i, j \in 1..8 :
           i < j /\ Key(second[i]) /\ Key(second[j]) => Rank(second[i]) < Rank(second[j])
    BY <2>3, <2>4 DEF Key
  <2> QED
    BY <2>1, <2>2, <2>5, <2>6 DEF Within
<1>3. Within(<<"identity">>, 28, 28) /\ StepsOf(<<"identity">>) = {"identity"}
  BY Unranked, Ranked DEF Within, Key, StepsOf, AllSteps, PlainSteps, StatefulSteps
<1>4. Within(last, 28, 28) /\ StepsOf(last) = IF x.role THEN {"identity"} ELSE {}
  <2>1. \A b \in BOOLEAN :
           /\ Within(If(b, <<"identity">>), 28, 28)
           /\ StepsOf(If(b, <<"identity">>)) = IF b THEN {"identity"} ELSE {}
    BY <1>3, LeftOut
  <2> QED
    BY <1>0, <2>1, Zenon
<1>5. PivotSteps(x) = first \o If(~x.gitops, second \o last)
  BY DEF PivotSteps
<1> HIDE DEF first, second, last
<1>6. Within(second \o last, 23, 28) /\ StepsOf(second \o last) = StepsOf(second) \union StepsOf(last)
  BY <1>2, <1>4, Joined
<1>7. /\ Within(If(~x.gitops, second \o last), 23, 28)
      /\ StepsOf(If(~x.gitops, second \o last)) =
            IF ~x.gitops THEN StepsOf(second) \union StepsOf(last) ELSE {}
  BY <1>0, <1>6, LeftOut
<1>8. /\ Within(first \o If(~x.gitops, second \o last), 21, 28)
      /\ StepsOf(first \o If(~x.gitops, second \o last)) =
            StepsOf(first) \union IF ~x.gitops THEN StepsOf(second) \union StepsOf(last) ELSE {}
  BY <1>1, <1>7, Joined
<1> QED
  BY <1>1, <1>2, <1>4, <1>5, <1>8

(* The workload cluster's part.                                            *)
LEMMA WorkloadList ==
    ASSUME NEW x \in Descriptor
    PROVE  /\ Within(WorkloadSteps(x), 5, 28)
           /\ StepsOf(WorkloadSteps(x)) =
                 StepsOf(CreationSteps(x)) \union StepsOf(NodeSteps(x)) \union
                 StepsOf(CapxSteps(x)) \union StepsOf(FluxSteps(x)) \union
                 StepsOf(PolicySteps) \union StepsOf(OperatorSteps(x)) \union
                 StepsOf(BackupSteps) \union
                 (IF ~Keep(x) THEN StepsOf(PivotSteps(x)) ELSE {}) \union {"postInstall"}
<1> DEFINE a == CreationSteps(x) \o NodeSteps(x)
           b == a \o CapxSteps(x)
           c == b \o FluxSteps(x)
           e == c \o PolicySteps
           f == e \o OperatorSteps(x)
           g == f \o BackupSteps
           h == g \o If(~Keep(x), PivotSteps(x))
<1>1. Within(a, 5, 10) /\ StepsOf(a) = StepsOf(CreationSteps(x)) \union StepsOf(NodeSteps(x))
  BY CreationList, NodeList, Joined
<1>2. Within(b, 5, 12) /\ StepsOf(b) = StepsOf(a) \union StepsOf(CapxSteps(x))
  <2> HIDE DEF a
  <2> QED
    BY <1>1, CapxList, Joined
<1>3. Within(c, 5, 14) /\ StepsOf(c) = StepsOf(b) \union StepsOf(FluxSteps(x))
  <2> HIDE DEF b
  <2> QED
    BY <1>2, FluxList, Joined
<1>4. Within(e, 5, 15) /\ StepsOf(e) = StepsOf(c) \union StepsOf(PolicySteps)
  <2> HIDE DEF c
  <2> QED
    BY <1>3, FixedLists, Joined
<1>5. Within(f, 5, 19) /\ StepsOf(f) = StepsOf(e) \union StepsOf(OperatorSteps(x))
  <2> HIDE DEF e
  <2> QED
    BY <1>4, OperatorList, Joined
<1>6. Within(g, 5, 21) /\ StepsOf(g) = StepsOf(f) \union StepsOf(BackupSteps)
  <2> HIDE DEF f
  <2> QED
    BY <1>5, FixedLists, Joined
<1>7. /\ Within(If(~Keep(x), PivotSteps(x)), 21, 28)
      /\ StepsOf(If(~Keep(x), PivotSteps(x))) = IF ~Keep(x) THEN StepsOf(PivotSteps(x)) ELSE {}
  <2>1. (~Keep(x)) \in BOOLEAN
    BY DEF Keep
  <2> QED
    BY <2>1, PivotList, LeftOut
<1>8. /\ Within(h, 5, 28)
      /\ StepsOf(h) = StepsOf(g) \union IF ~Keep(x) THEN StepsOf(PivotSteps(x)) ELSE {}
  <2> HIDE DEF g
  <2> QED
    BY <1>6, <1>7, Joined
<1>9. Within(<<"postInstall">>, 28, 28) /\ StepsOf(<<"postInstall">>) = {"postInstall"}
  BY Unranked, Ranked DEF Within, Key, StepsOf, AllSteps, PlainSteps, StatefulSteps
<1>10. Within(h \o <<"postInstall">>, 5, 28)
       /\ StepsOf(h \o <<"postInstall">>) = StepsOf(h) \union {"postInstall"}
  <2> HIDE DEF h
  <2> QED
    BY <1>8, <1>9, Joined
<1>11. WorkloadSteps(x) = h \o <<"postInstall">>
  BY DEF WorkloadSteps
<1> HIDE DEF a, b, c, e, f, g, h
<1> QED
  BY <1>1, <1>2, <1>3, <1>4, <1>5, <1>6, <1>8, <1>10, <1>11

(* Execute does its steps in order, and those of the pivot come together.  *)
LEMMA ExecuteList ==
    ASSUME NEW x \in Descriptor
    PROVE  /\ Within(Execute(x), 0, 28)
           /\ StepsOf(Execute(x)) =
                 StepsOf(SetupSteps(x)) \union StepsOf(ManagerSteps) \union
                 StepsOf(NamespaceSteps) \union
                 (IF ~Avoid(x) THEN StepsOf(WorkloadSteps(x)) ELSE {}) \union
                 {"keosDescriptor", "overrideVars"} \union
                 (IF ~Avoid(x) THEN {"stopRefresher"} ELSE {})
<1> DEFINE a == SetupSteps(x) \o ManagerSteps
           b == a \o NamespaceSteps
           c == b \o If(~Avoid(x), WorkloadSteps(x))
           e == c \o <<"keosDescriptor", "overrideVars">>
<1>0. (~Avoid(x)) \in BOOLEAN
  BY DEF Avoid
<1>1. Within(a, 0, 4) /\ StepsOf(a) = StepsOf(SetupSteps(x)) \union StepsOf(ManagerSteps)
  BY SetupList, FixedLists, Joined
<1>2. Within(b, 0, 5) /\ StepsOf(b) = StepsOf(a) \union StepsOf(NamespaceSteps)
  <2> HIDE DEF a
  <2> QED
    BY <1>1, FixedLists, Joined
<1>3. /\ Within(If(~Avoid(x), WorkloadSteps(x)), 5, 28)
      /\ StepsOf(If(~Avoid(x), WorkloadSteps(x))) = IF ~Avoid(x) THEN StepsOf(WorkloadSteps(x)) ELSE {}
  BY <1>0, WorkloadList, LeftOut
<1>4. /\ Within(c, 0, 28)
      /\ StepsOf(c) = StepsOf(b) \union IF ~Avoid(x) THEN StepsOf(WorkloadSteps(x)) ELSE {}
  <2> HIDE DEF b
  <2> QED
    BY <1>2, <1>3, Joined
<1>5. /\ Within(<<"keosDescriptor", "overrideVars">>, 28, 28)
      /\ StepsOf(<<"keosDescriptor", "overrideVars">>) = {"keosDescriptor", "overrideVars"}
      /\ Within(<<"stopRefresher">>, 28, 28) /\ StepsOf(<<"stopRefresher">>) = {"stopRefresher"}
  BY Unranked, Ranked DEF Within, Key, StepsOf, AllSteps, PlainSteps, StatefulSteps
<1>6. Within(e, 0, 28) /\ StepsOf(e) = StepsOf(c) \union {"keosDescriptor", "overrideVars"}
  <2> HIDE DEF c
  <2> QED
    BY <1>4, <1>5, Joined
<1>7. /\ Within(If(~Avoid(x), <<"stopRefresher">>), 28, 28)
      /\ StepsOf(If(~Avoid(x), <<"stopRefresher">>)) = IF ~Avoid(x) THEN {"stopRefresher"} ELSE {}
  BY <1>0, <1>5, LeftOut
<1>8. /\ Within(e \o If(~Avoid(x), <<"stopRefresher">>), 0, 28)
      /\ StepsOf(e \o If(~Avoid(x), <<"stopRefresher">>)) =
            StepsOf(e) \union IF ~Avoid(x) THEN {"stopRefresher"} ELSE {}
  <2> HIDE DEF e
  <2> QED
    BY <1>6, <1>7, Joined
<1>9. Execute(x) = e \o If(~Avoid(x), <<"stopRefresher">>)
  BY DEF Execute
<1> HIDE DEF a, b, c, e
<1> QED
  BY <1>1, <1>2, <1>4, <1>6, <1>8, <1>9

(* Which of the steps that matter Execute does, and that some of them only *)
(* come together.                                                          *)
LEMMA Together ==
    ASSUME NEW x \in Descriptor
    PROVE  LET E == StepsOf(Execute(x))
           IN  /\ "copyKeos" \in E \/ "deleteKeos" \in E => "uninstallOperator" \in E
               /\ "redeployOperator" \in E => "deleteKeos" \in E
               /\ "deleteKeos" \in E => "copyKeos" \in E
               /\ "deleteConfig" \in E => "copyConfig" \in E
               /\ "applyKeos" \in E => "applyConfig" \in E
               /\ "move" \in E => "backup" \in E /\ "copyBackup" \in E
               /\ ~Avoid(x) => {"capxLocal", "waitCluster", "capxWork", "selfHealing"} \subseteq E
               /\ ~Avoid(x) => ("move" \in E <=> ~Keep(x))
               /\ Avoid(x) => "move" \notin E
  BY ExecuteList, WorkloadList, SetupList, CreationList, NodeList, CapxList, FluxList,
     FixedLists, OperatorList, PivotList

-----------------------------------------------------------------------------
Left == IF phase = "execute" THEN StepsOf(todo) ELSE {}

(* The steps that matter and are still ahead.                              *)
Ahead == {l \in Left : Key(l)}

(* Of the steps that matter, those done come before those ahead.           *)
Plan ==
    /\ phase = "execute" => Within(todo, 0, 28)
    /\ Ahead \subseteq StepsOf(Execute(d))
    /\ \A l \in StepsOf(Execute(d)) :
          Key(l) /\ l \notin Ahead => \A m \in Ahead : Rank(l) < Rank(m)

LEMMA AtHead ==
    ASSUME Plan, NEW l, At(l)
    PROVE  /\ l \in Left
           /\ Key(l) => l \in Ahead /\ \A m \in Ahead : m # l => Rank(l) < Rank(m)
<1>1. todo \in Seq(AllSteps) /\ todo # <<>> /\ Head(todo) = l /\ Left = StepsOf(todo)
  BY DEF At, Plan, Within, Left
<1>2. 1 \in DOMAIN todo /\ todo[1] = l /\ \A i \in DOMAIN todo : i \in Nat /\ (i # 1 => 1 < i)
  BY <1>1
<1>3. l \in Left
  BY <1>1, <1>2 DEF StepsOf
<1>4. ASSUME Key(l), NEW m \in Ahead, m # l PROVE Rank(l) < Rank(m)
  <2>1. PICK i \in DOMAIN todo : todo[i] = m
    BY <1>1, <1>4 DEF Ahead, StepsOf
  <2>2. 1 < i /\ Key(todo[i])
    BY <1>2, <1>4, <2>1 DEF Ahead
  <2> QED
    BY <1>2, <1>4, <2>1, <2>2 DEF Plan, Within, At
<1> QED
  BY <1>3, <1>4 DEF Ahead

(* A step done is no longer ahead, and nothing else changes.               *)
LEMMA Advance ==
    ASSUME Plan, NEW l, At(l), Proceed
    PROVE  /\ phase' = "execute" /\ Within(todo', 0, 28)
           /\ Ahead' = Ahead \ {l}
<1>1. todo \in Seq(AllSteps) /\ todo # <<>> /\ Head(todo) = l /\ Left = StepsOf(todo)
  BY DEF At, Plan, Within, Left
<1>2. /\ Len(todo) \in Nat /\ Len(todo) >= 1 /\ DOMAIN todo = 1..Len(todo) /\ todo[1] = l
      /\ Tail(todo) \in Seq(AllSteps) /\ DOMAIN Tail(todo) = 1..(Len(todo) - 1)
  BY <1>1
<1>3. \A i \in DOMAIN Tail(todo) : i + 1 \in DOMAIN todo /\ Tail(todo)[i] = todo[i + 1]
  BY <1>1, <1>2
<1>4. phase' = "execute" /\ phase = "execute" /\ todo' = Tail(todo)
  BY DEF Proceed, At
<1>5. Within(todo', 0, 28)
  <2>1. \A i \in DOMAIN todo' : Key(todo'[i]) => 0 < Rank(todo'[i]) /\ Rank(todo'[i]) <= 28
    BY <1>3, <1>4 DEF Plan, Within
  <2>2. \A i, j \in DOMAIN todo' :
           i < j /\ Key(todo'[i]) /\ Key(todo'[j]) => Rank(todo'[i]) < Rank(todo'[j])
    <3> SUFFICES ASSUME NEW i \in DOMAIN todo', NEW j \in DOMAIN todo',
                        i < j, Key(todo'[i]), Key(todo'[j])
                 PROVE  Rank(todo'[i]) < Rank(todo'[j])
      OBVIOUS
    <3>1. i + 1 < j + 1 /\ i + 1 \in DOMAIN todo /\ j + 1 \in DOMAIN todo
      BY <1>2, <1>3, <1>4
    <3> QED
      BY <1>3, <1>4, <3>1 DEF Plan, Within
  <2> QED
    BY <1>2, <1>4, <2>1, <2>2 DEF Within
<1>6. Left' = StepsOf(todo')
  BY <1>4 DEF Left
<1>7. Left' \subseteq Left
  BY <1>1, <1>3, <1>4, <1>6 DEF StepsOf
<1>8. ASSUME NEW m \in Left, m # l PROVE m \in Left'
  <2>1. PICK i \in DOMAIN todo : todo[i] = m
    BY <1>1 DEF StepsOf
  <2>2. i - 1 \in DOMAIN Tail(todo) /\ Tail(todo)[i - 1] = m
    BY <1>2, <1>3, <1>8, <2>1
  <2> QED
    BY <1>4, <1>6, <2>2 DEF StepsOf
<1>9. ASSUME Key(l), l \in Left' PROVE FALSE
  <2>1. PICK i \in DOMAIN Tail(todo) : Tail(todo)[i] = l
    BY <1>4, <1>6, <1>9 DEF StepsOf
  <2>2. i + 1 \in DOMAIN todo /\ todo[i + 1] = l /\ 1 \in DOMAIN todo /\ 1 < i + 1
    BY <1>2, <1>3, <2>1
  <2>3. Rank(l) < Rank(l)
    BY <1>2, <1>4, <1>9, <2>2 DEF Plan, Within
  <2> QED
    BY <2>3, RankType
<1> QED
  BY <1>4, <1>5, <1>7, <1>8, <1>9 DEF Ahead

LEMMA NothingAhead == phase # "execute" => Ahead = {}
  BY DEF Ahead, Left

(* Companions of Together, for the steps that are ahead.                   *)
LEMMA TogetherAhead ==
    ASSUME Plan, d \in Descriptor
    PROVE  /\ ("copyKeos" \in Ahead \/ "deleteKeos" \in Ahead) /\ "operatorLocal" \in Ahead
                => "uninstallOperator" \in Ahead
           /\ "redeployOperator" \in Ahead /\ "applyKeos" \in Ahead => "deleteKeos" \in Ahead
           /\ "deleteKeos" \in Ahead /\ "applyKeos" \in Ahead => "copyKeos" \in Ahead
           /\ "deleteConfig" \in Ahead /\ "applyConfig" \in Ahead => "copyConfig" \in Ahead
           /\ "move" \in Ahead /\ "backup" \in Ahead => "copyBackup" \in Ahead
           /\ Keep(d) => "move" \notin Ahead
<1> DEFINE E == StepsOf(Execute(d))
<1>1. Ahead \subseteq E
  BY DEF Plan
<1>2. ASSUME NEW l \in E, NEW m \in Ahead, Key(l), ~(Rank(l) < Rank(m)) PROVE l \in Ahead
  BY <1>2 DEF Plan
<1>3. Keep(d) => ~Avoid(d)
  BY DEF Keep, Avoid
<1>4. /\ Key("uninstallOperator") /\ ~(Rank("uninstallOperator") < Rank("operatorLocal"))
      /\ Key("deleteKeos") /\ ~(Rank("deleteKeos") < Rank("applyKeos"))
      /\ Key("copyKeos") /\ ~(Rank("copyKeos") < Rank("applyKeos"))
      /\ Key("copyConfig") /\ ~(Rank("copyConfig") < Rank("applyConfig"))
      /\ Key("copyBackup") /\ ~(Rank("copyBackup") < Rank("backup"))
  BY Ranked DEF Key
<1> HIDE DEF E
<1>5. /\ "copyKeos" \in E \/ "deleteKeos" \in E => "uninstallOperator" \in E
      /\ "redeployOperator" \in E => "deleteKeos" \in E
      /\ "deleteKeos" \in E => "copyKeos" \in E
      /\ "deleteConfig" \in E => "copyConfig" \in E
      /\ "move" \in E => "copyBackup" \in E
      /\ Keep(d) => "move" \notin E
  BY <1>3, Together DEF E
<1> QED
  BY <1>1, <1>2, <1>4, <1>5

-----------------------------------------------------------------------------
(* Types.  TypeOK says nothing of the fields of charts; the typing of the  *)
(* operator's version needs them to be there.                              *)
ChartFields == {"dict", "asked", "pulled", "values", "repos", "releases", "operator"}

ChartsTyped(ch) ==
    /\ DOMAIN ch = ChartFields
    /\ ch.repos \subseteq {"keos"} \union DOMAIN ch.dict
    /\ ch.operator \in {"", "v1", "v2"}

Typing == TypeOK /\ ChartsTyped(charts)

LEMMA ChartsKept ==
    ASSUME NEW ch, NEW x, ChartsTyped(ch)
    PROVE  /\ ChartsTyped(AfterPull(ch, x))
           /\ ChartsTyped(AfterLookup(ch, x))
           /\ ChartsTyped(AfterFlux(ch, x))
           /\ \A l : ChartsTyped(AfterInstall(l, ch, x)) /\ ChartsTyped(AfterRelease(l, ch, x))
           /\ \A v \in OperatorVersions(ch) :
                 ChartsTyped(OperatorPulled(ch, v)) /\ ChartsTyped(OperatorReleased(ch, v))
<1>1. \A dict, asked, private : DOMAIN GetGenericCharts(dict, asked, private) = DOMAIN dict
  BY DEF GetGenericCharts
<1>2. \A dict : DOMAIN WithLBController(dict, x) = DOMAIN dict
  BY DEF WithLBController
<1>3. ChartsTyped(AfterPull(ch, x))
  <2> DEFINE dict == GetGenericCharts(WithLBController(ch.dict, x), ch.asked, x.helmPrivate)
  <2>1. DOMAIN dict = DOMAIN ch.dict
    BY <1>1, <1>2
  <2>2. AfterPull(ch, x) = [ch EXCEPT !.dict = dict, !.pulled = PulledCharts(dict),
                                      !.asked = ConvertToChart(dict)]
    BY DEF AfterPull
  <2> HIDE DEF dict
  <2> QED
    BY <2>1, <2>2 DEF ChartsTyped, ChartFields
<1>4. ChartsTyped(AfterLookup(ch, x))
  BY <1>1 DEF ChartsTyped, ChartFields, AfterLookup
<1>5. ChartsTyped(AfterFlux(ch, x))
  BY DEF ChartsTyped, ChartFields, AfterFlux
<1>6. ASSUME NEW l PROVE ChartsTyped(AfterInstall(l, ch, x))
  BY DEF ChartsTyped, ChartFields, AfterInstall
<1>7. ASSUME NEW l PROVE ChartsTyped(AfterRelease(l, ch, x))
  BY DEF ChartsTyped, ChartFields, AfterRelease
<1>8. ASSUME NEW v \in OperatorVersions(ch)
      PROVE  ChartsTyped(OperatorPulled(ch, v)) /\ ChartsTyped(OperatorReleased(ch, v))
  <2>1. v \in {"", "v1", "v2"}
    BY DEF OperatorVersions, ChartsTyped
  <2> QED
    BY <2>1 DEF ChartsTyped, ChartFields, OperatorPulled, OperatorReleased
<1> QED
  BY <1>3, <1>4, <1>5, <1>6, <1>7, <1>8

LEMMA TypedCommand ==
    ASSUME TypeOK, NEW l, NEW new \in [{"local", "work"} -> ClusterState],
           ExecuteCommand(l, new) \/ WaitFor(l, TRUE) \/ (At(l) /\ cl' = cl /\ (Proceed \/ GiveUp))
    PROVE  /\ phase' \in Phases /\ (phase' # "execute" => todo' = <<>>)
           /\ todo' \in Seq(PlainSteps \union StatefulSteps)
           /\ cl' \in [{"local", "work"} -> ClusterState]
<1> DEFINE S == PlainSteps \union StatefulSteps
<1>1. /\ todo \in Seq(S) /\ todo # <<>>
      /\ phase = "execute" /\ (Proceed \/ GiveUp)
      /\ cl' \in {cl, new}
  BY DEF TypeOK, ExecuteCommand, WaitFor, At
<1> HIDE DEF S
<1>2. Tail(todo) \in Seq(S) /\ <<>> \in Seq(S)
  BY <1>1
<1>3. /\ todo' \in {Tail(todo), <<>>} /\ phase' \in {"execute", "failed"}
      /\ (phase' # "execute" => todo' = <<>>)
  BY <1>1 DEF Proceed, GiveUp
<1> QED
  BY <1>1, <1>2, <1>3 DEF Phases, TypeOK, S

LEMMA TypedCharts ==
    ASSUME NEW new, ChartsTyped(charts), ChartsTyped(new), Charted(new)
    PROVE  ChartsTyped(charts')
<1>1. charts' \in {charts, new}
  BY DEF Charted
<1> QED
  BY <1>1

LEMMA InitTyping == Init => Typing
<1> SUFFICES ASSUME Init PROVE Typing
  OBVIOUS
<1>1. d \in Descriptors /\ d \in Descriptor /\ phase = "execute" /\ todo = Execute(d)
  BY DescriptorsAssumption DEF Init
<1>2. todo \in Seq(PlainSteps \union StatefulSteps)
  BY <1>1, ExecuteList DEF Within, AllSteps
<1>3. cl \in [{"local", "work"} -> ClusterState]
  BY DEF Init, Blank, ClusterState
<1>4. ChartsTyped(charts)
  BY DEF Init, ChartsTyped, ChartFields, NoCharts
<1> QED
  BY <1>1, <1>2, <1>3, <1>4 DEF Init, Typing, TypeOK, ChartsTyped, Phases

LEMMA TypingStep == Typing /\ [Next]_vars => Typing'
<1> DEFINE Cl == [{"local", "work"} -> ClusterState]
           Same == UNCHANGED <<d, alive, cloud, backup, refresher, misled>>
<1> SUFFICES ASSUME Typing, [Next]_vars PROVE Typing'
  OBVIOUS
<1>0. TypeOK /\ ChartsTyped(charts) /\ cl \in Cl
  BY DEF Typing, TypeOK
<1>e. <<>> \in Seq(PlainSteps \union StatefulSteps)
  OBVIOUS
<1>a. ASSUME NEW l, NEW new \in Cl, Same, UNCHANGED charts,
             ExecuteCommand(l, new) \/ WaitFor(l, TRUE)
      PROVE  Typing'
  <2>1. /\ phase' \in Phases /\ (phase' # "execute" => todo' = <<>>)
        /\ todo' \in Seq(PlainSteps \union StatefulSteps) /\ cl' \in Cl
    BY <1>0, <1>a, TypedCommand
  <2> QED
    BY <1>0, <1>a, <2>1 DEF Typing, TypeOK
<1>b. ASSUME NEW l, NEW new \in Cl, NEW ch, Same, ChartsTyped(ch), Charted(ch),
             ExecuteCommand(l, new) \/ WaitFor(l, TRUE)
      PROVE  Typing'
  <2>1. /\ phase' \in Phases /\ (phase' # "execute" => todo' = <<>>)
        /\ todo' \in Seq(PlainSteps \union StatefulSteps) /\ cl' \in Cl
    BY <1>0, <1>b, TypedCommand
  <2>2. ChartsTyped(charts')
    BY <1>0, <1>b, TypedCharts
  <2> QED
    BY <1>0, <1>b, <2>1, <2>2 DEF Typing, TypeOK, ChartsTyped
<1>c. ASSUME NEW l, At(l), UNCHANGED <<d, cl, alive, cloud, charts>>,
             Proceed \/ GiveUp, backup' \in {backup, "node", "host"},
             refresher' \in {refresher, "on", "stopped"}, UNCHANGED misled
      PROVE  Typing'
  <2>1. /\ phase' \in Phases /\ (phase' # "execute" => todo' = <<>>)
        /\ todo' \in Seq(PlainSteps \union StatefulSteps) /\ cl' \in Cl
    BY <1>0, <1>c, TypedCommand
  <2> QED
    BY <1>0, <1>c, <2>1 DEF Typing, TypeOK
<1>1. CASE UNCHANGED vars
  BY <1>1 DEF vars, Typing, TypeOK
<1>2. CASE PlainStep
  <2>1. PICK l \in PlainSteps : WaitFor(l, TRUE)
    BY <1>2 DEF PlainStep
  <2> QED
    BY <1>2, <1>0, <1>a, <2>1 DEF PlainStep
<1>3. CASE PullProviderCharts
  BY <1>3, <1>0, <1>b, ChartsKept DEF PullProviderCharts
<1>4. CASE GetProviderCharts
  <2>1. At("chartsList") /\ Proceed /\ cl' = cl
    BY <1>4 DEF GetProviderCharts
  <2>2. /\ phase' \in Phases /\ (phase' # "execute" => todo' = <<>>)
        /\ todo' \in Seq(PlainSteps \union StatefulSteps) /\ cl' \in Cl
    BY <1>0, <2>1, TypedCommand
  <2>3. ChartsTyped(charts')
    BY <1>4, <1>0, ChartsKept DEF GetProviderCharts
  <2> QED
    BY <1>4, <1>0, <2>2, <2>3 DEF GetProviderCharts, Typing, TypeOK, ChartsTyped
<1>5. CASE DeployCertManager \/ InstallCloudProvider \/ InstallCalico
  BY <1>5, <1>0, <1>b, ChartsKept
     DEF DeployCertManager, InstallCloudProvider, InstallCalico, InstallChart
<1>6. CASE ConfigureFlux
  BY <1>6, <1>0, <1>b, ChartsKept DEF ConfigureFlux
<1>7. CASE ReconcileCharts \/ InstallCSI \/ DeployClusterAutoscaler \/ InstallLBController
  <2>1. PICK l : ConfigureHelmRelease(l)
    BY <1>7 DEF ReconcileCharts, InstallCSI, DeployClusterAutoscaler, InstallLBController
  <2>2. PICK ch \in {charts, AfterRelease(l, charts, d)} : Charted(ch)
    BY <2>1 DEF ConfigureHelmRelease
  <2>3. ChartsTyped(ch)
    BY <1>0, <2>2, ChartsKept
  <2>4. WaitFor(l, TRUE) /\ Same
    BY <2>1 DEF ConfigureHelmRelease
  <2> QED
    BY <1>0, <1>b, <2>2, <2>3, <2>4
<1>8. CASE CapxLocal
  <2> DEFINE new == [cl EXCEPT !["local"].capx = "all"]
  <2>1. new \in Cl
    BY <1>0 DEF ClusterState
  <2>2. ExecuteCommand("capxLocal", new) /\ Same /\ UNCHANGED charts
    BY <1>8 DEF CapxLocal
  <2> HIDE DEF new
  <2> QED
    BY <1>a, <2>1, <2>2
<1>9. CASE ApplyConfig
  <2> DEFINE new == [cl EXCEPT !["local"].config = TRUE]
  <2>1. new \in Cl
    BY <1>0 DEF ClusterState
  <2>2. ExecuteCommand("applyConfig", new) /\ Same /\ UNCHANGED charts
    BY <1>9 DEF ApplyConfig
  <2> HIDE DEF new
  <2> QED
    BY <1>a, <2>1, <2>2
<1>10. CASE ApplyKeos
  <2> DEFINE new == [cl EXCEPT !["local"].keos = TRUE]
  <2>1. new \in Cl
    BY <1>0 DEF ClusterState
  <2>2. ExecuteCommand("applyKeos", new) /\ Same /\ UNCHANGED charts
    BY <1>10 DEF ApplyKeos
  <2> HIDE DEF new
  <2> QED
    BY <1>a, <2>1, <2>2
<1>11. CASE CapxWork
  <2> DEFINE new == [cl EXCEPT !["work"].capx = "all"]
  <2>1. new \in Cl
    BY <1>0 DEF ClusterState
  <2>2. ExecuteCommand("capxWork", new) /\ Same /\ UNCHANGED charts
    BY <1>11 DEF CapxWork
  <2> HIDE DEF new
  <2> QED
    BY <1>a, <2>1, <2>2
<1>12. CASE ConfigCAPIWorker
  <2> DEFINE new == [cl EXCEPT !["work"].capx = IF d.managed THEN "noKubeadm" ELSE @]
  <2>1. new \in Cl
    BY <1>0 DEF ClusterState
  <2>2. ExecuteCommand("capiWork", new) /\ Same /\ UNCHANGED charts
    BY <1>12 DEF ConfigCAPIWorker
  <2> HIDE DEF new
  <2> QED
    BY <1>a, <2>1, <2>2
<1>13. CASE EnableSelfHealing
  <2> DEFINE new == [cl EXCEPT !["local"].mhc = TRUE]
  <2>1. new \in Cl
    BY <1>0 DEF ClusterState
  <2>2. ExecuteCommand("selfHealing", new) /\ Same /\ UNCHANGED charts
    BY <1>13 DEF EnableSelfHealing
  <2> HIDE DEF new
  <2> QED
    BY <1>a, <2>1, <2>2
<1>14. CASE UninstallOperator
  <2> DEFINE new == [cl EXCEPT !["local"].op = "none"]
  <2>1. new \in Cl
    BY <1>0 DEF ClusterState
  <2>2. ExecuteCommand("uninstallOperator", new) /\ Same /\ UNCHANGED charts
    BY <1>14 DEF UninstallOperator
  <2> HIDE DEF new
  <2> QED
    BY <1>a, <2>1, <2>2
<1>15. CASE PatchConfig
  <2> DEFINE new == [cl EXCEPT !["local"].configFin = FALSE]
  <2>1. new \in Cl
    BY <1>0 DEF ClusterState
  <2>2. ExecuteCommand("patchConfig", new) /\ Same /\ UNCHANGED charts
    BY <1>15 DEF PatchConfig
  <2> HIDE DEF new
  <2> QED
    BY <1>a, <2>1, <2>2
<1>16. CASE CopyConfig
  <2> DEFINE new == [cl EXCEPT !["work"].config = cl["local"].config]
  <2>1. new \in Cl
    BY <1>0 DEF ClusterState
  <2>2. ExecuteCommand("copyConfig", new) /\ Same /\ UNCHANGED charts
    BY <1>16 DEF CopyConfig
  <2> HIDE DEF new
  <2> QED
    BY <1>a, <2>1, <2>2
<1>17. CASE DeleteConfig
  <2> DEFINE new == [cl EXCEPT !["local"].config = FALSE, !["local"].configFin = FALSE]
  <2>1. new \in Cl
    BY <1>0 DEF ClusterState
  <2>2. ExecuteCommand("deleteConfig", new) /\ Same /\ UNCHANGED charts
    BY <1>17 DEF DeleteConfig
  <2> HIDE DEF new
  <2> QED
    BY <1>a, <2>1, <2>2
<1>18. CASE CopyKeos
  <2> DEFINE new == [cl EXCEPT !["work"].keos = cl["local"].keos,
                               !["work"].keosFin = cl["local"].keosFin]
  <2>1. new \in Cl
    BY <1>0 DEF ClusterState
  <2>2. ExecuteCommand("copyKeos", new) /\ Same /\ UNCHANGED charts
    BY <1>18 DEF CopyKeos
  <2> HIDE DEF new
  <2> QED
    BY <1>a, <2>1, <2>2
<1>19. CASE PatchKeos
  <2> DEFINE new == [cl EXCEPT !["local"].keosFin = FALSE]
  <2>1. new \in Cl
    BY <1>0 DEF ClusterState
  <2>2. ExecuteCommand("patchKeos", new) /\ Same /\ UNCHANGED charts
    BY <1>19 DEF PatchKeos
  <2> HIDE DEF new
  <2> QED
    BY <1>a, <2>1, <2>2
<1>20. CASE RedeployOperator
  <2> DEFINE new == [cl EXCEPT !["local"].op = "ready"]
  <2>1. new \in Cl
    BY <1>0 DEF ClusterState
  <2>2. ExecuteCommand("redeployOperator", new) /\ Same /\ UNCHANGED charts
    BY <1>20 DEF RedeployOperator
  <2> HIDE DEF new
  <2> QED
    BY <1>a, <2>1, <2>2
<1>21. CASE OperatorLocal
  <2> DEFINE new == [cl EXCEPT !["local"].op = "ready"]
  <2>1. new \in Cl
    BY <1>0 DEF ClusterState
  <2>2. ExecuteCommand("operatorLocal", new) /\ Same
    BY <1>21 DEF OperatorLocal
  <2>3. PICK v \in OperatorVersions(charts) : Charted(OperatorPulled(charts, v))
    BY <1>21 DEF OperatorLocal
  <2> HIDE DEF new
  <2> QED
    BY <1>0, <1>b, <2>1, <2>2, <2>3, ChartsKept
<1>22. CASE WaitCluster \/ Rollout
  <2>1. PICK l, b : WaitFor(l, b) /\ Same /\ UNCHANGED charts
    BY <1>22 DEF WaitCluster, Rollout
  <2> QED
    BY <1>c, <2>1 DEF WaitFor
<1>23. CASE GetKubeconfig
  <2>1. CASE Proceed \/ GiveUp
    <3>1. phase' # "ok"
      BY <1>23, <2>1 DEF GetKubeconfig, At, Proceed, GiveUp
    <3> QED
      BY <1>23, <1>c, <2>1, <3>1 DEF GetKubeconfig
  <2>2. CASE todo' = <<>> /\ phase' = "ok" /\ misled' = misled \union {"empty"}
    BY <1>23, <1>0, <1>e, <2>2 DEF GetKubeconfig, Typing, TypeOK, Phases
  <2> QED
    BY <1>23, <2>1, <2>2 DEF GetKubeconfig
<1>24. CASE StartRefresher \/ StopRefresher \/ Backup \/ CopyBackup
  BY <1>24, <1>c DEF StartRefresher, StopRefresher, Backup, CopyBackup
<1>25. CASE OperatorWork
  <2> DEFINE new == [cl EXCEPT !["work"].op = "starting"]
  <2>1. new \in Cl
    BY <1>0 DEF ClusterState
  <2>2. CASE ExecuteCommand("operatorWork", new) /\ UNCHANGED misled
             /\ \E v \in OperatorVersions(charts) : Charted(OperatorReleased(charts, v))
    <3>1. PICK v \in OperatorVersions(charts) : Charted(OperatorReleased(charts, v))
      BY <2>2
    <3>2. Same
      BY <1>25, <2>2 DEF OperatorWork
    <3> HIDE DEF new
    <3> QED
      BY <1>0, <1>b, <2>1, <2>2, <3>1, <3>2, ChartsKept
  <2>3. CASE WaitFor("operatorWork", TRUE) /\ misled' = misled \union {"empty"} /\ UNCHANGED charts
    <3>1. /\ phase' \in Phases /\ (phase' # "execute" => todo' = <<>>)
          /\ todo' \in Seq(PlainSteps \union StatefulSteps) /\ cl' \in Cl
      BY <1>0, <2>3, TypedCommand
    <3> QED
      BY <1>25, <1>0, <2>3, <3>1 DEF OperatorWork, Typing, TypeOK
  <2> QED
    BY <1>25, <2>2, <2>3 DEF OperatorWork
<1>26. CASE Move
  <2>1. \A i \in 1..5 : MoveStages[i] \in Cl
    BY <1>0 DEF MoveStages, ClusterState
  <2>2. PICK i \in 1..5 : /\ At("move") /\ cl' = MoveStages[i] /\ (Proceed \/ GiveUp)
                          /\ misled' \in {misled, misled \union {"repeated"}}
    BY <1>26 DEF Move
  <2>3. /\ phase' \in Phases /\ (phase' # "execute" => todo' = <<>>)
        /\ todo' \in Seq(PlainSteps \union StatefulSteps)
    <3>1. todo \in Seq(PlainSteps \union StatefulSteps) /\ todo # <<>>
      BY <1>0, <2>2 DEF TypeOK, At
    <3>2. Tail(todo) \in Seq(PlainSteps \union StatefulSteps)
      BY <3>1
    <3> QED
      BY <1>e, <2>2, <3>2 DEF At, Proceed, GiveUp, Phases
  <2>4. UNCHANGED <<d, alive, cloud, backup, refresher, charts>>
    BY <1>26 DEF Move
  <2>5. cl' \in Cl
    BY <2>1, <2>2
  <2>6. misled' \subseteq {"empty", "repeated"}
    BY <1>0, <2>2 DEF TypeOK
  <2> QED
    BY <1>0, <2>3, <2>4, <2>5, <2>6 DEF Typing, TypeOK
<1>27. CASE DeleteKeos
  <2> DEFINE new == [cl EXCEPT !["local"].keos = FALSE, !["local"].keosFin = FALSE]
  <2>1. new \in Cl
    BY <1>0 DEF ClusterState
  <2>2. /\ ExecuteCommand("deleteKeos", new) /\ cloud' \in {cloud, "destroyed"}
        /\ UNCHANGED <<d, alive, backup, refresher, misled, charts>>
    BY <1>27 DEF DeleteKeos
  <2> HIDE DEF new
  <2>3. /\ phase' \in Phases /\ (phase' # "execute" => todo' = <<>>)
        /\ todo' \in Seq(PlainSteps \union StatefulSteps) /\ cl' \in Cl
    BY <1>0, <2>1, <2>2, TypedCommand
  <2> QED
    BY <1>0, <2>2, <2>3 DEF Typing, TypeOK
<1>28. CASE ReturnNil \/ CleanUp \/ ExportFails \/ ExportAndCleanUp
  <2>1. /\ phase' \in {"ok", "returnErr", "returnOk"} /\ todo' = todo /\ todo = <<>>
        /\ refresher' \in {refresher, "stopped"} /\ alive' \in {alive, TRUE, FALSE}
        /\ UNCHANGED <<d, cl, cloud, backup, misled, charts>>
    BY <1>28, <1>0
       DEF ReturnNil, CleanUp, ExportFails, ExportAndCleanUp, DeleteLocal, TypeOK
  <2>2. refresher' \in {"off", "on", "stopped"} /\ alive' \in BOOLEAN /\ phase' \in Phases
    BY <1>0, <2>1 DEF Typing, TypeOK, Phases
  <2> QED
    BY <1>0, <2>1, <2>2 DEF Typing, TypeOK
<1>29. CASE Kill
  BY <1>29, <1>0, <1>e DEF Kill, Typing, TypeOK, Phases
<1>30. CASE FluxInstalls
  <2>1. cl' \in Cl
    BY <1>30, <1>0 DEF FluxInstalls, ClusterState
  <2> QED
    BY <1>30, <1>0, <2>1 DEF FluxInstalls, Typing, TypeOK
<1>31. CASE \E c \in {"local", "work"} : Reconcile(c)
  <2>1. PICK c \in {"local", "work"} : Reconcile(c)
    BY <1>31
  <2>2. cl' \in Cl
    <3>1. cl[c] \in ClusterState /\ cl[c].config \in BOOLEAN
      BY <1>0 DEF ClusterState
    <3>2. PICK a \in {"none", "paused", "active"} :
             cl' = [cl EXCEPT ![c].keosFin = TRUE, ![c].configFin = cl[c].config, ![c].capi = a]
      BY <1>0, <2>1, <3>1 DEF Reconcile, ClusterState
    <3>3. [cl[c] EXCEPT !.keosFin = TRUE, !.configFin = cl[c].config, !.capi = a] \in ClusterState
      BY <3>1 DEF ClusterState
    <3>4. cl' = [cl EXCEPT ![c] = [cl[c] EXCEPT !.keosFin = TRUE, !.configFin = cl[c].config, !.capi = a]]
      BY <1>0, <3>2
    <3> QED
      BY <1>0, <3>3, <3>4
  <2>3. cloud' \in {cloud, "created"}
    BY <2>1 DEF Reconcile
  <2> QED
    BY <1>0, <2>1, <2>2, <2>3 DEF Reconcile, Typing, TypeOK
<1> QED
  BY <1>1, <1>2, <1>3, <1>4, <1>5, <1>6, <1>7, <1>8, <1>9, <1>10, <1>11, <1>12, <1>13,
     <1>14, <1>15, <1>16, <1>17, <1>18, <1>19, <1>20, <1>21, <1>22, <1>23, <1>24, <1>25,
     <1>26, <1>27, <1>28, <1>29, <1>30, <1>31 DEF Next, Main

(***************************************************************************)
(* The state stays within the types of TypeOK: the steps of Execute, the   *)
(* fields of the two clusters, the chart repositories that Flux knows.     *)
(***************************************************************************)
THEOREM TypeCorrect == Spec => []TypeOK
<1>1. Spec => []Typing
  BY InitTyping, TypingStep, PTL DEF Spec
<1> QED
  BY <1>1, PTL DEF Typing

-----------------------------------------------------------------------------
(* Plan holds throughout: a step of the action, of create.Cluster or of a  *)
(* controller does the step at the head of todo, ends Execute, or leaves   *)
(* the steps alone.                                                        *)
LEMMA Course ==
    ASSUME [Next]_vars
    PROVE  /\ d' = d
           /\ \/ UNCHANGED <<phase, todo>>
              \/ \E l : At(l) /\ Proceed
              \/ phase' # "execute"
<1> DEFINE Outcome == \/ UNCHANGED <<phase, todo>>
                      \/ \E l : At(l) /\ Proceed
                      \/ phase' # "execute"
<1>1. ASSUME NEW l, NEW new, ExecuteCommand(l, new) PROVE Outcome
  BY <1>1 DEF ExecuteCommand, GiveUp
<1>2. ASSUME NEW l, NEW b, WaitFor(l, b) PROVE Outcome
  BY <1>2 DEF WaitFor, GiveUp
<1>3. CASE PlainStep
  BY <1>2, <1>3 DEF PlainStep
<1>4. CASE \/ PullProviderCharts \/ DeployCertManager \/ InstallCloudProvider
           \/ InstallCalico \/ ConfigureFlux
  BY <1>2, <1>4 DEF PullProviderCharts, DeployCertManager, InstallCloudProvider,
     InstallCalico, InstallChart, ConfigureFlux
<1>5. CASE ReconcileCharts \/ InstallCSI \/ DeployClusterAutoscaler \/ InstallLBController
  BY <1>2, <1>5 DEF ReconcileCharts, InstallCSI, DeployClusterAutoscaler,
     InstallLBController, ConfigureHelmRelease
<1>6. CASE GetProviderCharts \/ StartRefresher \/ StopRefresher
  BY <1>6 DEF GetProviderCharts, StartRefresher, StopRefresher
<1>7. CASE GetKubeconfig \/ Backup \/ CopyBackup \/ Move
  BY <1>7 DEF GetKubeconfig, Backup, CopyBackup, Move, GiveUp
<1>8. CASE WaitCluster \/ Rollout
  BY <1>2, <1>8 DEF WaitCluster, Rollout
<1>9. CASE OperatorWork
  BY <1>1, <1>2, <1>9 DEF OperatorWork
<1>10. CASE CapxLocal \/ OperatorLocal \/ ApplyConfig \/ ApplyKeos \/ CapxWork \/ ConfigCAPIWorker
  BY <1>1, <1>10 DEF CapxLocal, OperatorLocal, ApplyConfig, ApplyKeos, CapxWork, ConfigCAPIWorker
<1>11. CASE EnableSelfHealing \/ UninstallOperator \/ PatchConfig \/ CopyConfig \/ DeleteConfig
  BY <1>1, <1>11 DEF EnableSelfHealing, UninstallOperator, PatchConfig, CopyConfig, DeleteConfig
<1>12. CASE CopyKeos \/ PatchKeos \/ DeleteKeos \/ RedeployOperator
  BY <1>1, <1>12 DEF CopyKeos, PatchKeos, DeleteKeos, RedeployOperator
<1>13. CASE ReturnNil \/ CleanUp \/ ExportFails \/ ExportAndCleanUp \/ Kill
  BY <1>13 DEF ReturnNil, CleanUp, ExportFails, ExportAndCleanUp, Kill
<1>14. CASE FluxInstalls \/ (\E c \in {"local", "work"} : Reconcile(c)) \/ UNCHANGED vars
  BY <1>14 DEF FluxInstalls, Reconcile, vars
<1> QED
  BY <1>3, <1>4, <1>5, <1>6, <1>7, <1>8, <1>9, <1>10, <1>11, <1>12, <1>13, <1>14 DEF Next, Main

LEMMA InitPlan == Init => Plan
<1> SUFFICES ASSUME Init PROVE Plan
  OBVIOUS
<1>1. d \in Descriptor /\ phase = "execute" /\ todo = Execute(d)
  BY DescriptorsAssumption DEF Init
<1>2. Within(todo, 0, 28) /\ Left = StepsOf(Execute(d))
  BY <1>1, ExecuteList DEF Left
<1> QED
  BY <1>2 DEF Plan, Ahead

LEMMA PlanStep == Plan /\ [Next]_vars => Plan'
<1> SUFFICES ASSUME Plan, [Next]_vars PROVE Plan'
  OBVIOUS
<1>1. d' = d
  BY Course
<1>2. StepsOf(Execute(d))' = StepsOf(Execute(d))
  BY <1>1
<1>3. CASE UNCHANGED <<phase, todo>>
  BY <1>1, <1>3 DEF Plan, Ahead, Left
<1>4. CASE phase' # "execute"
  <2>1. Ahead' = {}
    BY <1>4 DEF Ahead, Left
  <2> QED
    BY <1>4, <2>1 DEF Plan
<1>5. ASSUME NEW l, At(l), Proceed PROVE Plan'
  <2>1. Within(todo', 0, 28) /\ Ahead' = Ahead \ {l}
    BY <1>5, Advance
  <2>2. Ahead' \subseteq StepsOf(Execute(d))'
    BY <1>2, <2>1 DEF Plan
  <2>3. ASSUME NEW k \in StepsOf(Execute(d)), Key(k), k \notin Ahead', NEW m \in Ahead'
        PROVE  Rank(k) < Rank(m)
    BY <1>5, <2>1, <2>3, AtHead DEF Plan
  <2> QED
    BY <1>2, <2>1, <2>2, <2>3 DEF Plan
<1> QED
  BY <1>3, <1>4, <1>5, Course

-----------------------------------------------------------------------------
(* The inductive invariant of the pivot.  Each part says what holds        *)
(* between two of the steps that matter.  Handover: the local operator is  *)
(* away from its uninstallation until the local KeosCluster has gone.      *)
Handover ==
    /\ cl["work"].keos => cl["local"].op = "none" \/ ~cl["local"].keos
    /\ ("copyKeos" \in Ahead \/ "deleteKeos" \in Ahead) /\ "uninstallOperator" \notin Ahead
          => cl["local"].op = "none"
    /\ "operatorLocal" \in Ahead \/ "applyKeos" \in Ahead \/ "copyKeos" \in Ahead
          => ~cl["work"].keos
    /\ "redeployOperator" \in Ahead /\ "deleteKeos" \notin Ahead => ~cl["local"].keos
    /\ cloud # "destroyed"

(* A resource that is about to be deleted has been copied, and one that is *)
(* about to be copied is not there yet.                                    *)
Copies ==
    /\ "deleteKeos" \in Ahead /\ "copyKeos" \notin Ahead
          => (cl["local"].keos => cl["work"].keos)
    /\ "copyConfig" \in Ahead => ~cl["work"].config
    /\ "deleteConfig" \in Ahead /\ "copyConfig" \notin Ahead
          => (cl["local"].config => cl["work"].config)
    /\ "applyKeos" \in Ahead /\ "applyConfig" \notin Ahead => cl["local"].config
    /\ cl["local"].keos \/ cl["work"].keos => cl["local"].config \/ cl["work"].config
    /\ cloud = "created" => cl["local"].keos \/ cl["work"].keos

Attended == alive \/ (phase \in {"returnOk", "returnErr"} /\ ~Retain(d))

(* The Cluster API objects are somewhere, and on the host before they move.*)
Objects ==
    /\ Attended
    /\ cloud = "created" => cl["local"].capi # "none" \/ cl["work"].capi # "none"
    /\ cl["local"].capi = "paused" => backup = "host"
    /\ "backup" \in Ahead => backup # "host"
    /\ "move" \in Ahead /\ "copyBackup" \notin Ahead => backup = "host"

Succeeding == phase \in {"execute", "ok", "returnOk"} /\ "empty" \notin misled /\ ~Avoid(d)

(* A move that was repeated may have left the objects paused.              *)
Resumed == cl["work"].capi = "active" \/ ("repeated" \in misled /\ cl["work"].capi = "paused")

(* What the steps that are done have provided, as long as none failed.     *)
Furnished ==
    /\ Keep(d) => cl["local"].capi # "paused"
    /\ Succeeding =>
          /\ "capxLocal" \notin Ahead => cl["local"].capx = "all"
          /\ Keep(d) /\ "waitCluster" \notin Ahead => cl["local"].capi = "active"
          /\ "capxWork" \notin Ahead => cl["work"].capx \in Controllers
          /\ (Keep(d) \/ "move" \in Ahead) /\ "selfHealing" \notin Ahead => cl["local"].mhc
          /\ ~Keep(d) /\ "move" \notin Ahead => Resumed /\ cl["work"].mhc

Pivot == Handover /\ Copies /\ Objects /\ Furnished

LEMMA InitPivot == Init => Pivot
<1> SUFFICES ASSUME Init PROVE Pivot
  OBVIOUS
<1>1. d \in Descriptor /\ phase = "execute" /\ Left = StepsOf(Execute(d))
  BY DescriptorsAssumption DEF Init, Left
<1>2. /\ cl["local"].op = "none" /\ ~cl["local"].keos /\ ~cl["work"].keos
      /\ ~cl["work"].config /\ cl["local"].capi = "none"
      /\ cloud = "none" /\ backup = "none" /\ alive
  BY DEF Init, Blank
<1>3. /\ Key("capxLocal") /\ Key("waitCluster") /\ Key("capxWork") /\ Key("selfHealing")
      /\ Key("uninstallOperator") /\ Key("deleteKeos") /\ Key("copyKeos")
      /\ Key("copyConfig") /\ Key("applyConfig") /\ Key("copyBackup") /\ Key("move")
  BY Ranked DEF Key
<1>4. /\ "copyKeos" \in Ahead \/ "deleteKeos" \in Ahead => "uninstallOperator" \in Ahead
      /\ "deleteConfig" \in Ahead => "copyConfig" \in Ahead
      /\ "applyKeos" \in Ahead => "applyConfig" \in Ahead
      /\ "move" \in Ahead => "copyBackup" \in Ahead
      /\ ~Avoid(d) => {"capxLocal", "waitCluster", "capxWork", "selfHealing"} \subseteq Ahead
      /\ ~Avoid(d) => ("move" \in Ahead <=> ~Keep(d))
  BY <1>1, <1>3, Together DEF Ahead
<1> QED
  BY <1>2, <1>4 DEF Pivot, Handover, Copies, Objects, Furnished, Attended, Succeeding

-----------------------------------------------------------------------------
(* A step that ends Execute, or does a step that is not one of S.          *)
Passes(S) == Ahead' = {} \/ (Ahead' \subseteq Ahead /\ S \cap Ahead \subseteq Ahead')

(* What each part depends on.                                              *)
LEMMA HandoverKept ==
    ASSUME Handover, UNCHANGED <<cl["local"].op, cl["local"].keos, cl["work"].keos>>,
           cloud' # "destroyed", Passes({"uninstallOperator", "deleteKeos"})
    PROVE  Handover'
  BY DEF Handover, Passes

LEMMA CopiesKept ==
    ASSUME Copies, UNCHANGED <<cl["local"].keos, cl["work"].keos>>,
           UNCHANGED <<cl["local"].config, cl["work"].config>>,
           cloud' = "created" => cl["local"].keos \/ cl["work"].keos,
           Passes({"copyKeos", "copyConfig", "applyConfig"})
    PROVE  Copies'
  BY DEF Copies, Passes

LEMMA ObjectsKept ==
    ASSUME Objects, UNCHANGED <<cl["local"].capi, cl["work"].capi, cloud, backup>>,
           Attended', Passes({"copyBackup"})
    PROVE  Objects'
  BY DEF Objects, Passes

Provided == {"capxLocal", "waitCluster", "capxWork", "selfHealing", "move"}

LEMMA FurnishedKept ==
    ASSUME Furnished, UNCHANGED <<cl["local"].capi, cl["work"].capi>>,
           UNCHANGED <<cl["local"].capx, cl["work"].capx, cl["local"].mhc, cl["work"].mhc, d>>,
           "repeated" \in misled => "repeated" \in misled',
           Succeeding' => Succeeding /\ Ahead' \subseteq Ahead /\ Provided \cap Ahead \subseteq Ahead'
    PROVE  Furnished'
  BY DEF Furnished, Resumed, Provided, Controllers

(* Commands, seen from the steps ahead.                                    *)
Command(l, new) ==
    /\ phase = "execute"
    /\ \/ cl' = new /\ phase' = "execute" /\ Ahead' = Ahead \ {l}
       \/ cl' \in {cl, new} /\ phase' = "failed" /\ Ahead' = {}

(* The first of the steps ahead, if it is one that matters.                *)
First(l) ==
    IF Key(l) THEN l \in Ahead /\ \A m \in Ahead : ~(Rank(m) < Rank(l)) ELSE l \notin Ahead

LEMMA Commands ==
    ASSUME Plan, NEW l, NEW new, At(l),
           (cl' = new /\ Proceed) \/ (cl' \in {cl, new} /\ GiveUp)
    PROVE  Command(l, new) /\ First(l)
<1>1. First(l)
  <2>1. ASSUME NEW m \in Ahead, Key(l) PROVE ~(Rank(m) < Rank(l))
    BY <2>1, AtHead, RankType
  <2> QED
    BY <2>1, AtHead DEF First, Ahead
<1>2. CASE cl' = new /\ Proceed
  BY <1>1, <1>2, Advance DEF Command, At
<1>3. CASE cl' \in {cl, new} /\ GiveUp
  BY <1>1, <1>3, NothingAhead DEF Command, At, GiveUp, Ahead, Left
<1> QED
  BY <1>2, <1>3

(* Steps that no part of the invariant depends on: those of the charts and *)
(* those that are not ranked.                                              *)
ChartSteps ==
    {"pullCharts", "chartsList", "certManagerLocal", "cloudProvider", "calico", "certManagerWork",
     "flux", "reconcileCharts", "csi", "autoscaler", "operatorWork", "lbController"}

Steered == Ahead' \subseteq Ahead /\ Ahead \ ChartSteps \subseteq Ahead'

Quiet ==
    /\ UNCHANGED <<d, cl, cloud, backup>>
    /\ Attended => Attended'
    /\ Steered \/ Ahead' = {}
    /\ "repeated" \in misled => "repeated" \in misled'
    /\ Succeeding' => Succeeding /\ Steered

LEMMA QuietKeeps == Pivot /\ Quiet => Pivot'
<1> SUFFICES ASSUME Pivot, Quiet PROVE Pivot'
  OBVIOUS
<1>0. \A S : S \cap ChartSteps = {} => Passes(S)
  BY DEF Quiet, Steered, Passes
<1>1. Handover'
  <2>1. Passes({"uninstallOperator", "deleteKeos"})
    BY <1>0 DEF ChartSteps
  <2> QED
    BY <2>1, HandoverKept DEF Pivot, Quiet, Handover
<1>2. Copies'
  <2>1. Passes({"copyKeos", "copyConfig", "applyConfig"})
    BY <1>0 DEF ChartSteps
  <2> QED
    BY <2>1, CopiesKept DEF Pivot, Quiet, Copies
<1>3. Objects'
  <2>1. Passes({"copyBackup"})
    BY <1>0 DEF ChartSteps
  <2> QED
    BY <2>1, ObjectsKept DEF Pivot, Quiet, Objects
<1>4. Furnished'
  <2>1. Provided \cap ChartSteps = {}
    BY DEF Provided, ChartSteps
  <2>2. Succeeding' => Succeeding /\ Ahead' \subseteq Ahead /\ Provided \cap Ahead \subseteq Ahead'
    BY <2>1 DEF Quiet, Steered
  <2> QED
    BY <2>2, FurnishedKept DEF Pivot, Quiet
<1> QED
  BY <1>1, <1>2, <1>3, <1>4 DEF Pivot

LEMMA QuietWait ==
    ASSUME Plan, NEW l, NEW b, WaitFor(l, b), Key(l) => l \in ChartSteps,
           misled' \in {misled, misled \union {"empty"}},
           UNCHANGED <<d, alive, cloud, backup>>
    PROVE  Quiet
<1>1. At(l) /\ cl' = cl /\ (Proceed \/ GiveUp)
  BY DEF WaitFor
<1>2. Command(l, cl) /\ First(l)
  BY <1>1, Commands
<1>3. misled \subseteq misled'
  OBVIOUS
<1> QED
  BY <1>1, <1>2, <1>3 DEF Command, First, Quiet, Steered, Attended, Succeeding

LEMMA QuietSteps ==
    ASSUME Plan,
           \/ UNCHANGED vars \/ PlainStep \/ PullProviderCharts \/ GetProviderCharts
           \/ DeployCertManager \/ InstallCloudProvider \/ InstallCalico \/ ConfigureFlux
           \/ ReconcileCharts \/ InstallCSI \/ DeployClusterAutoscaler \/ InstallLBController
           \/ GetKubeconfig \/ StartRefresher \/ Rollout \/ StopRefresher
           \/ ReturnNil \/ CleanUp \/ ExportFails \/ ExportAndCleanUp \/ Kill
    PROVE  Quiet
<1>1. CASE UNCHANGED vars
  BY <1>1 DEF vars, Quiet, Steered, Attended, Succeeding, Ahead, Left
<1>2. CASE PlainStep
  <2>1. PICK l \in PlainSteps : WaitFor(l, TRUE)
    BY <1>2 DEF PlainStep
  <2>2. ~Key(l)
    BY Unranked DEF PlainSteps, Key
  <2> QED
    BY <1>2, <2>1, <2>2, QuietWait DEF PlainStep
<1>a. ASSUME NEW l, NEW b, WaitFor(l, b), Key(l) => l \in ChartSteps, UNCHANGED <<d, alive, cloud, backup, misled>>
      PROVE  Quiet
  BY <1>a, QuietWait
<1>b. ~Key("rollout")
  BY Unranked DEF Key
<1>3. CASE PullProviderCharts \/ DeployCertManager \/ InstallCloudProvider \/ InstallCalico
  BY <1>a, <1>b, <1>3 DEF PullProviderCharts, DeployCertManager,
     InstallCloudProvider, InstallCalico, InstallChart, ChartSteps
<1>4. CASE \/ ConfigureFlux \/ ReconcileCharts \/ InstallCSI \/ DeployClusterAutoscaler
           \/ InstallLBController \/ Rollout
  BY <1>a, <1>b, <1>4 DEF ConfigureFlux, ReconcileCharts, InstallCSI,
     DeployClusterAutoscaler, InstallLBController, ConfigureHelmRelease, Rollout, ChartSteps
<1>5. ASSUME NEW l, At(l), Key(l) => l \in ChartSteps, Proceed \/ GiveUp, UNCHANGED <<d, cl, alive, cloud, backup, misled>>
      PROVE  Quiet
  <2>1. Command(l, cl) /\ First(l)
    BY <1>5, Commands
  <2> QED
    BY <1>5, <2>1 DEF Command, First, Quiet, Steered, Attended, Succeeding
<1>6. CASE GetProviderCharts \/ StartRefresher \/ StopRefresher
  BY <1>5, <1>6, Unranked DEF Key, GetProviderCharts, StartRefresher, StopRefresher, ChartSteps
<1>7. CASE GetKubeconfig
  <2>1. CASE (Proceed \/ GiveUp) /\ UNCHANGED misled
    BY <1>5, <1>7, <2>1, Unranked DEF Key, GetKubeconfig
  <2>2. CASE todo' = <<>> /\ phase' = "ok" /\ misled' = misled \union {"empty"}
    BY <1>7, <2>2 DEF GetKubeconfig, At, Quiet, Steered, Attended, Succeeding, Ahead, Left
  <2> QED
    BY <1>7, <2>1, <2>2 DEF GetKubeconfig
<1>8. CASE ReturnNil
  <2>1. StepsOf(<<>>) = {}
    BY DEF StepsOf
  <2>2. Ahead = {} /\ Ahead' = {}
    BY <1>8, <2>1 DEF ReturnNil, Ahead, Left
  <2> QED
    BY <1>8, <2>2 DEF ReturnNil, Quiet, Steered, Attended, Succeeding
<1>9. CASE CleanUp \/ ExportFails \/ ExportAndCleanUp
  <2>1. Ahead = {} /\ Ahead' = {}
    BY <1>9 DEF CleanUp, ExportFails, ExportAndCleanUp, Ahead, Left
  <2>2. /\ phase \in {"ok", "failed"} /\ phase' \in {"returnOk", "returnErr"}
        /\ (phase = "failed" => phase' = "returnErr")
        /\ UNCHANGED <<d, cl, cloud, backup, misled>>
        /\ (Retain(d) => alive' = alive)
    BY <1>9 DEF CleanUp, ExportFails, ExportAndCleanUp, DeleteLocal
  <2>3. Attended => Attended'
    BY <2>2 DEF Attended, Retain
  <2> QED
    BY <2>1, <2>2, <2>3 DEF Quiet, Steered, Succeeding, Avoid
<1>10. CASE Kill
  BY <1>10 DEF Kill, Quiet, Steered, Attended, Succeeding, Ahead, Left
<1> QED
  BY <1>1, <1>2, <1>3, <1>4, <1>6, <1>7, <1>8, <1>9, <1>10

Steady == UNCHANGED <<d, alive, cloud, backup, misled>>

LEMMA CommandFrame ==
    ASSUME Pivot, NEW l, NEW new, Command(l, new), UNCHANGED <<d, alive>>, "empty" \in misled => "empty" \in misled'
    PROVE  /\ Attended'
           /\ \A S : l \notin S => Passes(S)
           /\ Succeeding' => /\ Succeeding /\ phase' = "execute" /\ cl' = new
                             /\ Ahead' = Ahead \ {l}
<1>1. Attended'
  BY DEF Pivot, Objects, Attended, Command
<1>2. ASSUME NEW S, l \notin S PROVE Passes(S)
  BY <1>2 DEF Command, Passes
<1>3. Succeeding' => Succeeding /\ phase' = "execute"
  BY DEF Command, Succeeding
<1> QED
  BY <1>1, <1>2, <1>3 DEF Command

LEMMA CapxLocalKeeps == ASSUME Typing, Plan, Pivot, CapxLocal PROVE Pivot'
<1> DEFINE new == [cl EXCEPT !["local"].capx = "all"]
<1>1. Command("capxLocal", new) /\ First("capxLocal") /\ Steady
  BY Commands DEF CapxLocal, ExecuteCommand, Steady
<1>2. cl \in [{"local", "work"} -> ClusterState]
  BY DEF Typing, TypeOK
<1>3. UNCHANGED <<cl["local"].op, cl["local"].keos, cl["local"].config,
                  cl["local"].capi, cl["local"].mhc, cl["work"].keos,
                  cl["work"].config, cl["work"].capi, cl["work"].mhc,
                  cl["work"].capx>>
  BY <1>1, <1>2 DEF Command, ClusterState
<1>4. /\ cl'["local"].capx = cl["local"].capx \/ cl'["local"].capx = "all"
      /\ phase' = "execute" => cl'["local"].capx = "all"
  BY <1>1, <1>2 DEF Command, ClusterState
<1> HIDE DEF new
<1>5. /\ Attended'
      /\ \A S : "capxLocal" \notin S => Passes(S)
      /\ Succeeding' => Succeeding /\ phase' = "execute" /\ Ahead' = Ahead \ {"capxLocal"}
  BY <1>1, CommandFrame DEF Steady
<1>6. Handover'
  BY <1>1, <1>3, <1>5, HandoverKept DEF Pivot, Steady, Handover
<1>7. Copies'
  BY <1>1, <1>3, <1>5, CopiesKept DEF Pivot, Steady, Copies
<1>8. Objects'
  BY <1>1, <1>3, <1>5, ObjectsKept DEF Pivot, Steady
<1>9. Furnished'
  BY <1>1, <1>3, <1>4, <1>5 DEF Pivot, Steady, Command, Furnished, Resumed, Controllers, Provided
<1> QED
  BY <1>6, <1>7, <1>8, <1>9 DEF Pivot

LEMMA OperatorLocalKeeps == ASSUME Typing, Plan, Pivot, OperatorLocal PROVE Pivot'
<1> DEFINE new == [cl EXCEPT !["local"].op = "ready"]
<1>1. Command("operatorLocal", new) /\ First("operatorLocal") /\ Steady
  BY Commands DEF OperatorLocal, ExecuteCommand, Steady
<1>2. cl \in [{"local", "work"} -> ClusterState]
  BY DEF Typing, TypeOK
<1>3. UNCHANGED <<cl["local"].keos, cl["local"].config, cl["local"].capi,
                  cl["local"].mhc, cl["local"].capx, cl["work"].keos,
                  cl["work"].config, cl["work"].capi, cl["work"].mhc,
                  cl["work"].capx>>
  BY <1>1, <1>2 DEF Command, ClusterState
<1>4. /\ cl'["local"].op = cl["local"].op \/ cl'["local"].op = "ready"
      /\ phase' = "execute" => cl'["local"].op = "ready"
  BY <1>1, <1>2 DEF Command, ClusterState
<1> HIDE DEF new
<1>5. /\ Attended'
      /\ \A S : "operatorLocal" \notin S => Passes(S)
      /\ Succeeding' => Succeeding /\ phase' = "execute" /\ Ahead' = Ahead \ {"operatorLocal"}
  BY <1>1, CommandFrame DEF Steady
<1>6. /\ "operatorLocal" \in Ahead
      /\ "copyKeos" \in Ahead \/ "deleteKeos" \in Ahead => "uninstallOperator" \in Ahead
  <2>1. "operatorLocal" \in Ahead
    BY <1>1, Ranked DEF First, Key
  <2> QED
    BY <2>1, TogetherAhead, DescriptorsAssumption DEF Typing, TypeOK
<1>7. Handover'
  BY <1>1, <1>3, <1>4, <1>5, <1>6 DEF Pivot, Steady, Command, Handover
<1>8. Copies'
  BY <1>1, <1>3, <1>5, CopiesKept DEF Pivot, Steady, Copies
<1>9. Objects'
  BY <1>1, <1>3, <1>5, ObjectsKept DEF Pivot, Steady
<1>10. Furnished'
  BY <1>1, <1>3, <1>5, FurnishedKept DEF Pivot, Steady, Provided
<1> QED
  BY <1>7, <1>8, <1>9, <1>10 DEF Pivot

LEMMA ApplyConfigKeeps == ASSUME Typing, Plan, Pivot, ApplyConfig PROVE Pivot'
<1> DEFINE new == [cl EXCEPT !["local"].config = TRUE]
<1>1. Command("applyConfig", new) /\ First("applyConfig") /\ Steady
  BY Commands DEF ApplyConfig, ExecuteCommand, Steady
<1>2. cl \in [{"local", "work"} -> ClusterState]
  BY DEF Typing, TypeOK
<1>3. UNCHANGED <<cl["local"].op, cl["local"].keos, cl["local"].capi,
                  cl["local"].mhc, cl["local"].capx, cl["work"].keos,
                  cl["work"].config, cl["work"].capi, cl["work"].mhc,
                  cl["work"].capx>>
  BY <1>1, <1>2 DEF Command, ClusterState
<1>4. /\ cl'["local"].config = cl["local"].config \/ cl'["local"].config = TRUE
      /\ phase' = "execute" => cl'["local"].config = TRUE
  BY <1>1, <1>2 DEF Command, ClusterState
<1> HIDE DEF new
<1>5. /\ Attended'
      /\ \A S : "applyConfig" \notin S => Passes(S)
      /\ Succeeding' => Succeeding /\ phase' = "execute" /\ Ahead' = Ahead \ {"applyConfig"}
  BY <1>1, CommandFrame DEF Steady
<1>6. /\ "applyConfig" \in Ahead
      /\ "deleteConfig" \in Ahead => "copyConfig" \in Ahead
  <2>1. "applyConfig" \in Ahead
    BY <1>1, Ranked DEF First, Key
  <2> QED
    BY <2>1, TogetherAhead, DescriptorsAssumption DEF Typing, TypeOK
<1>7. Handover'
  BY <1>1, <1>3, <1>5, HandoverKept DEF Pivot, Steady, Handover
<1>8. Copies'
  BY <1>1, <1>3, <1>4, <1>5, <1>6 DEF Pivot, Steady, Command, Copies
<1>9. Objects'
  BY <1>1, <1>3, <1>5, ObjectsKept DEF Pivot, Steady
<1>10. Furnished'
  BY <1>1, <1>3, <1>5, FurnishedKept DEF Pivot, Steady, Provided
<1> QED
  BY <1>7, <1>8, <1>9, <1>10 DEF Pivot

LEMMA ApplyKeosKeeps == ASSUME Typing, Plan, Pivot, ApplyKeos PROVE Pivot'
<1> DEFINE new == [cl EXCEPT !["local"].keos = TRUE]
<1>1. Command("applyKeos", new) /\ First("applyKeos") /\ Steady
  BY Commands DEF ApplyKeos, ExecuteCommand, Steady
<1>2. cl \in [{"local", "work"} -> ClusterState]
  BY DEF Typing, TypeOK
<1>3. UNCHANGED <<cl["local"].op, cl["local"].config, cl["local"].capi,
                  cl["local"].mhc, cl["local"].capx, cl["work"].keos,
                  cl["work"].config, cl["work"].capi, cl["work"].mhc,
                  cl["work"].capx>>
  BY <1>1, <1>2 DEF Command, ClusterState
<1>4. /\ cl'["local"].keos = cl["local"].keos \/ cl'["local"].keos = TRUE
      /\ phase' = "execute" => cl'["local"].keos = TRUE
  BY <1>1, <1>2 DEF Command, ClusterState
<1> HIDE DEF new
<1>5. /\ Attended'
      /\ \A S : "applyKeos" \notin S => Passes(S)
      /\ Succeeding' => Succeeding /\ phase' = "execute" /\ Ahead' = Ahead \ {"applyKeos"}
  BY <1>1, CommandFrame DEF Steady
<1>6. /\ "applyKeos" \in Ahead /\ "applyConfig" \notin Ahead
      /\ "redeployOperator" \in Ahead => "deleteKeos" \in Ahead
      /\ "deleteKeos" \in Ahead => "copyKeos" \in Ahead
  <2>1. "applyKeos" \in Ahead /\ "applyConfig" \notin Ahead
    BY <1>1, Ranked DEF First, Key
  <2> QED
    BY <2>1, TogetherAhead, DescriptorsAssumption DEF Typing, TypeOK
<1>7. Handover'
  BY <1>1, <1>3, <1>4, <1>5, <1>6 DEF Pivot, Steady, Command, Handover
<1>8. Copies'
  BY <1>1, <1>3, <1>4, <1>5, <1>6 DEF Pivot, Steady, Command, Copies
<1>9. Objects'
  BY <1>1, <1>3, <1>5, ObjectsKept DEF Pivot, Steady
<1>10. Furnished'
  BY <1>1, <1>3, <1>5, FurnishedKept DEF Pivot, Steady, Provided
<1> QED
  BY <1>7, <1>8, <1>9, <1>10 DEF Pivot

LEMMA CapxWorkKeeps == ASSUME Typing, Plan, Pivot, CapxWork PROVE Pivot'
<1> DEFINE new == [cl EXCEPT !["work"].capx = "all"]
<1>1. Command("capxWork", new) /\ First("capxWork") /\ Steady
  BY Commands DEF CapxWork, ExecuteCommand, Steady
<1>2. cl \in [{"local", "work"} -> ClusterState]
  BY DEF Typing, TypeOK
<1>3. UNCHANGED <<cl["local"].op, cl["local"].keos, cl["local"].config,
                  cl["local"].capi, cl["local"].mhc, cl["local"].capx,
                  cl["work"].keos, cl["work"].config, cl["work"].capi,
                  cl["work"].mhc>>
  BY <1>1, <1>2 DEF Command, ClusterState
<1>4. /\ cl'["work"].capx = cl["work"].capx \/ cl'["work"].capx = "all"
      /\ phase' = "execute" => cl'["work"].capx = "all"
  BY <1>1, <1>2 DEF Command, ClusterState
<1> HIDE DEF new
<1>5. /\ Attended'
      /\ \A S : "capxWork" \notin S => Passes(S)
      /\ Succeeding' => Succeeding /\ phase' = "execute" /\ Ahead' = Ahead \ {"capxWork"}
  BY <1>1, CommandFrame DEF Steady
<1>6. Handover'
  BY <1>1, <1>3, <1>5, HandoverKept DEF Pivot, Steady, Handover
<1>7. Copies'
  BY <1>1, <1>3, <1>5, CopiesKept DEF Pivot, Steady, Copies
<1>8. Objects'
  BY <1>1, <1>3, <1>5, ObjectsKept DEF Pivot, Steady
<1>9. Furnished'
  BY <1>1, <1>3, <1>4, <1>5 DEF Pivot, Steady, Command, Furnished, Resumed, Controllers, Provided
<1> QED
  BY <1>6, <1>7, <1>8, <1>9 DEF Pivot

LEMMA CapiWorkKeeps == ASSUME Typing, Plan, Pivot, ConfigCAPIWorker PROVE Pivot'
<1> DEFINE new == [cl EXCEPT !["work"].capx = IF d.managed THEN "noKubeadm" ELSE @]
<1>1. Command("capiWork", new) /\ First("capiWork") /\ Steady
  BY Commands DEF ConfigCAPIWorker, ExecuteCommand, Steady
<1>2. cl \in [{"local", "work"} -> ClusterState]
  BY DEF Typing, TypeOK
<1>3. UNCHANGED <<cl["local"].op, cl["local"].keos, cl["local"].config,
                  cl["local"].capi, cl["local"].mhc, cl["local"].capx,
                  cl["work"].keos, cl["work"].config, cl["work"].capi,
                  cl["work"].mhc>>
  BY <1>1, <1>2 DEF Command, ClusterState
<1>4. /\ cl'["work"].capx = cl["work"].capx \/ cl'["work"].capx = IF d.managed THEN "noKubeadm" ELSE cl["work"].capx
      /\ phase' = "execute" => cl'["work"].capx = IF d.managed THEN "noKubeadm" ELSE cl["work"].capx
  BY <1>1, <1>2 DEF Command, ClusterState
<1> HIDE DEF new
<1>5. /\ Attended'
      /\ \A S : "capiWork" \notin S => Passes(S)
      /\ Succeeding' => Succeeding /\ phase' = "execute" /\ Ahead' = Ahead \ {"capiWork"}
  BY <1>1, CommandFrame DEF Steady
<1>6. "capiWork" \notin Ahead
  BY <1>1, Unranked DEF First, Key
<1>7. Handover'
  BY <1>1, <1>3, <1>5, HandoverKept DEF Pivot, Steady, Handover
<1>8. Copies'
  BY <1>1, <1>3, <1>5, CopiesKept DEF Pivot, Steady, Copies
<1>9. Objects'
  BY <1>1, <1>3, <1>5, ObjectsKept DEF Pivot, Steady
<1>10. Furnished'
  BY <1>1, <1>3, <1>4, <1>5, <1>6 DEF Pivot, Steady, Command, Furnished, Resumed, Controllers, Provided
<1> QED
  BY <1>7, <1>8, <1>9, <1>10 DEF Pivot

LEMMA SelfHealingKeeps == ASSUME Typing, Plan, Pivot, EnableSelfHealing PROVE Pivot'
<1> DEFINE new == [cl EXCEPT !["local"].mhc = TRUE]
<1>1. Command("selfHealing", new) /\ First("selfHealing") /\ Steady
  BY Commands DEF EnableSelfHealing, ExecuteCommand, Steady
<1>2. cl \in [{"local", "work"} -> ClusterState]
  BY DEF Typing, TypeOK
<1>3. UNCHANGED <<cl["local"].op, cl["local"].keos, cl["local"].config,
                  cl["local"].capi, cl["local"].capx, cl["work"].keos,
                  cl["work"].config, cl["work"].capi, cl["work"].mhc,
                  cl["work"].capx>>
  BY <1>1, <1>2 DEF Command, ClusterState
<1>4. /\ cl'["local"].mhc = cl["local"].mhc \/ cl'["local"].mhc = TRUE
      /\ phase' = "execute" => cl'["local"].mhc = TRUE
  BY <1>1, <1>2 DEF Command, ClusterState
<1> HIDE DEF new
<1>5. /\ Attended'
      /\ \A S : "selfHealing" \notin S => Passes(S)
      /\ Succeeding' => Succeeding /\ phase' = "execute" /\ Ahead' = Ahead \ {"selfHealing"}
  BY <1>1, CommandFrame DEF Steady
<1>6. Handover'
  BY <1>1, <1>3, <1>5, HandoverKept DEF Pivot, Steady, Handover
<1>7. Copies'
  BY <1>1, <1>3, <1>5, CopiesKept DEF Pivot, Steady, Copies
<1>8. Objects'
  BY <1>1, <1>3, <1>5, ObjectsKept DEF Pivot, Steady
<1>9. Furnished'
  BY <1>1, <1>3, <1>4, <1>5 DEF Pivot, Steady, Command, Furnished, Resumed, Controllers, Provided
<1> QED
  BY <1>6, <1>7, <1>8, <1>9 DEF Pivot

LEMMA UninstallKeeps == ASSUME Typing, Plan, Pivot, UninstallOperator PROVE Pivot'
<1> DEFINE new == [cl EXCEPT !["local"].op = "none"]
<1>1. Command("uninstallOperator", new) /\ First("uninstallOperator") /\ Steady
  BY Commands DEF UninstallOperator, ExecuteCommand, Steady
<1>2. cl \in [{"local", "work"} -> ClusterState]
  BY DEF Typing, TypeOK
<1>3. UNCHANGED <<cl["local"].keos, cl["local"].config, cl["local"].capi,
                  cl["local"].mhc, cl["local"].capx, cl["work"].keos,
                  cl["work"].config, cl["work"].capi, cl["work"].mhc,
                  cl["work"].capx>>
  BY <1>1, <1>2 DEF Command, ClusterState
<1>4. /\ cl'["local"].op = cl["local"].op \/ cl'["local"].op = "none"
      /\ phase' = "execute" => cl'["local"].op = "none"
  BY <1>1, <1>2 DEF Command, ClusterState
<1> HIDE DEF new
<1>5. /\ Attended'
      /\ \A S : "uninstallOperator" \notin S => Passes(S)
      /\ Succeeding' => Succeeding /\ phase' = "execute" /\ Ahead' = Ahead \ {"uninstallOperator"}
  BY <1>1, CommandFrame DEF Steady
<1>6. Handover'
  BY <1>1, <1>3, <1>4, <1>5 DEF Pivot, Steady, Command, Handover
<1>7. Copies'
  BY <1>1, <1>3, <1>5, CopiesKept DEF Pivot, Steady, Copies
<1>8. Objects'
  BY <1>1, <1>3, <1>5, ObjectsKept DEF Pivot, Steady
<1>9. Furnished'
  BY <1>1, <1>3, <1>5, FurnishedKept DEF Pivot, Steady, Provided
<1> QED
  BY <1>6, <1>7, <1>8, <1>9 DEF Pivot

LEMMA PatchConfigKeeps == ASSUME Typing, Plan, Pivot, PatchConfig PROVE Pivot'
<1> DEFINE new == [cl EXCEPT !["local"].configFin = FALSE]
<1>1. Command("patchConfig", new) /\ First("patchConfig") /\ Steady
  BY Commands DEF PatchConfig, ExecuteCommand, Steady
<1>2. cl \in [{"local", "work"} -> ClusterState]
  BY DEF Typing, TypeOK
<1>3. UNCHANGED <<cl["local"].op, cl["local"].keos, cl["local"].config,
                  cl["local"].capi, cl["local"].mhc, cl["local"].capx,
                  cl["work"].keos, cl["work"].config, cl["work"].capi,
                  cl["work"].mhc, cl["work"].capx>>
  BY <1>1, <1>2 DEF Command, ClusterState
<1> HIDE DEF new
<1>5. /\ Attended'
      /\ \A S : "patchConfig" \notin S => Passes(S)
      /\ Succeeding' => Succeeding /\ phase' = "execute" /\ Ahead' = Ahead \ {"patchConfig"}
  BY <1>1, CommandFrame DEF Steady
<1>6. Handover'
  BY <1>1, <1>3, <1>5, HandoverKept DEF Pivot, Steady, Handover
<1>7. Copies'
  BY <1>1, <1>3, <1>5, CopiesKept DEF Pivot, Steady, Copies
<1>8. Objects'
  BY <1>1, <1>3, <1>5, ObjectsKept DEF Pivot, Steady
<1>9. Furnished'
  BY <1>1, <1>3, <1>5, FurnishedKept DEF Pivot, Steady, Provided
<1> QED
  BY <1>6, <1>7, <1>8, <1>9 DEF Pivot

LEMMA CopyConfigKeeps == ASSUME Typing, Plan, Pivot, CopyConfig PROVE Pivot'
<1> DEFINE new == [cl EXCEPT !["work"].config = cl["local"].config]
<1>1. Command("copyConfig", new) /\ First("copyConfig") /\ Steady
  BY Commands DEF CopyConfig, ExecuteCommand, Steady
<1>2. cl \in [{"local", "work"} -> ClusterState]
  BY DEF Typing, TypeOK
<1>3. UNCHANGED <<cl["local"].op, cl["local"].keos, cl["local"].config,
                  cl["local"].capi, cl["local"].mhc, cl["local"].capx,
                  cl["work"].keos, cl["work"].capi, cl["work"].mhc, cl["work"].capx>>
  BY <1>1, <1>2 DEF Command, ClusterState
<1>4. /\ cl'["work"].config = cl["work"].config \/ cl'["work"].config = cl["local"].config
      /\ phase' = "execute" => cl'["work"].config = cl["local"].config
  BY <1>1, <1>2 DEF Command, ClusterState
<1> HIDE DEF new
<1>5. /\ Attended'
      /\ \A S : "copyConfig" \notin S => Passes(S)
      /\ Succeeding' => Succeeding /\ phase' = "execute" /\ Ahead' = Ahead \ {"copyConfig"}
  BY <1>1, CommandFrame DEF Steady
<1>6. "copyConfig" \in Ahead
  BY <1>1, Ranked DEF First, Key
<1>7. Handover'
  BY <1>1, <1>3, <1>5, HandoverKept DEF Pivot, Steady, Handover
<1>8. Copies'
  BY <1>1, <1>3, <1>4, <1>5, <1>6 DEF Pivot, Steady, Command, Copies
<1>9. Objects'
  BY <1>1, <1>3, <1>5, ObjectsKept DEF Pivot, Steady
<1>10. Furnished'
  BY <1>1, <1>3, <1>5, FurnishedKept DEF Pivot, Steady, Provided
<1> QED
  BY <1>7, <1>8, <1>9, <1>10 DEF Pivot

LEMMA DeleteConfigKeeps == ASSUME Typing, Plan, Pivot, DeleteConfig PROVE Pivot'
<1> DEFINE new == [cl EXCEPT !["local"].config = FALSE, !["local"].configFin = FALSE]
<1>1. Command("deleteConfig", new) /\ First("deleteConfig") /\ Steady
  BY Commands DEF DeleteConfig, ExecuteCommand, Steady
<1>2. cl \in [{"local", "work"} -> ClusterState]
  BY DEF Typing, TypeOK
<1>3. UNCHANGED <<cl["local"].op, cl["local"].keos, cl["local"].capi,
                  cl["local"].mhc, cl["local"].capx, cl["work"].keos,
                  cl["work"].config, cl["work"].capi, cl["work"].mhc,
                  cl["work"].capx>>
  BY <1>1, <1>2 DEF Command, ClusterState
<1>4. /\ cl'["local"].config = cl["local"].config \/ cl'["local"].config = FALSE
      /\ phase' = "execute" => cl'["local"].config = FALSE
  BY <1>1, <1>2 DEF Command, ClusterState
<1> HIDE DEF new
<1>5. /\ Attended'
      /\ \A S : "deleteConfig" \notin S => Passes(S)
      /\ Succeeding' => Succeeding /\ phase' = "execute" /\ Ahead' = Ahead \ {"deleteConfig"}
  BY <1>1, CommandFrame DEF Steady
<1>6. "deleteConfig" \in Ahead /\ "copyConfig" \notin Ahead /\ "applyKeos" \notin Ahead
  BY <1>1, Ranked DEF First, Key
<1>7. Handover'
  BY <1>1, <1>3, <1>5, HandoverKept DEF Pivot, Steady, Handover
<1>8. Copies'
  BY <1>1, <1>3, <1>4, <1>5, <1>6 DEF Pivot, Steady, Command, Copies
<1>9. Objects'
  BY <1>1, <1>3, <1>5, ObjectsKept DEF Pivot, Steady
<1>10. Furnished'
  BY <1>1, <1>3, <1>5, FurnishedKept DEF Pivot, Steady, Provided
<1> QED
  BY <1>7, <1>8, <1>9, <1>10 DEF Pivot

LEMMA CopyKeosKeeps == ASSUME Typing, Plan, Pivot, CopyKeos PROVE Pivot'
<1> DEFINE new == [cl EXCEPT !["work"].keos = cl["local"].keos,
                               !["work"].keosFin = cl["local"].keosFin]
<1>1. Command("copyKeos", new) /\ First("copyKeos") /\ Steady
  BY Commands DEF CopyKeos, ExecuteCommand, Steady
<1>2. cl \in [{"local", "work"} -> ClusterState]
  BY DEF Typing, TypeOK
<1>3. UNCHANGED <<cl["local"].op, cl["local"].keos, cl["local"].config,
                  cl["local"].capi, cl["local"].mhc, cl["local"].capx,
                  cl["work"].config, cl["work"].capi, cl["work"].mhc,
                  cl["work"].capx>>
  BY <1>1, <1>2 DEF Command, ClusterState
<1>4. /\ cl'["work"].keos = cl["work"].keos \/ cl'["work"].keos = cl["local"].keos
      /\ phase' = "execute" => cl'["work"].keos = cl["local"].keos
  BY <1>1, <1>2 DEF Command, ClusterState
<1> HIDE DEF new
<1>5. /\ Attended'
      /\ \A S : "copyKeos" \notin S => Passes(S)
      /\ Succeeding' => Succeeding /\ phase' = "execute" /\ Ahead' = Ahead \ {"copyKeos"}
  BY <1>1, CommandFrame DEF Steady
<1>6. "copyKeos" \in Ahead /\ "operatorLocal" \notin Ahead
      /\ "applyKeos" \notin Ahead /\ "uninstallOperator" \notin Ahead
  BY <1>1, Ranked DEF First, Key
<1>7. Handover'
  BY <1>1, <1>3, <1>4, <1>5, <1>6 DEF Pivot, Steady, Command, Handover
<1>8. Copies'
  BY <1>1, <1>3, <1>4, <1>5, <1>6 DEF Pivot, Steady, Command, Handover, Copies
<1>9. Objects'
  BY <1>1, <1>3, <1>5, ObjectsKept DEF Pivot, Steady
<1>10. Furnished'
  BY <1>1, <1>3, <1>5, FurnishedKept DEF Pivot, Steady, Provided
<1> QED
  BY <1>7, <1>8, <1>9, <1>10 DEF Pivot

LEMMA PatchKeosKeeps == ASSUME Typing, Plan, Pivot, PatchKeos PROVE Pivot'
<1> DEFINE new == [cl EXCEPT !["local"].keosFin = FALSE]
<1>1. Command("patchKeos", new) /\ First("patchKeos") /\ Steady
  BY Commands DEF PatchKeos, ExecuteCommand, Steady
<1>2. cl \in [{"local", "work"} -> ClusterState]
  BY DEF Typing, TypeOK
<1>3. UNCHANGED <<cl["local"].op, cl["local"].keos, cl["local"].config,
                  cl["local"].capi, cl["local"].mhc, cl["local"].capx,
                  cl["work"].keos, cl["work"].config, cl["work"].capi,
                  cl["work"].mhc, cl["work"].capx>>
  BY <1>1, <1>2 DEF Command, ClusterState
<1> HIDE DEF new
<1>5. /\ Attended'
      /\ \A S : "patchKeos" \notin S => Passes(S)
      /\ Succeeding' => Succeeding /\ phase' = "execute" /\ Ahead' = Ahead \ {"patchKeos"}
  BY <1>1, CommandFrame DEF Steady
<1>6. Handover'
  BY <1>1, <1>3, <1>5, HandoverKept DEF Pivot, Steady, Handover
<1>7. Copies'
  BY <1>1, <1>3, <1>5, CopiesKept DEF Pivot, Steady, Copies
<1>8. Objects'
  BY <1>1, <1>3, <1>5, ObjectsKept DEF Pivot, Steady
<1>9. Furnished'
  BY <1>1, <1>3, <1>5, FurnishedKept DEF Pivot, Steady, Provided
<1> QED
  BY <1>6, <1>7, <1>8, <1>9 DEF Pivot

LEMMA RedeployKeeps == ASSUME Typing, Plan, Pivot, RedeployOperator PROVE Pivot'
<1> DEFINE new == [cl EXCEPT !["local"].op = "ready"]
<1>1. Command("redeployOperator", new) /\ First("redeployOperator") /\ Steady
  BY Commands DEF RedeployOperator, ExecuteCommand, Steady
<1>2. cl \in [{"local", "work"} -> ClusterState]
  BY DEF Typing, TypeOK
<1>3. UNCHANGED <<cl["local"].keos, cl["local"].config, cl["local"].capi,
                  cl["local"].mhc, cl["local"].capx, cl["work"].keos,
                  cl["work"].config, cl["work"].capi, cl["work"].mhc,
                  cl["work"].capx>>
  BY <1>1, <1>2 DEF Command, ClusterState
<1>4. /\ cl'["local"].op = cl["local"].op \/ cl'["local"].op = "ready"
      /\ phase' = "execute" => cl'["local"].op = "ready"
  BY <1>1, <1>2 DEF Command, ClusterState
<1> HIDE DEF new
<1>5. /\ Attended'
      /\ \A S : "redeployOperator" \notin S => Passes(S)
      /\ Succeeding' => Succeeding /\ phase' = "execute" /\ Ahead' = Ahead \ {"redeployOperator"}
  BY <1>1, CommandFrame DEF Steady
<1>6. "redeployOperator" \in Ahead /\ "copyKeos" \notin Ahead /\ "deleteKeos" \notin Ahead
  BY <1>1, Ranked DEF First, Key
<1>7. Handover'
  BY <1>1, <1>3, <1>4, <1>5, <1>6 DEF Pivot, Steady, Command, Handover
<1>8. Copies'
  BY <1>1, <1>3, <1>5, CopiesKept DEF Pivot, Steady, Copies
<1>9. Objects'
  BY <1>1, <1>3, <1>5, ObjectsKept DEF Pivot, Steady
<1>10. Furnished'
  BY <1>1, <1>3, <1>5, FurnishedKept DEF Pivot, Steady, Provided
<1> QED
  BY <1>7, <1>8, <1>9, <1>10 DEF Pivot

(* The rollout that deployClusterOperator waits for is not that of the     *)
(* workload cluster, and no part of the invariant speaks of its operator.  *)
LEMMA OperatorWorkKeeps == ASSUME Typing, Plan, Pivot, OperatorWork PROVE Pivot'
<1> DEFINE new == [cl EXCEPT !["work"].op = "starting"]
<1>1. CASE WaitFor("operatorWork", TRUE) /\ misled' = misled \union {"empty"}
  <2>1. "operatorWork" \in ChartSteps
    BY DEF ChartSteps
  <2> QED
    BY <1>1, <2>1, QuietWait, QuietKeeps DEF OperatorWork
<1>2. CASE ExecuteCommand("operatorWork", new) /\ UNCHANGED misled
  <2>1. Command("operatorWork", new) /\ Steady
    BY <1>2, Commands DEF OperatorWork, ExecuteCommand, Steady
  <2>2. cl \in [{"local", "work"} -> ClusterState]
    BY DEF Typing, TypeOK
  <2>3. UNCHANGED <<cl["local"].op, cl["local"].keos, cl["local"].config,
                    cl["local"].capi, cl["local"].mhc, cl["local"].capx, cl["work"].keos,
                    cl["work"].config, cl["work"].capi, cl["work"].mhc, cl["work"].capx>>
    BY <2>1, <2>2 DEF Command, ClusterState
  <2> HIDE DEF new
  <2>4. /\ Attended'
        /\ \A S : "operatorWork" \notin S => Passes(S)
        /\ Succeeding' => Succeeding /\ phase' = "execute" /\ Ahead' = Ahead \ {"operatorWork"}
    BY <2>1, CommandFrame DEF Steady
  <2>5. Handover'
    BY <2>1, <2>3, <2>4, HandoverKept DEF Pivot, Steady, Handover
  <2>6. Copies'
    BY <2>1, <2>3, <2>4, CopiesKept DEF Pivot, Steady, Copies
  <2>7. Objects'
    BY <2>1, <2>3, <2>4, ObjectsKept DEF Pivot, Steady
  <2>8. Furnished'
    BY <2>1, <2>3, <2>4, FurnishedKept DEF Pivot, Steady, Provided
  <2> QED
    BY <2>5, <2>6, <2>7, <2>8 DEF Pivot
<1> QED
  BY <1>1, <1>2 DEF OperatorWork

LEMMA WaitClusterKeeps == ASSUME Typing, Plan, Pivot, WaitCluster PROVE Pivot'
<1>1. Command("waitCluster", cl) /\ First("waitCluster") /\ Steady /\ cl' = cl
  BY Commands DEF WaitCluster, WaitFor, Steady
<1>2. phase' = "execute" => cl["local"].capi # "none"
  BY DEF WaitCluster, WaitFor, GiveUp
<1>3. cl["local"].capi \in {"none", "paused", "active"}
  BY DEF Typing, TypeOK, ClusterState
<1>4. /\ Attended'
      /\ \A S : "waitCluster" \notin S => Passes(S)
      /\ Succeeding' => Succeeding /\ phase' = "execute" /\ Ahead' = Ahead \ {"waitCluster"}
  BY <1>1, CommandFrame DEF Steady
<1>5. Handover'
  BY <1>1, <1>4, HandoverKept DEF Pivot, Steady, Handover
<1>6. Copies'
  BY <1>1, <1>4, CopiesKept DEF Pivot, Steady, Copies
<1>7. Objects'
  BY <1>1, <1>4, ObjectsKept DEF Pivot, Steady
<1>8. Furnished'
  BY <1>1, <1>2, <1>3, <1>4 DEF Pivot, Steady, Furnished, Resumed, Controllers
<1> QED
  BY <1>5, <1>6, <1>7, <1>8 DEF Pivot

LEMMA BackupKeeps == ASSUME Typing, Plan, Pivot, Backup \/ CopyBackup PROVE Pivot'
<1>1. PICK l \in {"backup", "copyBackup"} :
         /\ At(l) /\ cl' = cl /\ (Proceed \/ GiveUp)
         /\ UNCHANGED <<d, alive, cloud, misled>>
         /\ l = "backup" => backup' \in {backup, "node"}
         /\ l = "copyBackup" => backup' \in {backup, "host"} /\ (Proceed => backup' = "host")
  BY DEF Backup, CopyBackup, Proceed, GiveUp, At
<1>2. Command(l, cl) /\ First(l)
  BY <1>1, Commands
<1>3. /\ Attended'
      /\ \A S : l \notin S => Passes(S)
      /\ Succeeding' => Succeeding /\ phase' = "execute" /\ Ahead' = Ahead \ {l}
  BY <1>1, <1>2, CommandFrame
<1>4. /\ l \in Ahead /\ (l = "copyBackup" => "backup" \notin Ahead)
      /\ l = "backup" /\ "move" \in Ahead => "copyBackup" \in Ahead
  <2>1. l \in Ahead /\ (l = "copyBackup" => "backup" \notin Ahead)
    BY <1>1, <1>2, Ranked DEF First, Key
  <2> QED
    BY <2>1, TogetherAhead, DescriptorsAssumption DEF Typing, TypeOK
<1>5. phase' = "execute" => Proceed
  BY <1>1 DEF GiveUp
<1>6. Handover'
  BY <1>1, <1>3, HandoverKept DEF Pivot, Handover
<1>7. Copies'
  BY <1>1, <1>3, CopiesKept DEF Pivot, Copies
<1>8. Objects'
  <2>1. CASE l = "backup"
    BY <1>1, <1>2, <1>3, <1>4, <2>1 DEF Pivot, Objects, Command
  <2>2. CASE l = "copyBackup"
    BY <1>1, <1>2, <1>3, <1>4, <1>5, <2>2 DEF Pivot, Objects, Command
  <2> QED
    BY <1>1, <2>1, <2>2
<1>9. Furnished'
  BY <1>1, <1>3, FurnishedKept DEF Pivot, Provided
<1> QED
  BY <1>6, <1>7, <1>8, <1>9 DEF Pivot

(* The objects are in a cluster at every stage of the move.                *)
LEMMA Stages ==
    ASSUME cl \in [{"local", "work"} -> ClusterState], NEW i \in 1..5, cl' = MoveStages[i]
    PROVE  /\ UNCHANGED <<cl["local"].op, cl["local"].keos, cl["work"].keos>>
           /\ UNCHANGED <<cl["local"].config, cl["work"].config, cl["local"].capx, cl["work"].capx>>
           /\ i = 1 => UNCHANGED <<cl["local"].capi, cl["work"].capi>>
           /\ i # 1 => cl'["local"].capi = "paused" \/ cl'["work"].capi # "none"
           /\ i \in {4, 5} => cl'["work"].mhc = cl["local"].mhc
           /\ i = 4 => cl'["work"].capi = "paused"
           /\ i = 5 => cl'["work"].capi = "active"
<1>1. CASE i = 1
  BY <1>1 DEF MoveStages
<1>2. CASE i = 2
  BY <1>2 DEF MoveStages, ClusterState
<1>3. CASE i = 3
  BY <1>3 DEF MoveStages, ClusterState
<1>4. CASE i = 4
  BY <1>4 DEF MoveStages, ClusterState
<1>5. CASE i = 5
  BY <1>5 DEF MoveStages, ClusterState
<1> QED
  BY <1>1, <1>2, <1>3, <1>4, <1>5

LEMMA MoveKeeps == ASSUME Typing, Plan, Pivot, Move PROVE Pivot'
<1>1. PICK i \in 1..5 : /\ At("move") /\ cl' = MoveStages[i] /\ (Proceed \/ GiveUp)
                        /\ (Proceed => i = 5 \/ (i = 4 /\ "repeated" \in misled'))
                        /\ misled' \in {misled, misled \union {"repeated"}}
  BY DEF Move, Proceed, GiveUp, At
<1>2. /\ Command("move", MoveStages[i]) /\ First("move")
      /\ UNCHANGED <<d, alive, cloud, backup>>
      /\ misled \subseteq misled'
  BY <1>1, Commands DEF Move
<1>3. /\ Attended'
      /\ \A S : "move" \notin S => Passes(S)
      /\ Succeeding' => Succeeding /\ phase' = "execute" /\ Ahead' = Ahead \ {"move"}
  BY <1>2, CommandFrame
<1>4. "move" \in Ahead /\ "copyBackup" \notin Ahead /\ "backup" \notin Ahead /\ "selfHealing" \notin Ahead
  BY <1>2, Ranked DEF First, Key
<1>5. ~Keep(d)
  BY <1>4, TogetherAhead, DescriptorsAssumption DEF Typing, TypeOK
<1>6. cl \in [{"local", "work"} -> ClusterState]
  BY DEF Typing, TypeOK
<1>7. /\ UNCHANGED <<cl["local"].op, cl["local"].keos, cl["work"].keos>>
      /\ UNCHANGED <<cl["local"].config, cl["work"].config, cl["local"].capx, cl["work"].capx>>
      /\ i = 1 => UNCHANGED <<cl["local"].capi, cl["work"].capi>>
      /\ i # 1 => cl'["local"].capi = "paused" \/ cl'["work"].capi # "none"
  BY <1>1, <1>6, Stages
<1>8. phase' = "execute" => Resumed' /\ cl'["work"].mhc = cl["local"].mhc
  BY <1>1, <1>6, Stages DEF GiveUp, Resumed
<1>9. Handover'
  BY <1>2, <1>3, <1>7, HandoverKept DEF Pivot, Handover
<1>10. Copies'
  BY <1>2, <1>3, <1>7, CopiesKept DEF Pivot, Copies
<1>11. Objects'
  BY <1>2, <1>3, <1>4, <1>7 DEF Pivot, Command, Objects
<1>12. Furnished'
  BY <1>2, <1>3, <1>4, <1>5, <1>7, <1>8 DEF Pivot, Furnished, Controllers
<1> QED
  BY <1>9, <1>10, <1>11, <1>12 DEF Pivot

(* The local operator is not there to act on the finalizer of the deleted  *)
(* KeosCluster, and without it the deletion cannot end before the patch.   *)
LEMMA DeleteKeosKeeps == ASSUME Typing, Plan, Pivot, DeleteKeos PROVE Pivot'
<1> DEFINE new == [cl EXCEPT !["local"].keos = FALSE, !["local"].keosFin = FALSE]
<1>1. /\ Command("deleteKeos", new) /\ First("deleteKeos")
      /\ UNCHANGED <<d, alive, backup, misled>>
  BY Commands DEF DeleteKeos, ExecuteCommand
<1>2. cl \in [{"local", "work"} -> ClusterState]
  BY DEF Typing, TypeOK
<1>3. UNCHANGED <<cl["local"].op, cl["local"].config, cl["local"].capi, cl["local"].mhc,
                  cl["local"].capx, cl["work"].keos, cl["work"].config, cl["work"].capi,
                  cl["work"].mhc, cl["work"].capx>>
  BY <1>1, <1>2 DEF Command, ClusterState
<1>4. /\ cl'["local"].keos = cl["local"].keos \/ cl'["local"].keos = FALSE
      /\ phase' = "execute" => cl'["local"].keos = FALSE
  BY <1>1, <1>2 DEF Command, ClusterState
<1> HIDE DEF new
<1>5. /\ Attended'
      /\ \A S : "deleteKeos" \notin S => Passes(S)
      /\ Succeeding' => Succeeding /\ phase' = "execute" /\ Ahead' = Ahead \ {"deleteKeos"}
  BY <1>1, CommandFrame
<1>6. "deleteKeos" \in Ahead /\ "uninstallOperator" \notin Ahead /\ "copyKeos" \notin Ahead
  BY <1>1, Ranked DEF First, Key
<1>7. cl["local"].op = "none"
  BY <1>6 DEF Pivot, Handover
<1>8. cloud' = cloud
  BY <1>7 DEF DeleteKeos
<1>9. Handover'
  BY <1>1, <1>3, <1>4, <1>6, <1>7, <1>8 DEF Pivot, Command, Handover
<1>10. Copies'
  BY <1>1, <1>3, <1>4, <1>6, <1>8 DEF Pivot, Command, Copies
<1>11. Objects'
  BY <1>1, <1>3, <1>5, <1>8, ObjectsKept DEF Pivot
<1>12. Furnished'
  BY <1>1, <1>3, <1>5, FurnishedKept DEF Pivot, Provided
<1> QED
  BY <1>9, <1>10, <1>11, <1>12 DEF Pivot

(* The controllers.                                                        *)
LEMMA ControllersKeep ==
    ASSUME Typing, Pivot, FluxInstalls \/ \E c \in {"local", "work"} : Reconcile(c)
    PROVE  Pivot'
<1>1. cl \in [{"local", "work"} -> ClusterState]
  BY DEF Typing, TypeOK
<1>2. UNCHANGED <<d, phase, todo, alive, backup, misled>>
  BY DEF FluxInstalls, Reconcile
<1>3. Ahead' = Ahead /\ (Attended => Attended') /\ (Succeeding' <=> Succeeding)
  BY <1>2 DEF Ahead, Left, Attended, Succeeding
<1>4. CASE FluxInstalls
  <2>1. UNCHANGED <<cl["local"].op, cl["local"].keos, cl["local"].config,
                    cl["local"].capi, cl["local"].mhc, cl["local"].capx, cl["work"].keos,
                    cl["work"].config, cl["work"].capi, cl["work"].mhc, cl["work"].capx>>
    BY <1>1, <1>4 DEF FluxInstalls, ClusterState
  <2>2. cloud' = cloud
    BY <1>4 DEF FluxInstalls
  <2>3. Handover'
    BY <1>3, <2>1, <2>2, HandoverKept DEF Pivot, Handover, Passes
  <2>4. Copies'
    BY <1>3, <2>1, <2>2, CopiesKept DEF Pivot, Copies, Passes
  <2>5. Objects'
    BY <1>2, <1>3, <2>1, <2>2, ObjectsKept DEF Pivot, Objects, Passes
  <2>6. Furnished'
    BY <1>2, <1>3, <2>1, FurnishedKept DEF Pivot
  <2> QED
    BY <2>3, <2>4, <2>5, <2>6 DEF Pivot
<1>5. ASSUME NEW c \in {"local", "work"}, Reconcile(c) PROVE Pivot'
  <2>1. UNCHANGED <<cl["local"].op, cl["local"].keos, cl["local"].config, cl["local"].mhc,
                    cl["local"].capx, cl["work"].op, cl["work"].keos, cl["work"].config,
                    cl["work"].capi, cl["work"].mhc, cl["work"].capx>>
    BY <1>1, <1>5 DEF Reconcile, ClusterState
  <2>2. cl'["local"].capi = cl["local"].capi \/ (cloud = "none" /\ cl'["local"].capi = "active")
    BY <1>1, <1>5 DEF Reconcile, ClusterState
  <2>3. /\ cloud' = cloud \/ (cloud' = "created" /\ cl'[c].capi = "active")
        /\ cl[c].keos
    BY <1>5 DEF Reconcile
  <2>4. Handover'
    BY <1>3, <2>1, <2>3, HandoverKept DEF Pivot, Handover, Passes
  <2>5. Copies'
    BY <1>3, <2>1, <2>3, CopiesKept DEF Pivot, Copies, Passes
  <2>6. Objects'
    BY <1>2, <1>3, <2>1, <2>2, <2>3 DEF Pivot, Objects
  <2>7. Furnished'
    BY <1>2, <1>3, <2>1, <2>2 DEF Pivot, Furnished, Resumed, Controllers
  <2> QED
    BY <2>4, <2>5, <2>6, <2>7 DEF Pivot
<1> QED
  BY <1>4, <1>5

LEMMA PivotStep == Typing /\ Plan /\ Pivot /\ [Next]_vars => Pivot'
<1> SUFFICES ASSUME Typing, Plan, Pivot, [Next]_vars PROVE Pivot'
  OBVIOUS
<1>1. CASE \/ UNCHANGED vars \/ PlainStep \/ PullProviderCharts \/ GetProviderCharts
           \/ DeployCertManager \/ InstallCloudProvider \/ InstallCalico \/ ConfigureFlux
           \/ ReconcileCharts \/ InstallCSI \/ DeployClusterAutoscaler \/ InstallLBController
           \/ GetKubeconfig \/ StartRefresher \/ Rollout \/ StopRefresher
           \/ ReturnNil \/ CleanUp \/ ExportFails \/ ExportAndCleanUp \/ Kill
  BY <1>1, QuietSteps, QuietKeeps
<1>2. CASE CapxLocal \/ OperatorLocal \/ ApplyConfig \/ ApplyKeos \/ WaitCluster
  BY <1>2, CapxLocalKeeps, OperatorLocalKeeps, ApplyConfigKeeps, ApplyKeosKeeps, WaitClusterKeeps
<1>3. CASE CapxWork \/ ConfigCAPIWorker \/ EnableSelfHealing \/ OperatorWork \/ Backup \/ CopyBackup
  BY <1>3, CapxWorkKeeps, CapiWorkKeeps, SelfHealingKeeps, OperatorWorkKeeps, BackupKeeps
<1>4. CASE UninstallOperator \/ Move \/ PatchConfig \/ CopyConfig \/ DeleteConfig
  BY <1>4, UninstallKeeps, MoveKeeps, PatchConfigKeeps, CopyConfigKeeps, DeleteConfigKeeps
<1>5. CASE CopyKeos \/ PatchKeos \/ DeleteKeos \/ RedeployOperator
  BY <1>5, CopyKeosKeeps, PatchKeosKeeps, DeleteKeosKeeps, RedeployKeeps
<1>6. CASE FluxInstalls \/ \E c \in {"local", "work"} : Reconcile(c)
  BY <1>6, ControllersKeep
<1> QED
  BY <1>1, <1>2, <1>3, <1>4, <1>5, <1>6 DEF Next, Main

LEMMA PivotHolds == Spec => [](Typing /\ Plan /\ Pivot)
  BY InitTyping, TypingStep, InitPlan, PlanStep, InitPivot, PivotStep, PTL DEF Spec

(***************************************************************************)
(* For every descriptor, whichever command of the pivot fails, with or     *)
(* without having done its work, the operators of the two clusters never   *)
(* manage the KeosCluster at the same time.                                *)
(***************************************************************************)
THEOREM OneManager == Spec => []SingleActiveManager
<1>1. Pivot => SingleActiveManager
  BY DEF Pivot, Handover, SingleActiveManager, Managing
<1> QED
  BY <1>1, PivotHolds, PTL

(***************************************************************************)
(* For every descriptor, no deletion of the local KeosCluster takes the    *)
(* infrastructure of the new cluster down: when `kubectl delete` runs, the *)
(* operator that would act on the finalizer is uninstalled.                *)
(***************************************************************************)
THEOREM NothingTornDown == Spec => []NoTeardown
<1>1. Pivot => NoTeardown
  BY DEF Pivot, Handover, NoTeardown
<1> QED
  BY <1>1, PivotHolds, PTL

(***************************************************************************)
(* For every descriptor, the KeosCluster and the ClusterConfig of          *)
(* infrastructure that exists are in one of the two clusters.              *)
(***************************************************************************)
THEOREM ResourcesSurvive == Spec => []ResourcesKept
<1>1. Pivot => ResourcesKept
  BY DEF Pivot, Copies, ResourcesKept
<1> QED
  BY <1>1, PivotHolds, PTL

(***************************************************************************)
(* For every descriptor, the Cluster API objects of infrastructure that    *)
(* exists are held by a cluster that exists, or were given up by the clean *)
(* up after a failure with their backup on the host.                       *)
(***************************************************************************)
THEOREM ObjectsSurvive == Spec => []ObjectsHeld
<1>1. Pivot => ObjectsHeld
  <2> SUFFICES ASSUME Pivot, cloud = "created", "empty" \notin misled
               PROVE  \/ \E c \in {"local", "work"} : Running(c) /\ cl[c].capi # "none"
                      \/ /\ phase = "returnErr" /\ ~Retain(d)
                         /\ cl["local"].capi = "paused" => backup = "host"
    BY DEF ObjectsHeld
  <2>1. CASE alive
    BY <2>1 DEF Pivot, Objects, Running
  <2>2. CASE phase = "returnErr" /\ ~Retain(d)
    BY <2>2 DEF Pivot, Objects
  <2>3. CASE phase = "returnOk" /\ ~Retain(d)
    <3>1. ~Keep(d) /\ Succeeding /\ Ahead = {}
      BY <2>3, NothingAhead DEF Retain, Keep, Avoid, Succeeding
    <3>2. cl["work"].capi # "none"
      BY <3>1 DEF Pivot, Furnished, Resumed
    <3> QED
      BY <3>2 DEF Running
  <2> QED
    BY <2>1, <2>2, <2>3 DEF Pivot, Objects, Attended
<1> QED
  BY <1>1, PivotHolds, PTL

(***************************************************************************)
(* For every descriptor, when `create cluster` reports success and no      *)
(* command answered with nothing, a cluster that still exists has the      *)
(* Cluster API objects, with the MachineHealthChecks and the controllers   *)
(* they need: active, except that they are paused in the workload cluster  *)
(* when `clusterctl move` was cut after the deletion in the source and run *)
(* again by ExecuteCommand.                                                *)
(***************************************************************************)
THEOREM SuccessMeansManaged == Spec => []AnsweredSuccessIsManaged
<1>1. Pivot => AnsweredSuccessIsManaged
  <2> SUFFICES ASSUME Pivot, "empty" \notin misled, phase = "returnOk", ~Avoid(d)
               PROVE  \/ \E c \in {"local", "work"} : Manages(c, {"active"})
                      \/ "repeated" \in misled /\ Manages("work", {"paused"})
    BY DEF AnsweredSuccessIsManaged
  <2>1. Succeeding /\ Ahead = {}
    BY NothingAhead DEF Succeeding
  <2>2. CASE Keep(d)
    <3>1. alive
      BY <2>2 DEF Pivot, Objects, Attended, Keep, Retain
    <3>2. cl["local"].capi = "active" /\ cl["local"].mhc /\ cl["local"].capx \in Controllers
      BY <2>1, <2>2 DEF Pivot, Furnished, Resumed, Controllers
    <3> QED
      BY <3>1, <3>2 DEF Manages, Running
  <2>3. CASE ~Keep(d)
    BY <2>1, <2>3 DEF Pivot, Furnished, Resumed, Manages, Running
  <2> QED
    BY <2>2, <2>3
<1> QED
  BY <1>1, PivotHolds, PTL

-----------------------------------------------------------------------------
(* The charts.  Pulling them turns the dictionary into what it stays, for  *)
(* a lookup with the configuration that this leaves behind finds the same. *)
FinalDict(x) ==
    GetGenericCharts(WithLBController(Dictionary(x), x), [c \in x.overrides |-> "asked"], x.helmPrivate)

(* What was pulled and what was released agree with that dictionary and    *)
(* with the operator's version.                                            *)
Sound(ch, x) ==
    /\ DOMAIN ch = ChartFields
    /\ ch.dict = FinalDict(x)
    /\ ch.asked = ConvertToChart(FinalDict(x))
    /\ ToPull(FinalDict(x)) \subseteq DOMAIN ch.pulled
    /\ \A c \in DOMAIN ch.pulled :
          \/ /\ c \in ToPull(FinalDict(x))
             /\ ch.pulled[c] = [version |-> FinalDict(x)[c].version,
                                repository |-> FinalDict(x)[c].repository]
          \/ /\ c = "cluster-operator" /\ ch.operator # ""
             /\ ch.pulled[c] = [version |-> ch.operator, repository |-> "helm"]
    /\ \A c \in DOMAIN ch.releases :
          \/ /\ c \in DOMAIN FinalDict(x)
             /\ ch.releases[c] = [version |-> FinalDict(x)[c].version, ref |-> RepoRef(c, x)]
          \/ /\ c = "cluster-operator" /\ ch.operator # ""
             /\ ch.releases[c] = [version |-> ch.operator, ref |-> "keos"]

(* What a step leaves behind for the steps after it.                       *)
ValuesSteps == {"certManagerLocal", "certManagerWork", "cloudProvider", "calico", "flux"}

Stocked(l, ch, x) ==
    /\ l \in ValuesSteps => ToInstall(l, x) \subseteq ch.values
    /\ l = "flux" => "keos" \in ch.repos /\ (~x.helmPrivate => DOMAIN FinalDict(x) \subseteq ch.repos)
    /\ l = "operatorLocal" => "cluster-operator" \in DOMAIN ch.pulled

Supplied ==
    /\ charts = NoCharts(d) \/ Sound(charts, d)
    /\ "pullCharts" \in Ahead => charts = NoCharts(d)
    /\ phase = "execute" =>
          /\ "pullCharts" \notin Ahead => Sound(charts, d)
          /\ \A l \in StepsOf(Execute(d)) \ Ahead : Key(l) => Stocked(l, charts, d)

(* The entry of a chart in a dictionary.                                   *)
ChartEntry == [version : {"listed", "asked"}, repository : {"own", "helm"},
               pull : BOOLEAN, reconcile : BOOLEAN]

ChartNames ==
    {"cert-manager", "flux2", "tigera-operator", "aws-load-balancer-controller",
     "cluster-autoscaler", "cloud-provider-azure", "azuredisk-csi-driver", "azurefile-csi-driver"}

Listed(c, e, installed) ==
    /\ e \in ChartEntry
    /\ e.version = "listed" /\ e.repository = "own"
    /\ e.pull = (c \in installed) /\ e.reconcile = (c \in installed)

(* A dictionary is put together from two tables.                           *)
LEMMA Tables ==
    ASSUME NEW a, NEW b, NEW r, \A c \in r : c \notin a,
           NEW m, m = Merged(Table(b, r), Table(a, {}))
    PROVE  /\ \A c : c \in DOMAIN m <=> c \in a \/ c \in b \/ c \in r
           /\ \A c \in DOMAIN m : Listed(c, m[c], a \union b)
<1> DEFINE s == Table(a, {})
           t == Table(b, r)
<1>1. DOMAIN s = a /\ \A c \in a : Listed(c, s[c], a)
  BY DEF Table, Listed, ChartEntry
<1>2. DOMAIN t = b \union r
  BY DEF Table
<1>3. ASSUME NEW c \in b \union r PROVE Listed(c, t[c], b)
  BY DEF Table, Listed, ChartEntry
<1>0. m = Merged(t, s)
  OBVIOUS
<1> HIDE DEF s, t
<1>4. DOMAIN m = a \union b \union r
  BY <1>0, <1>1, <1>2 DEF Merged
<1>5. ASSUME NEW c \in a \union b \union r PROVE Listed(c, m[c], a \union b)
  <2>1. m[c] = IF c \in b \union r THEN t[c] ELSE s[c]
    BY <1>0, <1>1, <1>2 DEF Merged
  <2>2. CASE c \in b \union r
    <3>1. c \in a \union b <=> c \in b
      BY <2>2
    <3> QED
      BY <1>3, <2>1, <2>2, <3>1 DEF Listed
  <2>3. CASE c \notin b \union r
    <3>1. c \in a /\ (c \in a \union b <=> c \in a)
      BY <2>3
    <3> QED
      BY <1>1, <2>1, <2>3, <3>1 DEF Listed
  <2> QED
    BY <2>2, <2>3
<1> QED
  BY <1>4, <1>5

(* The charts of each flavour: those that are installed, and others.       *)
AzureVMs(x) == x.infra = "azure" /\ ~x.managed /\ x.k8s \in TemplateVersions

Installed(x) ==
    {"cert-manager", "flux2"} \union
    (IF EKS(x) \/ AzureVMs(x) THEN {"tigera-operator"} ELSE {}) \union
    (IF AzureVMs(x) THEN {"cloud-provider-azure"} ELSE {})

LEMMA DictionaryIs ==
    ASSUME NEW x \in Descriptor
    PROVE  /\ Installed(x) \subseteq DOMAIN Dictionary(x)
           /\ DOMAIN Dictionary(x) \subseteq ChartNames
           /\ \A c \in DOMAIN Dictionary(x) : Listed(c, Dictionary(x)[c], Installed(x))
           /\ EKS(x) => {"aws-load-balancer-controller", "cluster-autoscaler"} \subseteq DOMAIN Dictionary(x)
           /\ AzureVMs(x) => {"azuredisk-csi-driver", "azurefile-csi-driver", "cluster-autoscaler"}
                                \subseteq DOMAIN Dictionary(x)
<1>0. x.infra \in {"aws", "azure", "gcp"} /\ x.managed \in BOOLEAN
  BY DEF Descriptor, Infra
<1> DEFINE a == {"cert-manager", "flux2"}
<1>1. CASE EKS(x)
  <2> DEFINE b == {"tigera-operator"}
             r == {"aws-load-balancer-controller", "cluster-autoscaler"}
  <2>1. Dictionary(x) = Merged(Table(b, r), Table(a, {}))
    BY <1>1 DEF Dictionary, CommonsCharts, AwsCharts, EKS
  <2>2. Installed(x) = a \union b /\ ~AzureVMs(x)
    BY <1>1 DEF Installed, EKS, AzureVMs
  <2>3. DOMAIN Dictionary(x) = a \union b \union r
        /\ \A c \in DOMAIN Dictionary(x) : Listed(c, Dictionary(x)[c], a \union b)
    <3>0. \A c \in r : c \notin a
      OBVIOUS
    <3> HIDE DEF a, b, r
    <3>1. /\ \A c : c \in DOMAIN Dictionary(x) <=> c \in a \/ c \in b \/ c \in r
          /\ \A c \in DOMAIN Dictionary(x) : Listed(c, Dictionary(x)[c], a \union b)
      BY <2>1, <3>0, Tables, Zenon
    <3> QED
      BY <3>1
  <2>4. ASSUME NEW c \in DOMAIN Dictionary(x) PROVE Listed(c, Dictionary(x)[c], Installed(x))
    BY <2>2, <2>3 DEF Listed
  <2>5. Installed(x) \subseteq DOMAIN Dictionary(x) /\ DOMAIN Dictionary(x) \subseteq ChartNames
    BY <2>2, <2>3 DEF ChartNames
  <2> QED
    BY <1>1, <2>2, <2>3, <2>4, <2>5
<1>2. CASE AzureVMs(x)
  <2> DEFINE b == {"cloud-provider-azure", "tigera-operator"}
             r == {"azuredisk-csi-driver", "azurefile-csi-driver", "cluster-autoscaler"}
  <2>1. Dictionary(x) = Merged(Table(b, r), Table(a, {}))
    BY <1>2 DEF Dictionary, CommonsCharts, AzureCharts, TemplateVersions, AzureVMs
  <2>2. Installed(x) = a \union b /\ ~EKS(x)
    BY <1>2 DEF Installed, EKS, AzureVMs
  <2>3. DOMAIN Dictionary(x) = a \union b \union r
        /\ \A c \in DOMAIN Dictionary(x) : Listed(c, Dictionary(x)[c], a \union b)
    <3>0. \A c \in r : c \notin a
      OBVIOUS
    <3> HIDE DEF a, b, r
    <3>1. /\ \A c : c \in DOMAIN Dictionary(x) <=> c \in a \/ c \in b \/ c \in r
          /\ \A c \in DOMAIN Dictionary(x) : Listed(c, Dictionary(x)[c], a \union b)
      BY <2>1, <3>0, Tables, Zenon
    <3> QED
      BY <3>1
  <2>4. ASSUME NEW c \in DOMAIN Dictionary(x) PROVE Listed(c, Dictionary(x)[c], Installed(x))
    BY <2>2, <2>3 DEF Listed
  <2>5. Installed(x) \subseteq DOMAIN Dictionary(x) /\ DOMAIN Dictionary(x) \subseteq ChartNames
    BY <2>2, <2>3 DEF ChartNames
  <2> QED
    BY <1>2, <2>2, <2>3, <2>4, <2>5
<1>3. CASE ~EKS(x) /\ ~AzureVMs(x)
  <2>1. PICK r \in {{}, {"tigera-operator"}} : Dictionary(x) = Merged(Table({}, r), Table(a, {}))
    <3>1. CASE x.infra = "aws"
      BY <1>0, <1>3, <3>1 DEF Dictionary, CommonsCharts, AwsCharts, EKS
    <3>2. CASE x.infra = "azure"
      BY <1>0, <1>3, <3>2 DEF Dictionary, CommonsCharts, AzureCharts, TemplateVersions, AzureVMs
    <3>3. CASE x.infra = "gcp"
      BY <1>0, <1>3, <3>3 DEF Dictionary, CommonsCharts, GoogleCharts
    <3> QED
      BY <1>0, <3>1, <3>2, <3>3
  <2>2. Installed(x) = a \union {}
    BY <1>3 DEF Installed
  <2>3. DOMAIN Dictionary(x) = a \union {} \union r
        /\ \A c \in DOMAIN Dictionary(x) : Listed(c, Dictionary(x)[c], a \union {})
    <3>0. \A c \in r : c \notin a
      BY <2>1
    <3> HIDE DEF a
    <3>1. /\ \A c : c \in DOMAIN Dictionary(x) <=> c \in a \/ c \in {} \/ c \in r
          /\ \A c \in DOMAIN Dictionary(x) : Listed(c, Dictionary(x)[c], a \union {})
      BY <2>1, <3>0, Tables, Zenon
    <3> QED
      BY <3>1
  <2>4. ASSUME NEW c \in DOMAIN Dictionary(x) PROVE Listed(c, Dictionary(x)[c], Installed(x))
    BY <2>2, <2>3 DEF Listed
  <2>5. Installed(x) \subseteq DOMAIN Dictionary(x) /\ DOMAIN Dictionary(x) \subseteq ChartNames
    BY <2>2, <2>3 DEF ChartNames
  <2> QED
    BY <1>3, <2>2, <2>3, <2>4, <2>5
<1> QED
  BY <1>1, <1>2, <1>3

(* Pulling changes versions and repositories, and has one more chart       *)
(* pulled.                                                                 *)
LEMMA FinalDictIs ==
    ASSUME NEW x \in Descriptor
    PROVE  /\ FinalDict(x) = [c \in DOMAIN Dictionary(x) |-> FinalDict(x)[c]]
           /\ \A c \in DOMAIN Dictionary(x) :
                 /\ FinalDict(x)[c] \in ChartEntry
                 /\ FinalDict(x)[c].version = IF c \in x.overrides THEN "asked" ELSE "listed"
                 /\ FinalDict(x)[c].repository = IF x.helmPrivate THEN "helm" ELSE "own"
                 /\ c \in Installed(x) => FinalDict(x)[c].pull
                 /\ FinalDict(x)[c].reconcile => c \in Installed(x)
<1> DEFINE A == [c \in x.overrides |-> "asked"]
           W == WithLBController(Dictionary(x), x)
           G == GetGenericCharts(W, A, x.helmPrivate)
           D == Dictionary(x)
<1>1. DOMAIN A = x.overrides /\ \A c \in x.overrides : A[c] = "asked"
  OBVIOUS
<1>2. DOMAIN W = DOMAIN D
  BY DEF WithLBController
<1>3. ASSUME NEW c \in DOMAIN D
      PROVE  /\ W[c] \in ChartEntry
             /\ W[c].version = "listed" /\ W[c].repository = "own"
             /\ c \in Installed(x) => W[c].pull
             /\ W[c].reconcile => c \in Installed(x)
  <2>1. Listed(c, D[c], Installed(x))
    BY DictionaryIs
  <2>2. PICK b \in BOOLEAN : W[c] = [D[c] EXCEPT !.pull = @ \/ b]
    BY DEF WithLBController
  <2> HIDE DEF D, W
  <2> QED
    BY <2>1, <2>2 DEF Listed, ChartEntry
<1> HIDE DEF A, W
<1>4. /\ G = [c \in DOMAIN D |-> G[c]]
      /\ \A c \in DOMAIN D :
            G[c] = [W[c] EXCEPT !.version = IF c \in x.overrides THEN "asked" ELSE @,
                                !.repository = IF x.helmPrivate THEN "helm" ELSE @]
  BY <1>1, <1>2 DEF GetGenericCharts
<1>5. FinalDict(x) = G
  BY DEF FinalDict, A, W
<1> HIDE DEF G, D
<1>6. ASSUME NEW c \in DOMAIN D
      PROVE  /\ G[c] \in ChartEntry
             /\ G[c].version = IF c \in x.overrides THEN "asked" ELSE "listed"
             /\ G[c].repository = IF x.helmPrivate THEN "helm" ELSE "own"
             /\ c \in Installed(x) => G[c].pull
             /\ G[c].reconcile => c \in Installed(x)
  BY <1>3, <1>4 DEF ChartEntry
<1> QED
  BY <1>4, <1>5, <1>6 DEF D

(* A later lookup changes nothing.                                         *)
LEMMA Settled ==
    ASSUME NEW x \in Descriptor
    PROVE  GetGenericCharts(FinalDict(x), ConvertToChart(FinalDict(x)), x.helmPrivate) = FinalDict(x)
<1> DEFINE F == FinalDict(x)
           A == ConvertToChart(F)
<1>1. DOMAIN A = ToPull(F) /\ \A c \in ToPull(F) : A[c] = F[c].version
  BY DEF ConvertToChart
<1>2. F = [c \in DOMAIN F |-> F[c]]
  BY FinalDictIs
<1>3. ASSUME NEW c \in DOMAIN F
      PROVE  [F[c] EXCEPT !.version = IF c \in DOMAIN A THEN A[c] ELSE @,
                          !.repository = IF x.helmPrivate THEN "helm" ELSE @] = F[c]
  <2>1. F[c] \in ChartEntry /\ F[c].repository = IF x.helmPrivate THEN "helm" ELSE "own"
    BY FinalDictIs
  <2>2. (IF c \in DOMAIN A THEN A[c] ELSE F[c].version) = F[c].version
    BY <1>1
  <2>3. (IF x.helmPrivate THEN "helm" ELSE F[c].repository) = F[c].repository
    BY <2>1
  <2> HIDE DEF F, A
  <2> QED
    BY <2>1, <2>2, <2>3 DEF ChartEntry
<1> HIDE DEF F, A
<1>4. GetGenericCharts(F, A, x.helmPrivate) = [c \in DOMAIN F |-> F[c]]
  BY <1>3 DEF GetGenericCharts
<1> QED
  BY <1>2, <1>4 DEF F, A

LEMMA NoChartsIs ==
    ASSUME NEW x
    PROVE  /\ DOMAIN NoCharts(x) = ChartFields
           /\ NoCharts(x).dict = Dictionary(x)
           /\ NoCharts(x).asked = [c \in x.overrides |-> "asked"]
           /\ DOMAIN NoCharts(x).pulled = {} /\ DOMAIN NoCharts(x).releases = {}
  BY DEF NoCharts, ChartFields, Table

(* Each operation on the charts keeps Sound, and takes nothing away.       *)
Grows(ch, new) ==
    /\ ch.values \subseteq new.values /\ ch.repos \subseteq new.repos
    /\ DOMAIN ch.pulled \subseteq DOMAIN new.pulled

LEMMA StockedKept ==
    ASSUME NEW l, NEW ch, NEW new, NEW x, Stocked(l, ch, x), Grows(ch, new)
    PROVE  Stocked(l, new, x)
  BY DEF Stocked, Grows

LEMMA PullMakesSound ==
    ASSUME NEW x \in Descriptor
    PROVE  Sound(AfterPull(NoCharts(x), x), x)
<1> DEFINE ch == NoCharts(x)
           new == AfterPull(ch, x)
           F == FinalDict(x)
<1>1. new = [ch EXCEPT !.dict = F, !.pulled = PulledCharts(F), !.asked = ConvertToChart(F)]
  BY NoChartsIs DEF AfterPull, FinalDict
<1>2. DOMAIN ch = ChartFields /\ DOMAIN ch.releases = {}
  BY NoChartsIs
<1> HIDE DEF ch, new, F
<1>3. /\ DOMAIN new = ChartFields /\ new.dict = F /\ new.asked = ConvertToChart(F)
      /\ new.pulled = PulledCharts(F) /\ DOMAIN new.releases = {}
  BY <1>1, <1>2 DEF ChartFields
<1>4. /\ DOMAIN PulledCharts(F) = ToPull(F)
      /\ \A c \in ToPull(F) :
            PulledCharts(F)[c] = [version |-> F[c].version, repository |-> F[c].repository]
  BY DEF PulledCharts
<1> QED
  BY <1>3, <1>4 DEF Sound, F, new, ch

LEMMA LookupKeepsSound ==
    ASSUME NEW x \in Descriptor, NEW ch, Sound(ch, x)
    PROVE  Sound(AfterLookup(ch, x), x) /\ Grows(ch, AfterLookup(ch, x))
<1> DEFINE new == AfterLookup(ch, x)
<1>1. GetGenericCharts(ch.dict, ch.asked, x.helmPrivate) = ch.dict
  BY Settled DEF Sound
<1>2. /\ DOMAIN new = DOMAIN ch /\ new.dict = ch.dict
      /\ \A f \in ChartFields \ {"dict"} : new[f] = ch[f]
  BY <1>1 DEF AfterLookup, Sound, ChartFields
<1>3. /\ new.asked = ch.asked /\ new.pulled = ch.pulled /\ new.values = ch.values
      /\ new.repos = ch.repos /\ new.releases = ch.releases /\ new.operator = ch.operator
  BY <1>2 DEF ChartFields
<1> HIDE DEF new
<1> QED
  BY <1>2, <1>3 DEF Sound, Grows, new

LEMMA InstallKeepsSound ==
    ASSUME NEW x \in Descriptor, NEW ch, Sound(ch, x), NEW l
    PROVE  LET new == AfterInstall(l, ch, x)
           IN  Sound(new, x) /\ Grows(ch, new) /\ ToInstall(l, x) \subseteq new.values
<1> DEFINE new == AfterInstall(l, ch, x)
<1>1. /\ DOMAIN new = DOMAIN ch /\ new.values = ch.values \union ToInstall(l, x)
      /\ new.dict = ch.dict /\ new.asked = ch.asked /\ new.pulled = ch.pulled
      /\ new.repos = ch.repos /\ new.releases = ch.releases /\ new.operator = ch.operator
  BY DEF AfterInstall, Sound, ChartFields
<1> HIDE DEF new
<1>2. Sound(new, x) /\ Grows(ch, new) /\ ToInstall(l, x) \subseteq new.values
  BY <1>1 DEF Sound, Grows
<1> QED
  BY <1>2 DEF new

LEMMA FluxKeepsSound ==
    ASSUME NEW x \in Descriptor, NEW ch, Sound(ch, x)
    PROVE  LET new == AfterFlux(ch, x)
           IN  Sound(new, x) /\ Grows(ch, new) /\ Stocked("flux", new, x)
<1> DEFINE new == AfterFlux(ch, x)
<1>1. /\ DOMAIN new = DOMAIN ch /\ new.values = ch.values \union {"flux2"}
      /\ new.repos = ch.repos \union {"keos"} \union IF x.helmPrivate THEN {} ELSE DOMAIN ch.dict
      /\ new.dict = ch.dict /\ new.asked = ch.asked /\ new.pulled = ch.pulled
      /\ new.releases = ch.releases /\ new.operator = ch.operator
  BY DEF AfterFlux, Sound, ChartFields
<1>2. ch.dict = FinalDict(x)
  BY DEF Sound
<1> HIDE DEF new
<1>3. Sound(new, x) /\ Grows(ch, new)
  BY <1>1 DEF Sound, Grows
<1>4. ToInstall("flux", x) = {"flux2"}
  BY DEF ToInstall
<1>5. Stocked("flux", new, x)
  BY <1>1, <1>2, <1>4 DEF Stocked
<1> QED
  BY <1>3, <1>5 DEF new

LEMMA ReleaseKeepsSound ==
    ASSUME NEW x \in Descriptor, NEW ch, Sound(ch, x), NEW l, Installable(l, ch, x)
    PROVE  Sound(AfterRelease(l, ch, x), x) /\ Grows(ch, AfterRelease(l, ch, x))
<1> DEFINE new == AfterRelease(l, ch, x)
           R == ToRelease(l, ch, x)
           rel == [c \in R |-> [version |-> ch.dict[c].version, ref |-> RepoRef(c, x)]]
           F == FinalDict(x)
<1>1. /\ DOMAIN new = DOMAIN ch /\ new.releases = Merged(rel, ch.releases)
      /\ new.dict = ch.dict /\ new.asked = ch.asked /\ new.pulled = ch.pulled
      /\ new.values = ch.values /\ new.repos = ch.repos /\ new.operator = ch.operator
  BY DEF AfterRelease, Sound, ChartFields
<1>2. R \subseteq DOMAIN F /\ ch.dict = F
  BY DEF Installable, Sound
<1>3. /\ DOMAIN rel = R
      /\ \A c \in R : rel[c] = [version |-> F[c].version, ref |-> RepoRef(c, x)]
  BY <1>2
<1> HIDE DEF new, R, rel
<1>4. /\ DOMAIN new.releases = R \union DOMAIN ch.releases
      /\ \A c \in DOMAIN new.releases :
            new.releases[c] = IF c \in R THEN rel[c] ELSE ch.releases[c]
  BY <1>1, <1>3 DEF Merged
<1> HIDE DEF F
<1>5. ASSUME NEW c \in DOMAIN new.releases
      PROVE  \/ /\ c \in DOMAIN F
                /\ new.releases[c] = [version |-> F[c].version, ref |-> RepoRef(c, x)]
             \/ /\ c = "cluster-operator" /\ new.operator # ""
                /\ new.releases[c] = [version |-> new.operator, ref |-> "keos"]
  <2>1. CASE c \in R
    BY <1>2, <1>3, <1>4, <2>1
  <2>2. CASE c \notin R
    BY <1>1, <1>4, <2>2 DEF Sound, F
  <2> QED
    BY <2>1, <2>2
<1>6. Sound(new, x)
  BY <1>1, <1>5 DEF Sound, F
<1>7. Grows(ch, new)
  BY <1>1 DEF Grows
<1> QED
  BY <1>6, <1>7 DEF new

(* The operator's version: "" while nothing of it was pulled or released.  *)
LEMMA OperatorKeepsSound ==
    ASSUME NEW x \in Descriptor, NEW ch, Sound(ch, x), NEW v \in OperatorVersions(ch)
    PROVE  /\ Sound(OperatorPulled(ch, v), x) /\ Grows(ch, OperatorPulled(ch, v))
           /\ "cluster-operator" \in DOMAIN OperatorPulled(ch, v).pulled
           /\ Sound(OperatorReleased(ch, v), x) /\ Grows(ch, OperatorReleased(ch, v))
<1> DEFINE F == FinalDict(x)
           p == OperatorPulled(ch, v)
           r == OperatorReleased(ch, v)
           one == [c \in {"cluster-operator"} |-> [version |-> v, repository |-> "helm"]]
           two == [c \in {"cluster-operator"} |-> [version |-> v, ref |-> "keos"]]
<1>1. v # "" /\ (ch.operator # "" => v = ch.operator)
  BY DEF OperatorVersions
<1>2. /\ DOMAIN p = DOMAIN ch /\ p.operator = v /\ p.pulled = Merged(one, ch.pulled)
      /\ p.dict = ch.dict /\ p.asked = ch.asked /\ p.releases = ch.releases
      /\ p.values = ch.values /\ p.repos = ch.repos
  BY DEF OperatorPulled, Sound, ChartFields
<1>3. /\ DOMAIN r = DOMAIN ch /\ r.operator = v /\ r.releases = Merged(two, ch.releases)
      /\ r.dict = ch.dict /\ r.asked = ch.asked /\ r.pulled = ch.pulled
      /\ r.values = ch.values /\ r.repos = ch.repos
  BY DEF OperatorReleased, Sound, ChartFields
<1>4. /\ DOMAIN one = {"cluster-operator"}
      /\ one["cluster-operator"] = [version |-> v, repository |-> "helm"]
      /\ DOMAIN two = {"cluster-operator"}
      /\ two["cluster-operator"] = [version |-> v, ref |-> "keos"]
  OBVIOUS
<1> HIDE DEF p, r, one, two
<1>5. /\ DOMAIN p.pulled = {"cluster-operator"} \union DOMAIN ch.pulled
      /\ \A c \in DOMAIN p.pulled :
            p.pulled[c] = IF c = "cluster-operator" THEN one[c] ELSE ch.pulled[c]
  BY <1>2, <1>4 DEF Merged
<1>6. /\ DOMAIN r.releases = {"cluster-operator"} \union DOMAIN ch.releases
      /\ \A c \in DOMAIN r.releases :
            r.releases[c] = IF c = "cluster-operator" THEN two[c] ELSE ch.releases[c]
  BY <1>3, <1>4 DEF Merged
<1>7. "cluster-operator" \notin DOMAIN F
  BY DictionaryIs, FinalDictIs DEF ChartNames
<1>8. ToPull(F) \subseteq DOMAIN F
  BY DEF ToPull
<1>9. Sound(p, x)
  <2>1. ASSUME NEW c \in DOMAIN p.pulled
        PROVE  \/ /\ c \in ToPull(F)
                  /\ p.pulled[c] = [version |-> F[c].version, repository |-> F[c].repository]
               \/ /\ c = "cluster-operator" /\ p.operator # ""
                  /\ p.pulled[c] = [version |-> p.operator, repository |-> "helm"]
    <3>1. CASE c = "cluster-operator"
      BY <1>1, <1>2, <1>4, <1>5, <3>1
    <3>2. CASE c # "cluster-operator"
      BY <1>5, <3>2 DEF Sound
    <3> QED
      BY <3>1, <3>2
  <2>2. ASSUME NEW c \in DOMAIN p.releases
        PROVE  \/ /\ c \in DOMAIN F
                  /\ p.releases[c] = [version |-> F[c].version, ref |-> RepoRef(c, x)]
               \/ /\ c = "cluster-operator" /\ p.operator # ""
                  /\ p.releases[c] = [version |-> p.operator, ref |-> "keos"]
    BY <1>1, <1>2 DEF Sound
  <2> HIDE DEF F
  <2> QED
    BY <1>2, <1>5, <2>1, <2>2 DEF Sound, F
<1>10. Sound(r, x)
  <2>1. ASSUME NEW c \in DOMAIN r.pulled
        PROVE  \/ /\ c \in ToPull(F)
                  /\ r.pulled[c] = [version |-> F[c].version, repository |-> F[c].repository]
               \/ /\ c = "cluster-operator" /\ r.operator # ""
                  /\ r.pulled[c] = [version |-> r.operator, repository |-> "helm"]
    BY <1>1, <1>3 DEF Sound
  <2>2. ASSUME NEW c \in DOMAIN r.releases
        PROVE  \/ /\ c \in DOMAIN F
                  /\ r.releases[c] = [version |-> F[c].version, ref |-> RepoRef(c, x)]
               \/ /\ c = "cluster-operator" /\ r.operator # ""
                  /\ r.releases[c] = [version |-> r.operator, ref |-> "keos"]
    <3>1. CASE c = "cluster-operator"
      BY <1>1, <1>3, <1>4, <1>6, <3>1
    <3>2. CASE c # "cluster-operator"
      BY <1>6, <3>2 DEF Sound
    <3> QED
      BY <3>1, <3>2
  <2> HIDE DEF F
  <2> QED
    BY <1>3, <2>1, <2>2 DEF Sound, F
<1>11. Grows(ch, p) /\ Grows(ch, r) /\ "cluster-operator" \in DOMAIN p.pulled
  BY <1>2, <1>3, <1>5 DEF Grows
<1> QED
  BY <1>9, <1>10, <1>11 DEF p, r

(* The steps that Supplied speaks of.                                      *)
Supplying == {"pullCharts", "operatorLocal"} \union ValuesSteps

LEMMA StockedOthers == \A l, ch, x : l \notin Supplying => Stocked(l, ch, x)
  BY DEF Supplying, ValuesSteps, Stocked

(* Before the first step that uses them the charts have been pulled.       *)
LEMMA PulledBefore ==
    ASSUME Plan, Supplied, NEW l, At(l), Key(l), l # "pullCharts"
    PROVE  "pullCharts" \notin Ahead /\ Sound(charts, d)
<1>1. "pullCharts" \in Ahead => Rank(l) < 1
  BY AtHead, Ranked
<1>2. Rank(l) \in Nat /\ Rank(l) > 0
  BY RankType DEF Key
<1> QED
  BY <1>1, <1>2 DEF Supplied, At

(* A step that changes the charts.                                         *)
LEMMA ChartStep ==
    ASSUME Plan, Supplied, NEW l, NEW new, At(l), Key(l), l # "pullCharts",
           Proceed \/ GiveUp, Charted(new), d' = d,
           Sound(charts, d) => Sound(new, d) /\ Grows(charts, new) /\ Stocked(l, new, d)
    PROVE  Supplied'
<1>1. "pullCharts" \notin Ahead /\ Sound(charts, d)
  BY PulledBefore
<1>2. Sound(charts', d')
  BY <1>1 DEF Charted
<1>3. CASE Proceed
  <2>1. phase' = "execute" /\ Ahead' = Ahead \ {l} /\ charts' = new /\ phase = "execute"
    BY <1>3, Advance DEF Charted, At
  <2>2. ASSUME NEW k \in StepsOf(Execute(d)), k \notin Ahead', Key(k) PROVE Stocked(k, charts', d')
    <3>1. CASE k = l
      BY <1>1, <2>1, <3>1
    <3>2. CASE k # l
      <4>1. Stocked(k, charts, d)
        BY <2>1, <2>2, <3>2 DEF Supplied
      <4> QED
        BY <1>1, <2>1, <4>1, StockedKept
    <3> QED
      BY <3>1, <3>2
  <2> QED
    BY <1>1, <1>2, <2>1, <2>2 DEF Supplied
<1>4. CASE GiveUp
  <2>1. phase' # "execute" /\ Ahead' = {}
    BY <1>4 DEF GiveUp, Ahead, Left
  <2> QED
    BY <1>2, <2>1 DEF Supplied
<1> QED
  BY <1>3, <1>4

LEMMA PullStep == ASSUME Typing, Plan, Supplied, PullProviderCharts PROVE Supplied'
<1> DEFINE new == AfterPull(NoCharts(d), d)
<1>0. d \in Descriptor
  BY DescriptorsAssumption DEF Typing, TypeOK
<1>1. At("pullCharts") /\ (Proceed \/ GiveUp) /\ Charted(AfterPull(charts, d)) /\ d' = d
  BY DEF PullProviderCharts, WaitFor
<1>2. "pullCharts" \in Ahead /\ charts = NoCharts(d)
  BY <1>1, AtHead, Ranked DEF Key, Supplied
<1>3. \A m \in Ahead : m # "pullCharts" => 1 < Rank(m)
  BY <1>1, AtHead, Ranked DEF Key
<1>4. Sound(new, d)
  BY <1>0, PullMakesSound
<1>5. charts' \in {charts, new} /\ (phase' = "execute" => charts' = new)
  BY <1>1, <1>2 DEF Charted
<1> HIDE DEF new
<1>6. CASE Proceed
  <2>1. phase' = "execute" /\ Ahead' = Ahead \ {"pullCharts"} /\ charts' = new /\ phase = "execute"
    BY <1>1, <1>5, <1>6, Advance DEF At
  <2>2. ASSUME NEW k \in StepsOf(Execute(d)), k \notin Ahead', Key(k) PROVE k = "pullCharts"
    <3>1. CASE k \in Ahead
      BY <2>1, <2>2, <3>1
    <3>2. CASE k \notin Ahead
      <4>1. Rank(k) < 1 /\ Rank(k) \in Nat /\ Rank(k) > 0
        BY <1>2, <2>2, <3>2, Ranked, RankType DEF Plan, Key
      <4> QED
        BY <4>1
    <3> QED
      BY <3>1, <3>2
  <2>3. Stocked("pullCharts", charts', d')
    BY DEF Stocked, ValuesSteps
  <2> QED
    BY <1>1, <1>4, <2>1, <2>2, <2>3 DEF Supplied
<1>7. CASE GiveUp
  <2>1. phase' # "execute" /\ Ahead' = {}
    BY <1>7 DEF GiveUp, Ahead, Left
  <2>2. charts' = NoCharts(d') \/ Sound(charts', d')
    BY <1>1, <1>2, <1>4, <1>5
  <2> QED
    BY <2>1, <2>2 DEF Supplied
<1> QED
  BY <1>1, <1>6, <1>7

(* Steps that leave the charts alone.                                      *)
Bare ==
    /\ charts' = charts /\ d' = d
    /\ \/ UNCHANGED <<phase, todo>>
       \/ phase' # "execute"
       \/ \E l : At(l) /\ Proceed /\ l \notin Supplying

LEMMA BareKeeps == ASSUME Plan, Supplied, Bare PROVE Supplied'
<1>1. charts' = charts /\ d' = d
  BY DEF Bare
<1>2. CASE UNCHANGED <<phase, todo>>
  <2>1. Ahead' = Ahead /\ phase' = phase
    BY <1>2 DEF Ahead, Left
  <2> QED
    BY <1>1, <2>1 DEF Supplied
<1>3. CASE phase' # "execute"
  <2>1. Ahead' = {}
    BY <1>3 DEF Ahead, Left
  <2> QED
    BY <1>1, <1>3, <2>1 DEF Supplied
<1>4. ASSUME NEW l, At(l), Proceed, l \notin Supplying PROVE Supplied'
  <2>1. phase' = "execute" /\ phase = "execute" /\ Ahead' = Ahead \ {l} /\ l # "pullCharts"
    BY <1>4, Advance DEF At, Supplying
  <2>2. ASSUME NEW k \in StepsOf(Execute(d)), k \notin Ahead', Key(k) PROVE Stocked(k, charts, d)
    <3>1. CASE k = l
      BY <1>4, <3>1, StockedOthers
    <3>2. CASE k # l
      BY <2>1, <2>2, <3>2 DEF Supplied
    <3> QED
      BY <3>1, <3>2
  <2> QED
    BY <1>1, <2>1, <2>2 DEF Supplied
<1> QED
  BY <1>1, <1>2, <1>3, <1>4 DEF Bare

LEMMA BareSteps ==
    ASSUME \/ UNCHANGED vars \/ PlainStep \/ GetKubeconfig \/ StartRefresher \/ Rollout
           \/ StopRefresher \/ ReturnNil \/ CleanUp \/ ExportFails \/ ExportAndCleanUp \/ Kill
           \/ CapxLocal \/ ApplyConfig \/ ApplyKeos \/ WaitCluster \/ CapxWork
           \/ ConfigCAPIWorker \/ EnableSelfHealing \/ Backup \/ CopyBackup
           \/ UninstallOperator \/ Move \/ PatchConfig \/ CopyConfig \/ DeleteConfig
           \/ CopyKeos \/ PatchKeos \/ DeleteKeos \/ RedeployOperator
           \/ FluxInstalls \/ \E c \in {"local", "work"} : Reconcile(c)
    PROVE  Bare
<1> USE DEF Supplying, ValuesSteps
<1>1. ASSUME NEW l, NEW new, ExecuteCommand(l, new), l \notin Supplying, UNCHANGED <<d, charts>>
      PROVE  Bare
  BY <1>1 DEF ExecuteCommand, GiveUp, Bare
<1>2. ASSUME NEW l, NEW b, WaitFor(l, b), l \notin Supplying, UNCHANGED <<d, charts>> PROVE Bare
  BY <1>2 DEF WaitFor, GiveUp, Bare
<1>3. CASE PlainStep
  <2>1. PICK l \in PlainSteps : WaitFor(l, TRUE)
    BY <1>3 DEF PlainStep
  <2> QED
    BY <1>2, <1>3, <2>1 DEF PlainStep, PlainSteps
<1>4. CASE GetKubeconfig \/ StartRefresher \/ StopRefresher \/ Backup \/ CopyBackup \/ Move
  BY <1>4 DEF GetKubeconfig, StartRefresher, StopRefresher, Backup, CopyBackup, Move, GiveUp, Bare
<1>5. CASE WaitCluster \/ Rollout
  BY <1>2, <1>5 DEF WaitCluster, Rollout
<1>6. CASE CapxLocal \/ ApplyConfig \/ ApplyKeos \/ CapxWork \/ ConfigCAPIWorker
  BY <1>1, <1>6 DEF CapxLocal, ApplyConfig, ApplyKeos, CapxWork, ConfigCAPIWorker
<1>7. CASE EnableSelfHealing \/ UninstallOperator \/ PatchConfig \/ CopyConfig \/ DeleteConfig
  BY <1>1, <1>7 DEF EnableSelfHealing, UninstallOperator, PatchConfig, CopyConfig, DeleteConfig
<1>8. CASE CopyKeos \/ PatchKeos \/ DeleteKeos \/ RedeployOperator
  BY <1>1, <1>8 DEF CopyKeos, PatchKeos, DeleteKeos, RedeployOperator
<1>9. CASE ReturnNil \/ CleanUp \/ ExportFails \/ ExportAndCleanUp \/ Kill
  BY <1>9 DEF ReturnNil, CleanUp, ExportFails, ExportAndCleanUp, Kill, Bare
<1>10. CASE FluxInstalls \/ (\E c \in {"local", "work"} : Reconcile(c)) \/ UNCHANGED vars
  BY <1>10 DEF FluxInstalls, Reconcile, vars, Bare
<1> QED
  BY <1>3, <1>4, <1>5, <1>6, <1>7, <1>8, <1>9, <1>10

LEMMA InitSupplied == Init => Supplied
<1> SUFFICES ASSUME Init PROVE Supplied
  OBVIOUS
<1>1. d \in Descriptor /\ phase = "execute" /\ todo = Execute(d) /\ charts = NoCharts(d)
  BY DescriptorsAssumption DEF Init
<1>2. Ahead = {l \in StepsOf(Execute(d)) : Key(l)}
  BY <1>1 DEF Ahead, Left
<1>3. "pullCharts" \in StepsOf(Execute(d))
  BY <1>1, ExecuteList, SetupList
<1>4. "pullCharts" \in Ahead
  BY <1>2, <1>3, Ranked DEF Key
<1> QED
  BY <1>1, <1>2, <1>4 DEF Supplied

LEMMA SuppliedStep == Typing /\ Plan /\ Supplied /\ [Next]_vars => Supplied'
<1> SUFFICES ASSUME Typing, Plan, Supplied, [Next]_vars PROVE Supplied'
  OBVIOUS
<1>0. d \in Descriptor
  BY DescriptorsAssumption DEF Typing, TypeOK
<1>1. CASE PullProviderCharts
  BY <1>1, PullStep
<1>2. CASE GetProviderCharts
  <2>1. At("chartsList") /\ Proceed /\ Charted(AfterLookup(charts, d)) /\ d' = d /\ Key("chartsList")
    BY <1>2, Ranked DEF GetProviderCharts, Charted, Proceed, At, Key
  <2>2. Sound(charts, d) => /\ Sound(AfterLookup(charts, d), d)
                            /\ Grows(charts, AfterLookup(charts, d))
    BY <1>0, LookupKeepsSound
  <2>3. \A ch, x : Stocked("chartsList", ch, x)
    BY StockedOthers DEF Supplying, ValuesSteps
  <2> QED
    BY <2>1, <2>2, <2>3, ChartStep
<1>3. ASSUME NEW l \in ValuesSteps, InstallChart(l), l # "flux" PROVE Supplied'
  <2> DEFINE new == AfterInstall(l, charts, d)
  <2>1. /\ At(l) /\ (Proceed \/ GiveUp) /\ Charted(new) /\ d' = d
        /\ Key(l) /\ l # "pullCharts"
    BY <1>3, Ranked DEF InstallChart, WaitFor, Key, ValuesSteps
  <2>2. Sound(charts, d) => Sound(new, d) /\ Grows(charts, new) /\ ToInstall(l, d) \subseteq new.values
    BY <1>0, InstallKeepsSound
  <2> HIDE DEF new
  <2>3. Sound(charts, d) => Stocked(l, new, d)
    BY <1>3, <2>2 DEF Stocked, ValuesSteps
  <2> QED
    BY <2>1, <2>2, <2>3, ChartStep
<1>4. CASE DeployCertManager \/ InstallCloudProvider \/ InstallCalico
  BY <1>3, <1>4 DEF DeployCertManager, InstallCloudProvider, InstallCalico, ValuesSteps
<1>5. CASE ConfigureFlux
  <2> DEFINE new == AfterFlux(charts, d)
  <2>1. At("flux") /\ (Proceed \/ GiveUp) /\ Charted(new) /\ d' = d /\ Key("flux")
    BY <1>5, Ranked DEF ConfigureFlux, WaitFor, Key
  <2>2. Sound(charts, d) => Sound(new, d) /\ Grows(charts, new) /\ Stocked("flux", new, d)
    BY <1>0, FluxKeepsSound
  <2> HIDE DEF new
  <2> QED
    BY <2>1, <2>2, ChartStep
<1>6. ASSUME NEW l \in {"reconcileCharts", "csi", "autoscaler", "lbController"},
             ConfigureHelmRelease(l)
      PROVE  Supplied'
  <2> DEFINE new == IF Equipped(l) THEN AfterRelease(l, charts, d) ELSE charts
  <2>1. /\ At(l) /\ (Proceed \/ GiveUp) /\ Charted(new) /\ d' = d
        /\ Key(l) /\ l # "pullCharts"
    BY <1>6, Ranked DEF ConfigureHelmRelease, WaitFor, Key
  <2>2. Sound(charts, d) => Sound(new, d) /\ Grows(charts, new)
    <3>1. CASE Equipped(l)
      BY <1>0, <3>1, ReleaseKeepsSound DEF Equipped
    <3>2. CASE ~Equipped(l)
      BY <3>2 DEF Grows
    <3> QED
      BY <3>1, <3>2
  <2> HIDE DEF new
  <2>3. Stocked(l, new, d)
    BY StockedOthers DEF Supplying, ValuesSteps
  <2> QED
    BY <2>1, <2>2, <2>3, ChartStep
<1>7. CASE ReconcileCharts \/ InstallCSI \/ DeployClusterAutoscaler \/ InstallLBController
  BY <1>6, <1>7 DEF ReconcileCharts, InstallCSI, DeployClusterAutoscaler, InstallLBController
<1>8. CASE OperatorLocal
  <2>1. PICK v \in OperatorVersions(charts) : Charted(OperatorPulled(charts, v))
    BY <1>8 DEF OperatorLocal
  <2> DEFINE new == OperatorPulled(charts, v)
  <2>2. At("operatorLocal") /\ (Proceed \/ GiveUp) /\ d' = d /\ Key("operatorLocal")
    BY <1>8, Ranked DEF OperatorLocal, ExecuteCommand, Key
  <2>3. Sound(charts, d) => /\ Sound(new, d) /\ Grows(charts, new)
                            /\ "cluster-operator" \in DOMAIN new.pulled
    BY <1>0, OperatorKeepsSound
  <2> HIDE DEF new
  <2>4. Sound(charts, d) => Stocked("operatorLocal", new, d)
    BY <2>3 DEF Stocked, ValuesSteps
  <2>5. Charted(new)
    BY <2>1 DEF new
  <2> QED
    BY <2>2, <2>3, <2>4, <2>5, ChartStep
<1>9. CASE OperatorWork
  <2>1. /\ At("operatorWork") /\ (Proceed \/ GiveUp) /\ d' = d /\ Key("operatorWork")
    BY <1>9, Ranked DEF OperatorWork, ExecuteCommand, WaitFor, Key
  <2>2. \A ch, x : Stocked("operatorWork", ch, x)
    BY StockedOthers DEF Supplying, ValuesSteps
  <2>3. ASSUME NEW v \in OperatorVersions(charts), Charted(OperatorReleased(charts, v))
        PROVE  Supplied'
    <3> DEFINE new == OperatorReleased(charts, v)
    <3>1. Sound(charts, d) => Sound(new, d) /\ Grows(charts, new)
      BY <1>0, OperatorKeepsSound
    <3>2. Charted(new)
      BY <2>3
    <3> HIDE DEF new
    <3> QED
      BY <2>1, <2>2, <3>1, <3>2, ChartStep
  <2>4. CASE charts' = charts
    <3>1. Bare
      BY <2>1, <2>4 DEF Bare, GiveUp, Supplying, ValuesSteps
    <3> QED
      BY <3>1, BareKeeps
  <2> QED
    BY <1>9, <2>3, <2>4 DEF OperatorWork
<1>10. CASE \/ UNCHANGED vars \/ PlainStep \/ GetKubeconfig \/ StartRefresher \/ Rollout
            \/ StopRefresher \/ ReturnNil \/ CleanUp \/ ExportFails \/ ExportAndCleanUp \/ Kill
            \/ CapxLocal \/ ApplyConfig \/ ApplyKeos \/ WaitCluster \/ CapxWork
            \/ ConfigCAPIWorker \/ EnableSelfHealing \/ Backup \/ CopyBackup
            \/ UninstallOperator \/ Move \/ PatchConfig \/ CopyConfig \/ DeleteConfig
            \/ CopyKeos \/ PatchKeos \/ DeleteKeos \/ RedeployOperator
            \/ FluxInstalls \/ \E c \in {"local", "work"} : Reconcile(c)
  BY <1>10, BareSteps, BareKeeps
<1> QED
  BY <1>1, <1>2, <1>4, <1>5, <1>7, <1>8, <1>9, <1>10 DEF Next, Main

LEMMA SuppliedHolds == Spec => [](Typing /\ Plan /\ Supplied)
  BY InitTyping, TypingStep, InitPlan, PlanStep, InitSupplied, SuppliedStep, PTL DEF Spec

(***************************************************************************)
(* For every descriptor, what Flux releases is what was asked for and what *)
(* was pulled before: the user's version, and of the charts that were      *)
(* installed first, the operator among them, the same version from the     *)
(* same repository, whichever commands failed on the way.                  *)
(***************************************************************************)
THEOREM ReleasesAgree == Spec => []ReleasedAsAsked
<1>1. Typing /\ Supplied => ReleasedAsAsked
  <2> SUFFICES ASSUME Typing, Supplied, NEW c \in DOMAIN charts.releases
               PROVE  /\ c \in d.overrides => charts.releases[c].version = "asked"
                      /\ c \in DOMAIN charts.pulled =>
                            /\ charts.releases[c].version = charts.pulled[c].version
                            /\ SourceOf(charts.releases[c].ref, charts) = charts.pulled[c].repository
    BY DEF ReleasedAsAsked
  <2> DEFINE F == FinalDict(d)
  <2>0. d \in Descriptor
    BY DescriptorsAssumption DEF Typing, TypeOK
  <2>1. Sound(charts, d)
    BY NoChartsIs DEF Supplied
  <2>2. /\ "keos" \notin DOMAIN F /\ "cluster-operator" \notin DOMAIN F
        /\ ToPull(F) \subseteq DOMAIN F
        /\ "cluster-operator" \notin d.overrides
    BY <2>0, DictionaryIs, FinalDictIs DEF ChartNames, ToPull, Descriptor
  <2>3. charts.dict = F
    BY <2>1 DEF Sound
  <2>4. CASE c \in DOMAIN F
    <3>1. charts.releases[c] = [version |-> F[c].version, ref |-> RepoRef(c, d)]
      BY <2>1, <2>2, <2>4 DEF Sound
    <3>2. /\ F[c].version = IF c \in d.overrides THEN "asked" ELSE "listed"
          /\ F[c].repository = IF d.helmPrivate THEN "helm" ELSE "own"
      BY <2>0, <2>4, FinalDictIs
    <3>3. ASSUME c \in DOMAIN charts.pulled
          PROVE  charts.pulled[c] = [version |-> F[c].version, repository |-> F[c].repository]
      BY <2>1, <2>2, <2>4, <3>3 DEF Sound
    <3>4. SourceOf(RepoRef(c, d), charts) = F[c].repository
      BY <2>2, <2>3, <2>4, <3>2 DEF SourceOf, RepoRef
    <3> HIDE DEF F
    <3> QED
      BY <3>1, <3>2, <3>3, <3>4
  <2>5. CASE c \notin DOMAIN F
    <3>1. /\ c = "cluster-operator"
          /\ charts.releases[c] = [version |-> charts.operator, ref |-> "keos"]
      BY <2>1, <2>5 DEF Sound
    <3>2. ASSUME c \in DOMAIN charts.pulled
          PROVE  charts.pulled[c] = [version |-> charts.operator, repository |-> "helm"]
      BY <2>1, <2>2, <3>1, <3>2 DEF Sound
    <3>3. SourceOf("keos", charts) = "helm"
      BY DEF SourceOf
    <3> QED
      BY <2>2, <3>1, <3>2, <3>3
  <2> QED
    BY <2>4, <2>5
<1> QED
  BY <1>1, SuppliedHolds, PTL

(* The steps that need charts, with the steps that provide them.           *)
LEMMA Providers ==
    ASSUME NEW x \in Descriptor
    PROVE  LET E == StepsOf(Execute(x))
           IN  /\ {"operatorLocal", "certManagerLocal", "pullCharts"} \subseteq E
               /\ "cloudProvider" \in E => ~x.managed
               /\ "calico" \in E => ~x.managed \/ x.infra = "aws"
               /\ "csi" \in E => ~x.managed
               /\ "autoscaler" \in E => ~x.managed \/ x.infra = "aws"
               /\ "lbController" \in E => EKS(x)
               /\ {"reconcileCharts", "operatorWork", "autoscaler", "lbController"} \cap E # {}
                     => "flux" \in E
               /\ "csi" \in E /\ ~x.gitops => "flux" \in E
               /\ "reconcileCharts" \in E /\ ~x.managed => "cloudProvider" \in E /\ "calico" \in E
               /\ "reconcileCharts" \in E /\ x.infra = "aws" => "calico" \in E
  BY ExecuteList, WorkloadList, SetupList, CreationList, NodeList, CapxList, FluxList,
     FixedLists, OperatorList, PivotList

(* A step that comes earlier in Execute is done, and has left what it      *)
(* provides.                                                               *)
LEMMA Earlier ==
    ASSUME Plan, Supplied, NEW l, At(l), NEW k \in StepsOf(Execute(d)), Key(k), Rank(k) < Rank(l)
    PROVE  Stocked(k, charts, d)
<1>1. Key(l)
  BY RankType DEF Key
<1>2. k \notin Ahead
  BY <1>1, AtHead, RankType
<1> QED
  BY <1>2 DEF Supplied, At

(***************************************************************************)
(* For every descriptor of a documented flavour, every step finds what it  *)
(* needs: the chart that it installs was pulled, and the chart that it has *)
(* Flux release has an entry, a repository and a values file.              *)
(***************************************************************************)
THEOREM StepsFindCharts == Spec => []ChartsFound
<1>1. Typing /\ Plan /\ Supplied => ChartsFound
  <2> SUFFICES ASSUME Typing, Plan, Supplied, Documented, d.k8s \in TemplateVersions,
                      d.gitops => d.managed, NEW l \in StatefulSteps, At(l)
               PROVE  Installable(l, charts, d)
    BY DEF ChartsFound, Equipped
  <2> DEFINE E == StepsOf(Execute(d))
             F == FinalDict(d)
  <2>0. d \in Descriptor /\ d.infra \in {"aws", "azure", "gcp"} /\ d.managed \in BOOLEAN
    BY DescriptorsAssumption DEF Typing, TypeOK, Descriptor, Infra
  <2>1. Key(l) => l \in E
    BY AtHead DEF Plan
  <2>2. ~d.managed => AzureVMs(d)
    BY <2>0 DEF Documented, AzureVMs
  <2>3. /\ {"operatorLocal", "certManagerLocal", "pullCharts"} \subseteq E
        /\ "cloudProvider" \in E => ~d.managed
        /\ "calico" \in E => ~d.managed \/ d.infra = "aws"
        /\ "csi" \in E => ~d.managed
        /\ "autoscaler" \in E => ~d.managed \/ d.infra = "aws"
        /\ "lbController" \in E => EKS(d)
        /\ {"reconcileCharts", "operatorWork", "autoscaler", "lbController"} \cap E # {}
              => "flux" \in E
        /\ "csi" \in E /\ ~d.gitops => "flux" \in E
        /\ "reconcileCharts" \in E /\ ~d.managed => "cloudProvider" \in E /\ "calico" \in E
        /\ "reconcileCharts" \in E /\ d.infra = "aws" => "calico" \in E
    BY <2>0, Providers
  <2> HIDE DEF E
  <2>4. ASSUME NEW k \in E, Key(k), Rank(k) < Rank(l) PROVE Stocked(k, charts, d)
    BY <2>4, Earlier DEF E
  <2>5. Key(l) /\ l # "pullCharts" =>
           /\ charts.dict = F /\ ToPull(F) \subseteq DOMAIN charts.pulled
    BY PulledBefore DEF Sound
  <2>6. /\ DOMAIN F = DOMAIN Dictionary(d)
        /\ Installed(d) \subseteq DOMAIN F
        /\ \A c \in Installed(d) : c \in ToPull(F)
        /\ \A c \in DOMAIN F : F[c].reconcile => c \in Installed(d)
    BY <2>0, DictionaryIs, FinalDictIs DEF ToPull
  <2>7. /\ {"cert-manager", "flux2"} \subseteq Installed(d)
        /\ EKS(d) \/ AzureVMs(d) => "tigera-operator" \in Installed(d)
        /\ AzureVMs(d) => "cloud-provider-azure" \in Installed(d)
    BY DEF Installed
  <2>8. /\ EKS(d) => {"aws-load-balancer-controller", "cluster-autoscaler"} \subseteq DOMAIN F
        /\ AzureVMs(d) => {"azuredisk-csi-driver", "azurefile-csi-driver", "cluster-autoscaler"}
                             \subseteq DOMAIN F
    BY <2>0, <2>6, DictionaryIs
  <2>9. \A c \in DOMAIN F : Stocked("flux", charts, d) => RepoRef(c, d) \in charts.repos
    BY DEF Stocked, RepoRef
  <2> HIDE DEF F
  <2>10. ToInstall(l, d) \subseteq DOMAIN charts.pulled
    <3>1. CASE l \in {"certManagerLocal", "certManagerWork", "flux"}
      <4>1. Key(l) /\ l # "pullCharts" /\ ToInstall(l, d) \subseteq {"cert-manager", "flux2"}
        BY <3>1, Ranked DEF Key, ToInstall
      <4> QED
        BY <2>5, <2>6, <2>7, <4>1
    <3>2. CASE l = "cloudProvider"
      <4>1. Key(l) /\ l # "pullCharts" /\ ToInstall(l, d) \subseteq {"cloud-provider-azure"}
        BY <3>2, Ranked DEF Key, ToInstall, CloudProviderCharts
      <4> QED
        BY <2>1, <2>2, <2>3, <2>5, <2>6, <2>7, <3>2, <4>1
    <3>3. CASE l = "calico"
      <4>1. Key(l) /\ l # "pullCharts" /\ ToInstall(l, d) = {"tigera-operator"}
        BY <3>3, Ranked DEF Key, ToInstall
      <4>2. EKS(d) \/ AzureVMs(d)
        BY <2>0, <2>1, <2>2, <2>3, <3>3, <4>1 DEF EKS
      <4> QED
        BY <2>5, <2>6, <2>7, <4>1, <4>2
    <3>4. CASE l = "redeployOperator"
      <4>1. Key("operatorLocal") /\ Rank("operatorLocal") < Rank(l)
        BY <3>4, Ranked DEF Key
      <4>2. Stocked("operatorLocal", charts, d)
        BY <2>3, <2>4, <4>1
      <4>3. ToInstall(l, d) = {"cluster-operator"}
        BY <3>4 DEF ToInstall
      <4> QED
        BY <4>2, <4>3 DEF Stocked
    <3>5. CASE l \notin {"certManagerLocal", "certManagerWork", "flux", "cloudProvider",
                         "calico", "redeployOperator"}
      BY <3>5 DEF ToInstall
    <3> QED
      BY <3>1, <3>2, <3>3, <3>4, <3>5
  <2>11. l \in {"reconcileCharts", "csi", "autoscaler", "operatorWork", "lbController"}
            => Stocked("flux", charts, d) /\ charts.dict = F
    <3> SUFFICES ASSUME l \in {"reconcileCharts", "csi", "autoscaler", "operatorWork", "lbController"}
                 PROVE  Stocked("flux", charts, d) /\ charts.dict = F
      OBVIOUS
    <3>1. Key(l) /\ l # "pullCharts" /\ Key("flux") /\ Rank("flux") < Rank(l)
      BY Ranked DEF Key
    <3>2. "flux" \in E
      BY <2>1, <2>3, <3>1
    <3> QED
      BY <2>4, <2>5, <3>1, <3>2
  <2>12. \A c \in ToRelease(l, charts, d) : c \in DOMAIN charts.dict /\ RepoRef(c, d) \in charts.repos
    <3>1. CASE l = "reconcileCharts"
      <4>1. ToRelease(l, charts, d) \subseteq DOMAIN charts.dict
        BY <3>1 DEF ToRelease, ToReconcile
      <4> QED
        BY <2>9, <2>11, <3>1, <4>1
    <3>2. CASE l = "csi"
      <4>1. Key(l) /\ ToRelease(l, charts, d) \subseteq {"azuredisk-csi-driver", "azurefile-csi-driver"}
        BY <3>2, Ranked DEF Key, ToRelease, CsiDrivers
      <4>2. AzureVMs(d)
        BY <2>1, <2>2, <2>3, <3>2, <4>1
      <4> QED
        BY <2>8, <2>9, <2>11, <3>2, <4>1, <4>2
    <3>3. CASE l = "autoscaler"
      <4>1. Key(l) /\ ToRelease(l, charts, d) = {"cluster-autoscaler"}
        BY <3>3, Ranked DEF Key, ToRelease
      <4>2. EKS(d) \/ AzureVMs(d)
        BY <2>0, <2>1, <2>2, <2>3, <3>3, <4>1 DEF EKS
      <4> QED
        BY <2>8, <2>9, <2>11, <3>3, <4>1, <4>2
    <3>4. CASE l = "lbController"
      <4>1. Key(l) /\ ToRelease(l, charts, d) = {"aws-load-balancer-controller"}
        BY <3>4, Ranked DEF Key, ToRelease
      <4>2. EKS(d)
        BY <2>1, <2>3, <3>4, <4>1
      <4> QED
        BY <2>8, <2>9, <2>11, <3>4, <4>1, <4>2
    <3>5. CASE l \notin {"reconcileCharts", "csi", "autoscaler", "lbController"}
      BY <3>5 DEF ToRelease
    <3> QED
      BY <3>1, <3>2, <3>3, <3>4, <3>5
  <2>13. l = "reconcileCharts" => ToReconcile(charts) \subseteq charts.values
    <3> SUFFICES ASSUME l = "reconcileCharts", NEW c \in ToReconcile(charts) PROVE c \in charts.values
      OBVIOUS
    <3>1. c \in Installed(d)
      BY <2>6, <2>11 DEF ToReconcile
    <3>2. /\ Key("certManagerLocal") /\ Rank("certManagerLocal") < Rank(l)
          /\ Key("cloudProvider") /\ Rank("cloudProvider") < Rank(l)
          /\ Key("calico") /\ Rank("calico") < Rank(l) /\ Key(l)
      BY Ranked DEF Key
    <3>3. /\ "cert-manager" \in charts.values /\ "flux2" \in charts.values
      <4>1. Stocked("certManagerLocal", charts, d) /\ Stocked("flux", charts, d)
        BY <2>3, <2>4, <2>11, <3>2
      <4> QED
        BY <4>1 DEF Stocked, ValuesSteps, ToInstall
    <3>4. EKS(d) \/ AzureVMs(d) => "tigera-operator" \in charts.values
      <4> SUFFICES ASSUME EKS(d) \/ AzureVMs(d) PROVE "tigera-operator" \in charts.values
        OBVIOUS
      <4>1. "calico" \in E
        BY <2>1, <2>3, <3>2 DEF EKS, AzureVMs
      <4>2. Stocked("calico", charts, d)
        BY <2>4, <3>2, <4>1
      <4> QED
        BY <4>2 DEF Stocked, ValuesSteps, ToInstall
    <3>5. AzureVMs(d) => "cloud-provider-azure" \in charts.values
      <4> SUFFICES ASSUME AzureVMs(d) PROVE "cloud-provider-azure" \in charts.values
        OBVIOUS
      <4>1. "cloudProvider" \in E
        BY <2>1, <2>3, <3>2 DEF AzureVMs
      <4>2. Stocked("cloudProvider", charts, d)
        BY <2>4, <3>2, <4>1
      <4>3. ToInstall("cloudProvider", d) = {"cloud-provider-azure"}
        BY DEF ToInstall, CloudProviderCharts, AzureVMs
      <4> QED
        BY <4>2, <4>3 DEF Stocked, ValuesSteps
    <3> QED
      BY <3>1, <3>3, <3>4, <3>5 DEF Installed
  <2>14. l = "operatorWork" => "keos" \in charts.repos
    BY <2>11 DEF Stocked
  <2> QED
    BY <2>10, <2>12, <2>13, <2>14 DEF Installable
<1> QED
  BY <1>1, SuppliedHolds, PTL

=============================================================================
