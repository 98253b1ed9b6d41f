----------------------------- MODULE Descriptor -----------------------------
(***************************************************************************)
(* The cluster descriptor: what commons.GetClusterDescriptor makes of the  *)
(* file and what package validate accepts of it (validateCommon,           *)
(* validateAWS, validateAzure, validateGCP).                               *)
(*                                                                         *)
(* A field that is only matched with a pattern or looked up in a list is   *)
(* "", "ok" or "bad"; Unset is a nil pointer.  What the cloud answers is   *)
(* the record c: the calls that fail and the names that exist.             *)
(***************************************************************************)
EXTENDS Integers, Sequences, SequencesExt, FiniteSets

Unset == -1

(* The sections of a spec.                                                 *)
Sections ==
    {"infra", "managed", "k8s", "region", "workers", "cp", "networks", "sc", "registries", "helm",
     "policy", "createIAM", "roleARN", "cpIdentity", "nodesIdentity", "gcp", "identity", "project",
     "secureBoot", "config"}

(* A pattern or a list of names: an optional and a required field.         *)
Fits(v) == v # "bad"

Given(v) == v = "ok"

(* validateVolumeType.                                                     *)
ValidateVolumeType(v) == Fits(v.type)

NoVolume == [enabled |-> "", type |-> "", size |-> 0]

(* No two elements of a sequence agree on a field.                         *)
Distinct(s, f(_)) == \A i, j \in DOMAIN s : f(s[i]) = f(s[j]) => i = j

-----------------------------------------------------------------------------
(* KeosSpec.Init and ClusterConfigSpec.Init come first and the manifest is *)
(* decoded over them: a section left out keeps its default, an explicit    *)
(* null in the file makes the pointer nil.  Init is called on an empty     *)
(* KeosSpec, so that its case for gcp never applies.                       *)
DecodeOverDefaults(written, default) == IF written = "absent" THEN default ELSE written

GCPInit(g) ==
    [g EXCEPT !.endpoint   = DecodeOverDefaults(@, "true"),
              !.public     = DecodeOverDefaults(@, "false"),
              !.monitoring = DecodeOverDefaults(@, "false"),
              !.logging    = DecodeOverDefaults(@, "false"),
              !.channel    = DecodeOverDefaults(@, "extended")]

HelmInit(helm) == [helm EXCEPT !.type = DecodeOverDefaults(@, "generic")]

KeosSpecInit(m) ==
    [m EXCEPT !.secureBoot = DecodeOverDefaults(@, "unset"),
              !.gcp        = GCPInit(@),
              !.helm       = HelmInit(@)]

(* Without a workload pool the project of the descriptor's credentials     *)
(* names it.                                                               *)
DefaultWorkloadPool(m) ==
    IF m.identity.enabled /\ m.identity.pool = "" /\ m.project # ""
    THEN [m EXCEPT !.identity.pool = m.project] ELSE m

(* The service accounts must be there, well formed and of the project of   *)
(* the pool.                                                               *)
GcpServiceAccountsValidator(id) ==
    \A sa \in id.accounts : Fits(sa) /\ (id.pool # "" => sa = id.pool)

WorkloadIdentityTags(id) ==
    id.enabled =>
        /\ id.pool # "bad"
        /\ id.accounts # {}
        /\ GcpServiceAccountsValidator(id)

(* The tags of the validator package.                                      *)
WorkerTags(w) ==
    /\ w.qty >= 0
    /\ w.size # ""
    /\ w.dist \in {"", "balanced", "unbalanced"}

ValidateStruct(m) ==
    /\ m.infra \in {"aws", "azure", "gcp"}
    /\ m.registries # <<>>
    /\ \A i \in DOMAIN m.registries : m.registries[i].type \in {"acr", "ecr", "gar", "gcr", "generic"}
    /\ ~m.managed => m.cp.size # ""
    /\ \A i \in DOMAIN m.workers : WorkerTags(m.workers[i])
    /\ WorkloadIdentityTags(m.identity)

(* CleanKeosClusterBeforeInstall.                                          *)
Clean(m) == [m EXCEPT !.identity.accounts = {}]

(* The ClusterConfig, or the one made up when the file has none.           *)
NoConfig == [kind |-> "absent"]

ClusterConfigOf(m) ==
    IF m.config # NoConfig THEN m.config
    ELSE [maxUnhealthy |-> IF m.managed THEN Unset ELSE 34, charts |-> <<>>, private |-> TRUE]

Rejected == [infra |-> "rejected"]

GetClusterDescriptor(file) ==
    LET m == DefaultWorkloadPool(KeosSpecInit(file))
    IN  IF ValidateStruct(m) THEN Clean([m EXCEPT !.config = ClusterConfigOf(m)]) ELSE Rejected

-----------------------------------------------------------------------------
(* validateCommon.                                                         *)
ValidateK8SVersion(s) == s.k8s = "supported"

IsBalanced(w) == w.dist = "balanced" \/ (w.dist = "" /\ w.az = "")

ValidateWorkersName(ws) ==
    LET name(w) == w.name
    IN  Distinct(ws, name) /\ \A i \in DOMAIN ws : ws[i].form # "invalid"

QuantityFits(w, only) ==
    /\ w.max # 0 => w.qty <= w.max
    /\ w.min # Unset => w.min <= w.qty
    /\ w.az = "" \/ w.dist = ""
    /\ IsBalanced(w) => w.qty % 3 = 0
    /\ only => w.qty > 0

ValidateWorkersQuantity(ws) ==
    /\ \A i \in DOMAIN ws : QuantityFits(ws[i], Len(ws) = 1)
    /\ \E i \in DOMAIN ws : ws[i].qty > 0

ValidateWorkersTaints(ws) == \A i \in DOMAIN ws : Fits(ws[i].taints)

ValidateWorkersType(ws) == \E i \in DOMAIN ws : ws[i].taints = "" /\ ~ws[i].spot

ValidateWorkers(ws) ==
    /\ ValidateWorkersName(ws)
    /\ ValidateWorkersQuantity(ws)
    /\ ValidateWorkersTaints(ws)
    /\ ValidateWorkersType(ws)

ExtraVolumes(evs) ==
    LET label(ev) == ev.label
        mount(ev) == ev.mount
    IN  /\ \A i \in DOMAIN evs : evs[i].mount # "" /\ evs[i].label # "" /\ evs[i].size # 0
        /\ Distinct(evs, label) /\ Distinct(evs, mount)

ValidateVolumes(s) ==
    /\ s.managed => s.cp.cri = NoVolume /\ s.cp.etcd = NoVolume
    /\ ~s.managed => ExtraVolumes(s.cp.extra)
    /\ \A i \in DOMAIN s.workers :
          /\ s.managed /\ s.infra # "aws" => s.workers[i].cri = NoVolume
          /\ ExtraVolumes(s.workers[i].extra)

ValidateClusterConfig(s) ==
    LET name(chart) == chart
    IN  /\ s.managed => s.config.maxUnhealthy = Unset
        /\ Distinct(s.config.charts, name)

ValidateCommon(s) ==
    /\ ValidateK8SVersion(s)
    /\ ValidateWorkers(s.workers)
    /\ ValidateVolumes(s)
    /\ ValidateClusterConfig(s)

-----------------------------------------------------------------------------
(* What the three clouds have in common.                                   *)
Answers(c, call) == call \notin c.fails

(* A list that could not be fetched is an empty one and checks nothing.    *)
ListedOrUnknown(c, call, set, x) == Answers(c, call) /\ set # {} => x \in set

ValidateRegion(s, c) == Answers(c, "regions") /\ s.region \in c.regions

(* No zone is checked when the list of zones is empty.                     *)
ValidateZone(w, azs) == w.az # "" /\ azs # {} => w.az \in azs

InstanceTypeExists(size, c) == Answers(c, "types") /\ size \in c.types

ZonesAndSizes(s, azs, c) ==
    \A i \in DOMAIN s.workers :
        ValidateZone(s.workers[i], azs) /\ InstanceTypeExists(s.workers[i].size, c)

(* The part of the three storage class checks that is the same: known      *)
(* fields only, a class or a key only without parameters.                  *)
Has(sc, f) == f \in DOMAIN sc.params

FieldFits(sc, f) == Has(sc, f) => sc.params[f] # "bad"

StorageClassShape(sc, fields) ==
    /\ DOMAIN sc.params \subseteq fields
    /\ sc.class # "" \/ sc.key # "" => DOMAIN sc.params = {}
    /\ Fits(sc.key)
    /\ FieldFits(sc, "fsType") /\ FieldFits(sc, "type") /\ FieldFits(sc, "labels")

-----------------------------------------------------------------------------
(* validateAWS.  The session is one of the region of the credentials, and  *)
(* c is what the cloud answers there.                                      *)
AWSGetConfig(cred, c) ==
    /\ "Region" \notin cred.missing /\ cred.region # ""
    /\ "RoleARN" \notin cred.missing => Answers(c, "role")

(* Of the zones of that region, those of the region of the spec: all of    *)
(* them or none.                                                           *)
GetAWSAzs(cred, region, c) == IF cred.region = region THEN c.azs ELSE {}

ValidateAWSSecurity(s) ==
    s.policy # "" => Fits(s.policy) /\ s.createIAM

(* Sizes of address blocks are numbers of bits of the mask.                *)
ValidateAWSPodsNetwork(block) == block.ok /\ block.bits \in 16..28 /\ block.range = "carrier"

NoBlock == [ok |-> FALSE, bits |-> 0, range |-> ""]

ValidateAWSAZs(s, c) ==
    /\ Cardinality(c.privateAZs) >= 3
    /\ \A i \in DOMAIN s.workers :
          s.workers[i].dist = "unbalanced" /\ s.workers[i].az # "" => s.workers[i].az \in c.privateAZs

ValidateAWSNetwork(s, c) ==
    LET n == s.networks
        ids == {n.subnets[i].id : i \in DOMAIN n.subnets}
    IN  /\ IF n.vpc # ""
           THEN /\ n.vpcCidr = NoBlock
                /\ ListedOrUnknown(c, "vpcs", c.vpcs, n.vpc)
                /\ n.subnets # <<>> /\ "" \notin ids
                /\ ValidateAWSAZs(s, c)
                /\ \A id \in ids : ListedOrUnknown(c, "subnets", c.subnets, id)
                /\ n.podsSubnets => n.podsCidr = NoBlock
           ELSE ~n.podsSubnets
        /\ n.vpcCidr # NoBlock => n.vpcCidr.ok /\ n.vpcCidr.bits <= 24 /\ n.subnets = <<>>
        /\ n.podsCidr # NoBlock /\ s.managed => ValidateAWSPodsNetwork(n.podsCidr)

IopsFit(sc) ==
    LET iops == IF Has(sc, "iopsPerGB") THEN sc.params["iopsPerGB"] ELSE sc.params["iops"]
    IN  (Has(sc, "iops") \/ Has(sc, "iopsPerGB")) =>
            /\ iops # Unset
            /\ Has(sc, "type") => sc.params["type"] \in {"io1", "io2", "gp3"}
            /\ Has(sc, "type") /\ sc.params["type"] = "gp3" => iops \in 3000..16000
            /\ Has(sc, "type") /\ sc.params["type"] \in {"io1", "io2"} => iops \in 16000..64000

ValidateAWSStorageClass(sc) ==
    /\ StorageClassShape(sc, {"type", "fsType", "labels", "allowAutoIOPSPerGBIncrease", "blockExpress",
                              "blockSize", "iops", "iopsPerGB", "encrypted", "kmsKeyId", "throughput"})
    /\ Has(sc, "kmsKeyId") => /\ FieldFits(sc, "kmsKeyId")
                              /\ Has(sc, "encrypted") /\ sc.params["encrypted"] = "true"
    /\ IopsFit(sc)

(* Switched off, a volume says nothing else; not mentioned, nothing of it  *)
(* is looked at.                                                           *)
AWSCustomVolume(v) ==
    CASE v.enabled = "false" -> v = [NoVolume EXCEPT !.enabled = "false"]
      [] v.enabled = "true"  -> ValidateVolumeType(v) /\ v.size >= 8
      [] OTHER -> TRUE

AWSExtraVolume(ev) == Given(ev.device) /\ Fits(ev.type) /\ ev.size >= 8

(* The devices of a worker group are compared with those of the control    *)
(* plane.                                                                  *)
AWSDevices(evs, others) ==
    /\ \A i \in DOMAIN evs : AWSExtraVolume(evs[i])
    /\ \A i \in DOMAIN evs, j \in DOMAIN others : i # j => evs[i].slot # others[j].slot

AWSWorker(s, w) ==
    /\ Fits(w.image)
    /\ w.ami # "" => w.image = "" /\ s.managed
    /\ Fits(w.root) /\ AWSCustomVolume(w.cri)
    /\ AWSDevices(w.extra, s.cp.extra)

ValidateAWS(s, cred, c) ==
    /\ Fits(s.roleARN)
    /\ ValidateAWSSecurity(s)
    /\ AWSGetConfig(cred, c)
    /\ ValidateRegion(s, c) /\ Answers(c, "azs")
    /\ ValidateAWSStorageClass(s.sc)
    /\ ValidateAWSNetwork(s, c)
    /\ \A i \in DOMAIN s.registries : s.registries[i].type \in {"ecr", "generic"}
    /\ Fits(s.cp.tags)
    /\ ~s.managed => /\ Fits(s.cp.image) /\ InstanceTypeExists(s.cp.size, c)
                     /\ Fits(s.cp.root)
                     /\ AWSCustomVolume(s.cp.cri) /\ AWSCustomVolume(s.cp.etcd)
                     /\ AWSDevices(s.cp.extra, s.cp.extra)
    /\ \A i \in DOMAIN s.workers : AWSWorker(s, s.workers[i])
    /\ ZonesAndSizes(s, GetAWSAzs(cred, s.region, c), c)

-----------------------------------------------------------------------------
(* validateAzure.                                                          *)
HasAzurePremiumStorage(w) == w.premium

IsPremium(type) == type \in {"Premium_LRS", "Premium_ZRS", "PremiumV2_LRS", "UltraSSD_LRS"}

AzureFields ==
    {"fsType", "kind", "cachingMode", "diskAccessID", "diskEncryptionSetID", "diskEncryptionType",
     "enableBursting", "enablePerformancePlus", "networkAccessPolicy", "provisioner",
     "publicNetworkAccess", "resourceGroup", "skuName", "subscriptionID", "tags"}

ValidateAzureStorageClass(sc, ws) ==
    LET sku == IF Has(sc, "skuName") THEN sc.params["skuName"] ELSE ""
    IN  /\ StorageClassShape(sc, AzureFields)
        /\ Fits(sku) /\ FieldFits(sc, "diskEncryptionSetID") /\ FieldFits(sc, "tags")
        /\ sc.class = "premium" \/ IsPremium(sku) =>
              \E i \in DOMAIN ws : HasAzurePremiumStorage(ws[i])
        /\ ~(Has(sc, "cachingMode") /\ sc.params["cachingMode"] = "ReadOnly" /\ sku = "PremiumV2_LRS")

ValidateAzureNetwork(s, c) ==
    LET n == s.networks
    IN  /\ IF n.vpc # ""
           THEN /\ Answers(c, "vpcs") /\ ListedOrUnknown(c, "vpcs", c.vpcs, n.vpc)
                /\ n.subnets # <<>>
                /\ s.managed => n.vpcCidr # NoBlock
           ELSE n.subnets = <<>> /\ n.vpcCidr = NoBlock
        /\ s.managed /\ n.vpcCidr # NoBlock => n.vpcCidr.ok /\ n.vpcCidr.bits <= 24
        /\ n.subnets # <<>> => Answers(c, "subnets")
        /\ \A i \in DOMAIN n.subnets :
              LET sn == n.subnets[i]
              IN  /\ sn.id # "" /\ ListedOrUnknown(c, "subnets", c.subnets, sn.id)
                  /\ IF s.managed THEN sn.cidr # "" /\ sn.role = "" ELSE sn.role # "" /\ sn.cidr = ""

IsSystemPool(w) == w.taints = "" /\ ~w.spot /\ w.min # 0

ValidateAKSNodes(ws) ==
    /\ \A i \in DOMAIN ws :
          /\ IsSystemPool(ws[i]) /\ ws[i].min # Unset =>
                ws[i].min >= (IF IsBalanced(ws[i]) THEN 3 ELSE 1)
          /\ ws[i].form = "short"
          /\ Fits(ws[i].aksRoot)
          /\ ws[i].extra = <<>>
    /\ \E i \in DOMAIN ws : IsSystemPool(ws[i])

AzureRegistries(s) ==
    \A i \in DOMAIN s.registries :
        /\ s.registries[i].type = s.registries[1].type
        /\ s.registries[i].type = "acr" \/ (s.registries[i].type = "generic" /\ ~s.managed)

AzureExtraVolumes(evs) ==
    LET name(ev) == ev.name
    IN  Distinct(evs, name) /\ \A i \in DOMAIN evs : evs[i].name # "" /\ Fits(evs[i].type)

AzureWorker(w) ==
    /\ Fits(w.image) /\ Fits(w.root) /\ ValidateVolumeType(w.cri)
    /\ IsPremium(w.root) => HasAzurePremiumStorage(w)
    /\ AzureExtraVolumes(w.extra)
    /\ \A i \in DOMAIN w.extra : IsPremium(w.extra[i].type) => HasAzurePremiumStorage(w)

ValidateAzure(s, c) ==
    /\ ValidateRegion(s, c) /\ Answers(c, "azs")
    /\ ZonesAndSizes(s, c.azs, c)
    /\ ValidateAzureStorageClass(s.sc, s.workers)
    /\ ValidateAzureNetwork(s, c)
    /\ Given(s.cpIdentity) /\ Fits(s.nodesIdentity)
    /\ AzureRegistries(s)
    /\ s.managed => /\ s.cp.extra = <<>>
                    /\ Answers(c, "versions") /\ s.k8s \in c.versions
                    /\ ValidateAKSNodes(s.workers)
    /\ ~s.managed => /\ Fits(s.cp.image) /\ InstanceTypeExists(s.cp.size, c)
                     /\ Fits(s.cp.root)
                     /\ ValidateVolumeType(s.cp.cri) /\ ValidateVolumeType(s.cp.etcd)
                     /\ AzureExtraVolumes(s.cp.extra)
                     /\ \A i \in DOMAIN s.workers : AzureWorker(s.workers[i])

-----------------------------------------------------------------------------
(* validateGCP.                                                            *)
ValidateGCPStorageClass(sc) ==
    /\ StorageClassShape(sc, {"type", "fsType", "labels", "kmsKey", "provisionedIops",
                              "provisionedThroughput", "replicationType"})
    /\ FieldFits(sc, "kmsKey") /\ FieldFits(sc, "replicationType") /\ FieldFits(sc, "provisionedIops")
    /\ Has(sc, "provisionedIops") => Has(sc, "type") /\ sc.params["type"] = "pd-extreme"

(* Here a list of subnets that could not be fetched does not contain the   *)
(* subnet.                                                                 *)
ValidateGCPNetwork(n, c) ==
    /\ IF n.vpc # ""
       THEN /\ ListedOrUnknown(c, "vpcs", c.vpcs, n.vpc)
            /\ Len(n.subnets) = 1 /\ n.subnets[1].id # ""
            /\ Answers(c, "subnets") /\ n.subnets[1].id \in c.subnets
       ELSE n.subnets = <<>>
    /\ n.vpcCidr = NoBlock

GCPUnmanaged(s, c) ==
    /\ Given(s.cp.image) /\ InstanceTypeExists(s.cp.size, c)
    /\ Fits(s.cp.root) /\ ValidateVolumeType(s.cp.cri) /\ ValidateVolumeType(s.cp.etcd)
    /\ \A i \in DOMAIN s.cp.extra : Fits(s.cp.extra[i].type)
    /\ \A k \in DOMAIN s.workers :
          /\ Given(s.workers[k].image) /\ Fits(s.workers[k].root) /\ ValidateVolumeType(s.workers[k].cri)
          /\ \A i \in DOMAIN s.workers[k].extra : Fits(s.workers[k].extra[i].type)

(* A private endpoint needs a block for the control plane and leaves no    *)
(* room for public addresses.  A null ends the call, with an error or by   *)
(* the dereference of a nil pointer.                                       *)
GKENetwork(g) ==
    /\ "null" \notin {g.endpoint, g.public}
    /\ g.endpoint = "true" => g.cpBlock # "" /\ g.public = "false"
    /\ Fits(g.cpBlock)
    /\ \A b \in g.blocks :
          /\ b \in {"private", "public"}
          /\ g.public = "false" /\ g.endpoint = "true" => b = "private"

GKESections(g) ==
    /\ g.channel \in {"unspecified", "extended"}
    /\ Fits(g.scopes)
    /\ "null" \notin {g.monitoring, g.logging}

(* Both names or both blocks, and not a mixture.                           *)
IPNames == {"clusterName", "servicesName"}

IPBlocks == {"clusterBlock", "servicesBlock"}

IPPolicyFits(p) == p \in {IPNames, IPBlocks}

RootVolumeKeys(ws) == \A i \in DOMAIN ws : ws[i].encrypted => Given(ws[i].rootKey)

(* With no IP policy validateGCP returns here: what would come after it,   *)
(* the keys of root volumes and the zones and sizes of the workers, is     *)
(* left out.                                                               *)
GKEReturnsEarly(s) == s.managed /\ s.gcp.policy = {}

ValidateGCP(s, c) ==
    /\ ValidateRegion(s, c) /\ Answers(c, "azs")
    /\ ValidateGCPStorageClass(s.sc)
    /\ ValidateGCPNetwork(s.networks, c)
    /\ \A i \in DOMAIN s.registries :
          s.registries[i].type \in {"gar", "gcr"} \union (IF s.managed THEN {} ELSE {"generic"})
    /\ IF s.managed THEN GKESections(s.gcp) /\ GKENetwork(s.gcp) ELSE GCPUnmanaged(s, c)
    /\ \/ GKEReturnsEarly(s)
       \/ /\ s.managed => IPPolicyFits(s.gcp.policy) /\ RootVolumeKeys(s.workers)
          /\ ZonesAndSizes(s, c.azs, c)

-----------------------------------------------------------------------------
(* validate.Cluster, once the credentials are there.                       *)
ValidateInfra(s, cred, c) ==
    /\ s.infra = "aws"   => ValidateAWS(s, cred, c)
    /\ s.infra = "azure" => ValidateAzure(s, c)
    /\ s.infra = "gcp"   => ValidateGCP(s, c)

=============================================================================
