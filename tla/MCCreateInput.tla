--------------------------- MODULE MCCreateInput ---------------------------
(***************************************************************************)
(* Small instances of CreateInput for TLC.                                 *)
(***************************************************************************)
EXTENDS CreateInput

Group(name) ==
    [name |-> name, form |-> "short", qty |-> 3, max |-> 0, min |-> Unset, dist |-> "", az |-> "",
     taints |-> "", spot |-> FALSE, size |-> "t1", image |-> "", ami |-> "", root |-> "", aksRoot |-> "",
     cri |-> NoVolume, extra |-> <<>>, premium |-> FALSE, encrypted |-> FALSE, rootKey |-> ""]

Registry(url, type, auth, keos) == [url |-> url, type |-> type, auth |-> auth, keos |-> keos]

(* An unmanaged AWS cluster.                                               *)
Base ==
    [infra |-> "aws", managed |-> FALSE, k8s |-> "supported", region |-> "r1",
     workers |-> <<Group("w1")>>,
     cp |-> [image |-> "", size |-> "t1", root |-> "", cri |-> NoVolume, etcd |-> NoVolume,
             extra |-> <<>>, tags |-> ""],
     networks |-> [vpc |-> "", vpcCidr |-> NoBlock, podsCidr |-> NoBlock, subnets |-> <<>>,
                   podsSubnets |-> FALSE],
     sc |-> [class |-> "", key |-> "", params |-> <<>>],
     registries |-> <<Registry("u1", "generic", TRUE, TRUE)>>,
     helm |-> [auth |-> FALSE, type |-> "absent", url |-> "h1"],
     policy |-> "", createIAM |-> FALSE, roleARN |-> "", cpIdentity |-> "", nodesIdentity |-> "",
     gcp |-> [endpoint |-> "absent", public |-> "absent", monitoring |-> "absent", logging |-> "absent",
              channel |-> "absent", cpBlock |-> "", blocks |-> {}, scopes |-> "", policy |-> {}],
     identity |-> [enabled |-> FALSE, pool |-> "", accounts |-> {}],
     project |-> "", secureBoot |-> "absent", config |-> NoConfig]

EKS == [Base EXCEPT !.managed = TRUE, !.cp.size = ""]

AKS == [Base EXCEPT !.infra = "azure", !.managed = TRUE, !.cpIdentity = "ok",
                    !.registries = <<Registry("u1", "acr", FALSE, TRUE)>>]

Azure == [AKS EXCEPT !.managed = FALSE, !.registries = <<Registry("u1", "generic", TRUE, TRUE)>>]

GKE == [Base EXCEPT !.infra = "gcp", !.managed = TRUE, !.gcp.cpBlock = "ok",
                    !.registries = <<Registry("u1", "gar", FALSE, TRUE)>>]

GCP == [Base EXCEPT !.infra = "gcp", !.cp.image = "ok", !.workers[1].image = "ok"]

Specs == {Base, EKS, AKS, Azure, GKE, GCP}

(* Changes a user may make to a descriptor.                                *)
Policies == {IPNames, IPBlocks, {"clusterName"}, {"clusterName", "servicesBlock"}}

Two(s, w) == [s EXCEPT !.workers = Append(@, w)]

Second(s) == [s.workers[1] EXCEPT !.name = "w2"]

WorkerVariants(s) ==
    {Two(s, [Second(s) EXCEPT !.az = z]) : z \in {"z1", "z9"}} \union
    {Two(s, [Second(s) EXCEPT !.size = "t9", !.qty = 0]),
     Two(s, [Second(s) EXCEPT !.name = "w1"]),
     Two(s, [Second(s) EXCEPT !.dist = "unbalanced", !.qty = 1, !.min = 1, !.max = 2]),
     [s EXCEPT !.workers[1].qty = 1],
     [s EXCEPT !.workers[1].taints = "ok"],
     [s EXCEPT !.workers[1].extra = <<[label |-> "l", mount |-> "m", size |-> 8, device |-> "ok",
                                      slot |-> "s1", type |-> "", name |-> "v1"]>>]}

RegistryVariants(s) ==
    {[s EXCEPT !.registries = Append(@, [@[1] EXCEPT !.url = "u2", !.keos = k])] : k \in BOOLEAN} \union
    {[s EXCEPT !.registries[1].keos = FALSE],
     [s EXCEPT !.registries = Append(@, [@[1] EXCEPT !.url = "u2", !.keos = FALSE, !.auth = FALSE])]}

OtherVariants(s) ==
    {[s EXCEPT !.k8s = "old"], [s EXCEPT !.region = "r2"], [s EXCEPT !.sc.class = "premium"],
     [s EXCEPT !.networks.vpc = "vpc1",
               !.networks.subnets = <<[id |-> "sn1", cidr |-> "", role |-> "node"]>>],
     [s EXCEPT !.config = [maxUnhealthy |-> 34, charts |-> <<"c", "c">>, private |-> FALSE]],
     [s EXCEPT !.config = [maxUnhealthy |-> Unset, charts |-> <<"c">>, private |-> FALSE]]}

GKEVariants ==
    {[GKE EXCEPT !.gcp.policy = p] : p \in Policies} \union
    {Two([GKE EXCEPT !.gcp.policy = IPNames], [Group("w2") EXCEPT !.az = z]) : z \in {"z1", "z9"}} \union
    {[GKE EXCEPT !.gcp.endpoint = e, !.gcp.public = p, !.gcp.blocks = {"public"}] :
        e \in {"true", "false"}, p \in {"true", "false"}}

(* Credentials: one key for each cloud.                                    *)
Key(i, id) ==
    [id |-> id, url |-> "", region |-> IF i = "aws" THEN "r1" ELSE "",
     project |-> IF i = "gcp" THEN "p1" ELSE "", missing |-> IF i = "aws" THEN {"RoleARN"} ELSE {}]

LoginOf(id, url) == [NoCredential EXCEPT !.id = id, !.url = url]

Full(i) ==
    [provider |-> Key(i, i), registries |-> <<LoginOf("c1", "u1"), LoginOf("c2", "u2")>>,
     helm |-> LoginOf("ch", "h1"), token |-> "ghp"]

Write(s, creds) == [spec |-> s, creds |-> creds]

(* Everything that can be accepted or refused, once.                       *)
Variants ==
    UNION {WorkerVariants(s) \union RegistryVariants(s) \union OtherVariants(s) : s \in Specs} \union GKEVariants

(* What the files may go through: credentials that come and go, one cloud  *)
(* after the other, credentials of another region than the cluster, a Helm *)
(* repository that asks for a login later on.                              *)
Auth(s) == [s EXCEPT !.helm.auth = TRUE]

Pool == Write([GKE EXCEPT !.identity.enabled = TRUE, !.identity.accounts = {"p1"}], Full("gcp"))

Abroad == [Full("aws") EXCEPT !.provider.region = "r2"]

Histories ==
    {Write(s, Full(s.infra)) : s \in Specs} \union
    {Write(Base, [Full("aws") EXCEPT !.provider.id = "aws2", !.token = "ghp2"]),
     Write(Base, [Full("aws") EXCEPT !.provider.missing = {"RoleARN", "SecretKey"}]),
     Write(Base, [Full("aws") EXCEPT !.registries = <<>>]),
     Write(EKS, [Full("aws") EXCEPT !.token = ""]),
     Write(Auth(EKS), Full("aws")),
     Write(EKS, Abroad), Write(EKS, NoCredentials), Pool}

AllFiles ==
    Histories \union {Write(s, Full(s.infra)) : s \in Variants} \union
    {Write(s, Abroad) : s \in WorkerVariants(Base)}

HelmFiles == {Write(s, Full("aws")) : s \in {EKS, Auth(EKS)}}

(* Three zones, all of them with private subnets; r1 alone is a region.    *)
Cloud(fails) ==
    [fails |-> fails, regions |-> {"r1"}, azs |-> {"z1", "z2", "z3"}, privateAZs |-> {"z1", "z2", "z3"},
     types |-> {"t1"}, vpcs |-> {"vpc1"}, subnets |-> {"sn1"}, versions |-> {"supported"}]

(* A region without zones, as Azure has them.                              *)
Zoneless == [Cloud({}) EXCEPT !.azs = {}]

AllClouds == {Cloud({}), Cloud({"vpcs"}), Cloud({"types"}), Zoneless}

OneCloud == {Cloud({})}

AllFlags == {{}, {"validate-only"}, {"retain", "keep-mgmt"}}

NoFlags == {{}}

=============================================================================
