----------------------------- MODULE KindConfig -----------------------------
(***************************************************************************)
(* kind's own configuration: its defaults, its validation, the nodes that  *)
(* planCreation plans for it, and the selections of nodes in nodeutils.    *)
(*                                                                         *)
(* A subnet list holds the family of each CIDR ("4", "6", or "bad" for one *)
(* that does not parse); the empty list is the field left out.  The same   *)
(* holds for the empty string in the other fields.                         *)
(***************************************************************************)
EXTENDS Integers, Sequences, SequencesExt, FiniteSets

ControlPlane == "control-plane"

Worker == "worker"

ExternalLoadBalancer == "external-load-balancer"

(* A role as the user may write it: left out, known, or not.               *)
Role == {"", ControlPlane, Worker, "other"}

Family == {"ipv4", "ipv6", "dual"}

-----------------------------------------------------------------------------
OrElse(value, default) == IF value = "" THEN default ELSE value

SubnetsOrElse(subnets, family) ==
    IF subnets # <<>> THEN subnets
    ELSE CASE family = "ipv6" -> <<"6">>
           [] family = "dual" -> <<"4", "6">>
           [] OTHER -> <<"4">>

(* The same defaults are set when a file is read and before the create.    *)
SetDefaultsCluster(c) ==
    LET family == OrElse(c.family, "ipv4")
        roles  == IF c.nodes = <<>> THEN <<ControlPlane>> ELSE c.nodes
    IN  [c EXCEPT !.nodes  = [i \in DOMAIN roles |-> OrElse(roles[i], ControlPlane)],
                  !.family = family,
                  !.pods   = SubnetsOrElse(c.pods, family),
                  !.services = SubnetsOrElse(c.services, family),
                  !.proxy  = OrElse(c.proxy, "iptables")]

ValidatePort(p) == p \in -1..65535

(* A dual-stack cluster takes one CIDR of either family or one of each.    *)
ValidateSubnets(subnets, family) ==
    /\ "bad" \notin Range(subnets)
    /\ CASE family = "dual" /\ Len(subnets) > 2 -> FALSE
         [] family = "dual" /\ Len(subnets) = 2 -> Range(subnets) = {"4", "6"}
         [] family # "dual" /\ Len(subnets) > 1 -> FALSE
         [] family = "ipv4" -> subnets[1] # "6"
         [] family = "ipv6" -> subnets[1] # "4"
         [] OTHER -> TRUE

Validate(c) ==
    /\ c.name # "invalid"
    /\ c.port # 0 => ValidatePort(c.port)
    /\ \A p \in c.mappings : ValidatePort(p)
    /\ ValidateSubnets(c.pods, c.family)
    /\ ValidateSubnets(c.services, c.family)
    /\ c.proxy \in {"iptables", "ipvs", "none"}
    /\ Range(c.nodes) \subseteq {ControlPlane, Worker}
    /\ ControlPlane \in Range(c.nodes)

-----------------------------------------------------------------------------
(* The container of the k-th node of a role.  MakeNodeNamer numbers them   *)
(* from the second on: control-plane, control-plane2, ...                  *)
Node(role, k) == [role |-> role, k |-> k]

NumberOf(c, role) == Cardinality({i \in DOMAIN c.nodes : c.nodes[i] = role})

MakeNodeNamer(c, i) ==
    Node(c.nodes[i], Cardinality({j \in 1..i : c.nodes[j] = c.nodes[i]}))

ClusterHasImplicitLoadBalancer(c) == NumberOf(c, ControlPlane) > 1

PlanCreation(c) ==
    {MakeNodeNamer(c, i) : i \in DOMAIN c.nodes} \union
    (IF ClusterHasImplicitLoadBalancer(c) THEN {Node(ExternalLoadBalancer, 1)} ELSE {})

(* The number after the role, character by character (for numbers below    *)
(* 100): 0 for a character that is not there, which comes before every     *)
(* digit.  Names are compared as strings.                                  *)
Suffix(k) ==
    IF k = 1 THEN <<0, 0>> ELSE IF k < 10 THEN <<k, 0>> ELSE <<k \div 10, 1 + (k % 10)>>

NameBefore(m, n) ==
    LET s == Suffix(m.k)
        t == Suffix(n.k)
    IN  s[1] < t[1] \/ (s[1] = t[1] /\ s[2] < t[2])

-----------------------------------------------------------------------------
(* The selections of nodeutils from a list of nodes.  The only order that  *)
(* matters is the one into which control planes are sorted.                *)
SelectNodesByRole(allNodes, role) == {n \in Range(allNodes) : n.role = role}

InternalNodes(allNodes) == {n \in Range(allNodes) : n.role \in {ControlPlane, Worker}}

ControlPlaneNodes(allNodes) == SelectNodesByRole(allNodes, ControlPlane)

(* The first of some control planes, sorted by name.                       *)
First(nodes) == CHOOSE n \in nodes : \A m \in nodes \ {n} : NameBefore(n, m)

UnsortedFirst(allNodes) == allNodes[Min({i \in DOMAIN allNodes : allNodes[i].role = ControlPlane})]

BootstrapControlPlaneNode(allNodes) == First(ControlPlaneNodes(allNodes))

SecondaryControlPlaneNodes(allNodes) ==
    ControlPlaneNodes(allNodes) \ {First(ControlPlaneNodes(allNodes))}

NoEndpoint == Node("none", 1)

(* The load balancer, or the only control plane, or an error.              *)
APIServerEndpointNode(allNodes) ==
    LET balancers == SelectNodesByRole(allNodes, ExternalLoadBalancer)
        planes    == ControlPlaneNodes(allNodes)
    IN  CASE Cardinality(balancers) = 1 -> First(balancers)
          [] balancers = {} /\ Cardinality(planes) = 1 -> First(planes)
          [] OTHER -> NoEndpoint

=============================================================================
