------------------------- MODULE NodeActionsProofs -------------------------
(***************************************************************************)
(* Proofs about NodeActions, for every set of configurations, every order  *)
(* in which docker lists the nodes and every interleaving of goroutines:   *)
(* its types, that nodes enter the cluster provisioned, that kubectl finds *)
(* its server, and that Ready is only said when it is true.                *)
(***************************************************************************)
EXTENDS NodeActions, FiniteSetTheorems, SequenceTheorems, WellFoundedInduction, TLAPS

-----------------------------------------------------------------------------
(* A set of naturals has a least element, one below a bound a greatest.    *)
LEMMA LeastNumber ==
  ASSUME NEW T, T \subseteq Nat, T # {}
  PROVE  \E x \in T : \A y \in T : x <= y
<1> DEFINE R == OpToRel(<, Nat)
<1>1. IsWellFoundedOn(R, Nat)
  BY NatLessThanWellFounded
<1>2. \A x, y \in Nat : y < x => <<y, x>> \in R
  BY DEF OpToRel
<1> HIDE DEF R
<1>3. PICK x \in T : \A y \in T : ~(<<y, x>> \in R)
  BY <1>1, WFMin
<1>4. x \in Nat /\ \A y \in T : y \in Nat
  OBVIOUS
<1>5. \A y \in T : ~(y < x)
  BY <1>2, <1>3, <1>4
<1> QED
  BY <1>4, <1>5

LEMMA MaxIs ==
  ASSUME NEW n \in Nat, NEW T, T \subseteq 1..n, T # {}
  PROVE  Max(T) \in T
<1> DEFINE D == {n - y : y \in T}
<1>1. D \subseteq Nat
  OBVIOUS
<1>a. D # {}
  <2>1. PICK y \in T : TRUE
    OBVIOUS
  <2>2. n - y \in D
    OBVIOUS
  <2> QED
    BY <2>2
<1> HIDE DEF D
<1>2. PICK d \in D : \A e \in D : d <= e
  BY <1>1, <1>a, LeastNumber
<1>3. PICK x \in T : d = n - x
  BY <1>2 DEF D
<1>4. \A y \in T : x >= y
  <2> TAKE y \in T
  <2>1. n - y \in D
    BY DEF D
  <2>2. n - x <= n - y /\ x \in Int /\ y \in Int
    BY <1>2, <1>3, <2>1
  <2> QED
    BY <2>2
<1> QED
  BY <1>4 DEF Max

-----------------------------------------------------------------------------
(* The names of one role are all different and stand in a total order, so  *)
(* some nodes of a role have a first one.                                  *)
Rank(k) == 11 * Suffix(k)[1] + Suffix(k)[2]

LEMMA RankIs ==
  /\ \A k \in 1..99 : Rank(k) \in Nat
  /\ \A j, k \in 1..99 : j # k => Rank(j) # Rank(k)
  /\ \A m, n : m.k \in 1..99 /\ n.k \in 1..99 /\ Rank(m.k) < Rank(n.k) => NameBefore(m, n)
<1> DEFINE A(k) == Suffix(k)[1]
           B(k) == Suffix(k)[2]
<1>1. ASSUME NEW k \in 1..99
      PROVE  \/ k = 1 /\ A(k) = 0 /\ B(k) = 0
             \/ k \in 2..9 /\ A(k) = k /\ B(k) = 0
             \/ \E d \in 1..9, u \in 0..9 : k = 10 * d + u /\ A(k) = d /\ B(k) = 1 + u
  <2>1. CASE k = 1
    BY <2>1 DEF Suffix
  <2>2. CASE k \in 2..9
    BY <2>2 DEF Suffix
  <2>3. CASE k \in 10..99
    <3>1. k \div 10 \in 1..9 /\ k % 10 \in 0..9 /\ k = 10 * (k \div 10) + (k % 10)
      BY <2>3
    <3>2. Suffix(k) = <<k \div 10, 1 + (k % 10)>>
      BY <2>3 DEF Suffix
    <3>3. A(k) = k \div 10 /\ B(k) = 1 + (k % 10)
      BY <3>2
    <3> QED
      BY <3>1, <3>3
  <2> QED
    BY <2>1, <2>2, <2>3
<1> HIDE DEF A, B
<1>3. ASSUME NEW k \in 1..99
      PROVE  A(k) \in 0..9 /\ B(k) \in 0..10
  BY <1>1
<1>4. ASSUME NEW j \in 1..99, NEW k \in 1..99, A(j) = A(k), B(j) = B(k)
      PROVE  j = k
  <2>1. /\ \/ j = 1 /\ A(j) = 0 /\ B(j) = 0
           \/ j \in 2..9 /\ A(j) = j /\ B(j) = 0
           \/ \E d \in 1..9, u \in 0..9 : j = 10 * d + u /\ A(j) = d /\ B(j) = 1 + u
        /\ \/ k = 1 /\ A(k) = 0 /\ B(k) = 0
           \/ k \in 2..9 /\ A(k) = k /\ B(k) = 0
           \/ \E d \in 1..9, u \in 0..9 : k = 10 * d + u /\ A(k) = d /\ B(k) = 1 + u
    BY <1>1
  <2> QED
    BY <1>4, <2>1
<1>5. \A a, c \in 0..9 : \A b, d \in 0..10 :
         /\ 11 * a + b \in Nat
         /\ 11 * a + b = 11 * c + d => a = c /\ b = d
         /\ 11 * a + b < 11 * c + d => a < c \/ (a = c /\ b < d)
  OBVIOUS
<1>9. \A k : Rank(k) = 11 * A(k) + B(k)
  BY DEF Rank, A, B
<1>6. \A k \in 1..99 : Rank(k) \in Nat
  BY <1>3, <1>5, <1>9
<1>7. \A j, k \in 1..99 : j # k => Rank(j) # Rank(k)
  <2> TAKE j, k \in 1..99
  <2>1. 11 * A(j) + B(j) = 11 * A(k) + B(k) => A(j) = A(k) /\ B(j) = B(k)
    BY <1>3, <1>5
  <2> QED
    BY <1>4, <1>9, <2>1
<1>8. \A m, n : m.k \in 1..99 /\ n.k \in 1..99 /\ Rank(m.k) < Rank(n.k) => NameBefore(m, n)
  <2> TAKE m, n
  <2> HAVE m.k \in 1..99 /\ n.k \in 1..99 /\ Rank(m.k) < Rank(n.k)
  <2>1. A(m.k) < A(n.k) \/ (A(m.k) = A(n.k) /\ B(m.k) < B(n.k))
    BY <1>3, <1>5, <1>9
  <2> QED
    BY <2>1 DEF NameBefore, A, B
<1> QED
  BY <1>6, <1>7, <1>8

LEMMA FirstIs ==
  ASSUME NEW S, S # {}, NEW role, \A n \in S : n.k \in 1..99 /\ n = Node(role, n.k)
  PROVE  First(S) \in S
<1> DEFINE T == {Rank(n.k) : n \in S}
<1>1. T \subseteq Nat /\ T # {}
  BY RankIs
<1>2. PICK x \in T : \A y \in T : x <= y
  BY <1>1, LeastNumber
<1>3. PICK n \in S : x = Rank(n.k)
  BY <1>2
<1>4. ASSUME NEW m \in S \ {n}
      PROVE  NameBefore(n, m)
  <2>1. n.k # m.k
    BY DEF Node
  <2>2. Rank(m.k) \in T
    OBVIOUS
  <2>3. Rank(n.k) <= Rank(m.k) /\ Rank(n.k) # Rank(m.k)
    BY <1>2, <1>3, <2>1, <2>2, RankIs
  <2>4. Rank(n.k) \in Nat /\ Rank(m.k) \in Nat
    BY RankIs
  <2>5. Rank(n.k) < Rank(m.k)
    BY <2>3, <2>4
  <2> QED
    BY <2>5, RankIs
<1> QED
  BY <1>4 DEF First

-----------------------------------------------------------------------------
(* The nodes of a configuration: a finite set, each with its number.       *)
LEMMA NumberedNodes ==
  ASSUME NEW c, c.nodes \in Seq(Role), Len(c.nodes) \in 1..99
  PROVE  /\ IsFiniteSet(PlanCreation(c))
         /\ \A n \in PlanCreation(c) : n.k \in 1..99 /\ n = Node(n.role, n.k)
<1> DEFINE D == DOMAIN c.nodes
           Of(i) == {j \in 1..i : c.nodes[j] = c.nodes[i]}
           Named == {MakeNodeNamer(c, i) : i \in D}
<1>1. D = 1..Len(c.nodes) /\ IsFiniteSet(D)
  <2>1. D = 1..Len(c.nodes)
    OBVIOUS
  <2>2. Len(c.nodes) \in Int
    OBVIOUS
  <2> QED
    BY <2>1, <2>2, FS_Interval
<1>2. IsFiniteSet(Named)
  <2> DEFINE f == [i \in D |-> MakeNodeNamer(c, i)]
  <2>1. f \in Surjection(D, Named)
    BY DEF Surjection
  <2> QED
    BY <1>1, <2>1, FS_Surjection
<1>3. IsFiniteSet({Node(ExternalLoadBalancer, 1)}) /\ IsFiniteSet({})
  BY FS_Singleton, FS_EmptySet
<1>4. IsFiniteSet(PlanCreation(c))
  <2>1. IsFiniteSet(Named \union {Node(ExternalLoadBalancer, 1)}) /\ IsFiniteSet(Named \union {})
    BY <1>2, <1>3, FS_Union
  <2> QED
    BY <2>1 DEF PlanCreation
<1>5. ASSUME NEW i \in D
      PROVE  Cardinality(Of(i)) \in 1..99
  <2>1. i \in 1..99
    <3>1. i \in 1..Len(c.nodes)
      BY <1>1
    <3>2. \A l \in 1..99 : 1..l \subseteq 1..99
      OBVIOUS
    <3> QED
      BY <3>1, <3>2
  <2>2. IsFiniteSet(1..i) /\ Cardinality(1..i) = i
    BY <2>1, FS_Interval
  <2>3. IsFiniteSet(Of(i)) /\ Cardinality(Of(i)) <= i
    BY <2>2, FS_Subset
  <2>4. Of(i) # {}
    <3>1. i \in Of(i)
      BY <2>1
    <3> QED
      BY <3>1
  <2>5. Cardinality(Of(i)) \in Nat /\ Cardinality(Of(i)) # 0
    BY <2>3, <2>4, FS_EmptySet, FS_CardinalityType
  <2>6. \A l \in 1..99 : \A x \in Nat : x <= l /\ x # 0 => x \in 1..99
    OBVIOUS
  <2> HIDE DEF Of
  <2> QED
    BY <2>1, <2>3, <2>5, <2>6
<1>6. ASSUME NEW n \in PlanCreation(c)
      PROVE  n.k \in 1..99 /\ n = Node(n.role, n.k)
  <2>1. CASE n = Node(ExternalLoadBalancer, 1)
    BY <2>1 DEF Node
  <2>2. CASE n \in Named
    <3>1. PICK i \in D : n = Node(c.nodes[i], Cardinality(Of(i)))
      BY <2>2 DEF MakeNodeNamer
    <3>2. n.role = c.nodes[i] /\ n.k = Cardinality(Of(i))
      BY <3>1 DEF Node
    <3> QED
      BY <1>5, <3>1, <3>2
  <2> QED
    BY <2>1, <2>2 DEF PlanCreation
<1> QED
  BY <1>4, <1>6

(* docker lists each node once.                                            *)
LEMMA ListCovers ==
  ASSUME NEW S, IsFiniteSet(S), NEW s \in SetToSeqs(S)
  PROVE  Range(s) = S /\ s \in Seq(S) /\ Len(s) = Cardinality(S)
<1> DEFINE D == 1..Cardinality(S)
<1>1. Cardinality(S) \in Nat
  BY FS_CardinalityType
<1>2. s \in [D -> S] /\ \A i, j \in D : i # j => s[i] # s[j]
  BY DEF SetToSeqs
<1>3. s \in Seq(S) /\ Len(s) = Cardinality(S)
  BY <1>1, <1>2
<1>4. Cardinality(D) = Cardinality(S)
  <2>1. Cardinality(D) = IF 1 > Cardinality(S) THEN 0 ELSE Cardinality(S) - 1 + 1
    BY <1>1, FS_Interval
  <2>2. \A n \in Nat : (IF 1 > n THEN 0 ELSE n - 1 + 1) = n
    OBVIOUS
  <2> QED
    BY <1>1, <2>1, <2>2
<1> HIDE DEF D
<1>5. s \in Injection(D, S)
  BY <1>2 DEF Injection, IsInjective
<1>6. s \in Surjection(D, S)
  BY <1>4, <1>5, FS_Injection
<1>7. \A x \in S : \E i \in D : s[i] = x
  BY <1>6 DEF Surjection
<1>8. DOMAIN s = D /\ \A i \in D : s[i] \in S
  BY <1>2
<1>9. Range(s) = S
  BY <1>7, <1>8 DEF Range
<1> QED
  BY <1>3, <1>9

-----------------------------------------------------------------------------
(***************************************************************************)
(* The inductive invariant.  First the positions of main, by what is done  *)
(* when it gets there.                                                     *)
(***************************************************************************)
Waits == {"config_wait", "patch_wait", "join_wait"}

Joined == {"join_wait", "wait", "poll", "success"}

OnlyBootstrap == {"untaint", "cni", "storage", "join"}

FromInit == {"init", "copy", "join_next"} \union OnlyBootstrap \union Joined

FromPatch == {"patch", "patch_wait"} \union FromInit

FromConfig == {"config", "config_wait"} \union FromPatch

BeforeInit == {"validate", "rejected", "loadbalancer", "config", "config_wait",
               "patch", "patch_wait", "init"}

Positions == BeforeInit \union FromConfig \union {"failed"}

(* The nodes, which docker may list in any order.                          *)
Planes == ControlPlaneNodes(order)

Internal == InternalNodes(order)

Bootstrap == First(Planes)

Endpoint == APIServerEndpointNode(order)

Busy == {n \in All : gor[n] # "none"}

Configuration ==
    /\ cfg.nodes \in Seq(Role) /\ Len(cfg.nodes) \in 1..99
    /\ cfg.family \in Family
    /\ cfg.services \in Seq({"4", "6", "bad"}) /\ cfg.services # <<>>
    /\ cfg.kube.taints \subseteq {"master", "control-plane"}
    /\ order \in SetToSeqs(PlanCreation(cfg))

Types ==
    /\ cache \in {<<>>, order}
    /\ pc \in Positions
    /\ todo \subseteq All
    /\ gor \in [All -> {"none", "kubeadm", "patch", "restart", "join", "joining"}]
    /\ errCh \in Seq({"nil", "error"}) /\ pending \in 0..Cardinality(All)
    /\ DOMAIN conf = All
    /\ runtime \in [All -> {"default", "written", "patched"}]
    /\ files \in [All -> {"none", "part", "all"}]
    /\ member \in [All -> {"no", "joining", "yes"}]
    /\ taints \subseteq {"master", "control-plane"}
    /\ backends \subseteq All /\ ready \subseteq All
    /\ report \in {"none", "ready", "timeout"}

Failed == "error" \in Range(errCh)

Counted == Cardinality(Busy) + Len(errCh) = pending

(* A result is on its way for each one main waits for; nobody works while  *)
(* main goes on.  After an error goroutines of any kind may be left.       *)
Goroutines ==
    /\ pc \in Waits => Counted
    /\ pc \notin Waits \union {"failed"} => Busy = {} /\ errCh = <<>>
    /\ \A n \in All :
         /\ pc = "config_wait" => gor[n] \in {"none", "kubeadm"}
         /\ pc = "patch_wait" => gor[n] \in {"none", "patch", "restart"}
         /\ pc = "join_wait" => gor[n] \in {"none", "join", "joining"}

Configured(n) ==
    /\ MatchingNode(n) # 0
    /\ conf[n] = KubeadmConfig(n)
    /\ Endpoint # NoEndpoint

Fitted(n) ==
    /\ Configured(n)
    /\ cfg.patches => runtime[n] = "patched"
    /\ n.role = ControlPlane => files[n] = "all"

Checked ==
    /\ pc \notin {"validate", "rejected"} => Validate(cfg)
    /\ pc \in FromConfig => \/ SelectNodesByRole(order, ExternalLoadBalancer) = {}
                            \/ backends = Planes

(* What the goroutines do, done for all nodes when main has the results.   *)
Prepared ==
    \A n \in Internal :
      /\ pc = "config_wait" => gor[n] = "kubeadm" \/ Configured(n) \/ Failed
      /\ pc \in FromPatch => Configured(n)
      /\ pc = "patch_wait" => gor[n] \in {"patch", "restart"} \/ runtime[n] = "patched"
                              \/ Failed
      /\ pc \in FromInit /\ cfg.patches => runtime[n] = "patched"

(* What a goroutine relies on, main having gone on or not.                 *)
Working ==
    \A n \in All :
      /\ gor[n] = "kubeadm" => Endpoint # NoEndpoint
      /\ gor[n] \in {"patch", "restart"} => member[n] = "no"
      /\ gor[n] \in {"join", "joining"} => n.role = Worker /\ Fitted(n)

Certificates ==
    /\ pc = "copy" => /\ todo \subseteq Planes \ {Bootstrap}
                      /\ \A n \in Planes \ todo : files[n] = "all"
    /\ pc \in OnlyBootstrap \union {"join_next"} \union Joined => \A n \in Planes : files[n] = "all"

Members ==
    /\ \A n \in All : member[n] # "no" => Fitted(n)
    /\ pc \in BeforeInit => \A n \in All : member[n] = "no"
    /\ pc \in OnlyBootstrap \union {"copy"} =>
         /\ member[Bootstrap] = "yes"
         /\ \A n \in All \ {Bootstrap} : member[n] = "no"
    /\ pc = "join_next" => /\ todo \subseteq Planes
                           /\ \A n \in Planes \ todo : member[n] = "yes"
    /\ pc \in Joined => \A n \in Planes : member[n] = "yes"

IInv ==
    /\ Configuration /\ Types /\ Goroutines /\ Checked /\ Prepared
    /\ Working /\ Certificates /\ Members /\ ReadyIsTrue

-----------------------------------------------------------------------------
(* What the configuration fixes: the nodes, their kubeadm.conf, the order  *)
(* of the actions.                                                         *)
LEMMA NodesAre ==
  ASSUME Configuration
  PROVE  /\ All = PlanCreation(cfg) /\ IsFiniteSet(All) /\ Cardinality(All) \in Nat
         /\ \A n \in All : n.k \in 1..99 /\ n = Node(n.role, n.k)
         /\ Planes \subseteq Internal /\ Internal \subseteq All
         /\ Planes = {n \in All : n.role = ControlPlane}
         /\ SelectNodesByRole(order, Worker) = {n \in Internal : n.role = Worker}
<1>1. /\ IsFiniteSet(PlanCreation(cfg))
      /\ \A n \in PlanCreation(cfg) : n.k \in 1..99 /\ n = Node(n.role, n.k)
  BY NumberedNodes DEF Configuration
<1>2. All = PlanCreation(cfg)
  BY <1>1, ListCovers DEF Configuration, All
<1>3. Cardinality(All) \in Nat
  BY <1>1, <1>2, FS_CardinalityType
<1>4. /\ Planes \subseteq Internal /\ Internal \subseteq All
      /\ Planes = {n \in All : n.role = ControlPlane}
      /\ SelectNodesByRole(order, Worker) = {n \in Internal : n.role = Worker}
  BY DEF Planes, Internal, All, InternalNodes, ControlPlaneNodes, SelectNodesByRole,
         ControlPlane, Worker
<1> QED
  BY <1>1, <1>2, <1>3, <1>4

(* The first of some control planes is one of them, and there is one.      *)
LEMMA FirstPlane ==
  ASSUME Configuration, NEW S, S \subseteq Planes, S # {}
  PROVE  First(S) \in S
<1>1. \A n \in S : n.k \in 1..99 /\ n = Node(ControlPlane, n.k)
  BY NodesAre
<1> QED
  BY <1>1, FirstIs

LEMMA BootstrapIs ==
  ASSUME Configuration, Validate(cfg)
  PROVE  Bootstrap \in Planes
<1>1. PICK i \in DOMAIN cfg.nodes : cfg.nodes[i] = ControlPlane
  BY DEF Validate, Range
<1>2. MakeNodeNamer(cfg, i) \in PlanCreation(cfg)
  BY DEF PlanCreation
<1>3. MakeNodeNamer(cfg, i).role = ControlPlane
  BY <1>1 DEF MakeNodeNamer, Node
<1>4. Planes # {}
  BY <1>2, <1>3, NodesAre
<1> QED
  BY <1>4, FirstPlane DEF Bootstrap

LEMMA Place ==
  ASSUME Configuration, NEW n, MatchingNode(n) # 0
  PROVE  cfg.nodes[MatchingNode(n)] = n.role
<1> DEFINE match == {i \in DOMAIN cfg.nodes : MakeNodeNamer(cfg, i) = n}
<1>1. match # {} /\ MatchingNode(n) = Max(match)
  BY DEF MatchingNode
<1>2. match \subseteq 1..Len(cfg.nodes) /\ Len(cfg.nodes) \in Nat
  BY DEF Configuration
<1>3. Max(match) \in match
  BY <1>1, <1>2, MaxIs
<1>4. MakeNodeNamer(cfg, MatchingNode(n)) = n
  BY <1>1, <1>3
<1> QED
  BY <1>4 DEF MakeNodeNamer, Node

LEMMA FirstAddress ==
  ASSUME Configuration, Validate(cfg)
  PROVE  Head(NodeAddresses) = Head(cfg.services)
<1> DEFINE s == cfg.services
<1>1. s \in Seq({"4", "6", "bad"}) /\ s # <<>> /\ cfg.family \in {"ipv4", "ipv6", "dual"}
  BY DEF Configuration, Family
<1>2. /\ Len(s) \in Nat /\ Len(s) >= 1 /\ Head(s) = s[1]
      /\ s[1] \in {"4", "6", "bad"} /\ 1 \in DOMAIN s
  BY <1>1
<1>3. "bad" \notin Range(s) /\ ValidateSubnets(s, cfg.family)
  BY DEF Validate, ValidateSubnets
<1>4. s[1] \in {"4", "6"}
  BY <1>2, <1>3 DEF Range
<1>5. /\ Head(<<"4">>) = "4" /\ Head(<<"6">>) = "6"
      /\ Head(<<"4", "6">>) = "4" /\ Head(<<"6", "4">>) = "6"
  OBVIOUS
<1>6. CASE cfg.family = "dual"
  BY <1>2, <1>4, <1>5, <1>6 DEF NodeAddresses
<1>7. CASE cfg.family = "ipv6"
  <2>1. s[1] # "4"
    BY <1>3, <1>7 DEF ValidateSubnets
  <2> QED
    BY <1>2, <1>4, <1>5, <1>7, <2>1 DEF NodeAddresses
<1>8. CASE cfg.family = "ipv4"
  <2>1. s[1] # "6"
    BY <1>3, <1>8 DEF ValidateSubnets
  <2> QED
    BY <1>2, <1>4, <1>5, <1>8, <2>1 DEF NodeAddresses
<1> QED
  BY <1>1, <1>6, <1>7, <1>8

LEMMA FollowingIs ==
  /\ Following("loadbalancer") = "config" /\ Following("config") = "init"
  /\ Following("init") \in {"cni", "storage"} /\ Following("cni") = "storage"
  /\ Following("storage") = "join" /\ Following("join") = "wait" /\ Following("wait") = "success"
<1> DEFINE At(a) == CHOOSE i \in DOMAIN Actions : Actions[i] = a
<1>1. /\ DOMAIN Actions = 1..7 /\ Len(Actions) = 7
      /\ Actions[1] = "loadbalancer" /\ Actions[2] = "config" /\ Actions[3] = "init"
      /\ Actions[4] = "cni" /\ Actions[5] = "storage" /\ Actions[6] = "join" /\ Actions[7] = "wait"
  BY DEF Actions
<1>2. /\ At("loadbalancer") = 1 /\ At("config") = 2 /\ At("init") = 3 /\ At("cni") = 4
      /\ At("storage") = 5 /\ At("join") = 6 /\ At("wait") = 7
  BY <1>1
<1>3. \A a : Following(a) = LET s == IF At(a) = Len(Actions) THEN "success" ELSE Actions[At(a) + 1]
                            IN  IF s = "cni" /\ cfg.disableCNI THEN "storage" ELSE s
  BY DEF Following
<1> HIDE DEF At
<1> QED
  BY <1>1, <1>2, <1>3

(* No step changes the configuration or the list.                          *)
Fixed ==
    /\ Configuration' /\ All' = All /\ IsFiniteSet(All)
    /\ Planes' = Planes /\ Internal' = Internal /\ Bootstrap' = Bootstrap
    /\ Endpoint' = Endpoint /\ cfg' = cfg /\ order' = order
    /\ \A n : MatchingNode(n)' = MatchingNode(n) /\ KubeadmConfig(n)' = KubeadmConfig(n)

LEMMA FixedIs ==
  ASSUME Configuration, cfg' = cfg, order' = order
  PROVE  Fixed
<1>1. All' = All
  BY DEF All
<1>2. Planes' = Planes
  BY DEF Planes
<1>3. Internal' = Internal
  BY DEF Internal
<1>4. Bootstrap' = Bootstrap
  BY <1>2 DEF Bootstrap
<1>5. Endpoint' = Endpoint
  BY DEF Endpoint
<1>6. ASSUME NEW n
      PROVE  MatchingNode(n)' = MatchingNode(n) /\ KubeadmConfig(n)' = KubeadmConfig(n)
  <2>1. MatchingNode(n)' = MatchingNode(n)
    BY DEF MatchingNode
  <2>2. NodeAddresses' = NodeAddresses
    BY DEF NodeAddresses
  <2>3. APIServerEndpointNode(ListNodes)' = APIServerEndpointNode(ListNodes)
    BY DEF ListNodes
  <2> QED
    BY <2>1, <2>2, <2>3 DEF KubeadmConfig
<1>7. Configuration'
  BY DEF Configuration
<1> QED
  BY <1>1, <1>2, <1>3, <1>4, <1>5, <1>6, <1>7, NodesAre DEF Fixed

LEMMA ListIs ==
  ASSUME Types
  PROVE  Nodes = order
BY DEF Types, Nodes, ListNodes

(* Results: what a send, a start of goroutines and a receive leave.        *)
LEMMA SendCounts ==
  ASSUME IInv, Fixed, NEW n \in All, gor[n] # "none",
         NEW err \in {"nil", "error"}, Send(n, err)
  PROVE  /\ errCh' \in Seq({"nil", "error"})
         /\ Counted => Counted'
         /\ Failed \/ err = "error" => Failed'
         /\ Busy' \subseteq Busy
         /\ Busy # {}
<1>1. errCh \in Seq({"nil", "error"}) /\ errCh' = Append(errCh, err) /\ pending' = pending
  BY DEF IInv, Types, Send
<1>2. errCh' \in Seq({"nil", "error"}) /\ Len(errCh') = Len(errCh) + 1 /\ Len(errCh) \in Nat
  BY <1>1
<1>3. Busy' = Busy \ {n} /\ n \in Busy
  BY DEF IInv, Types, Send, Busy, Fixed
<1>4. IsFiniteSet(Busy)
  BY FS_Subset DEF Fixed, Busy
<1>5. Cardinality(Busy') = Cardinality(Busy) - 1 /\ Cardinality(Busy) \in Nat
  BY <1>3, <1>4, FS_RemoveElement, FS_CardinalityType
<1>6. Counted => Counted'
  BY <1>1, <1>2, <1>5 DEF Counted
<1>7. Range(errCh') = Range(errCh) \union {err}
  <2>1. DOMAIN errCh = 1..Len(errCh) /\ DOMAIN errCh' = 1..(Len(errCh) + 1)
    BY <1>1, <1>2
  <2>2. errCh'[Len(errCh) + 1] = err /\ \A i \in 1..Len(errCh) : errCh'[i] = errCh[i]
    BY <1>1
  <2>3. 1..(Len(errCh) + 1) = (1..Len(errCh)) \union {Len(errCh) + 1}
    BY <1>2
  <2> QED
    BY <2>1, <2>2, <2>3 DEF Range
<1>8. Failed \/ err = "error" => Failed'
  BY <1>7 DEF Failed
<1> QED
  BY <1>2, <1>3, <1>6, <1>8

LEMMA SpawnCounts ==
  ASSUME IInv, Fixed, pc \notin Waits \union {"failed"}, NEW nodes, nodes \subseteq All,
         NEW l \in {"kubeadm", "patch", "join"}, Spawn(nodes, l)
  PROVE  /\ Counted' /\ errCh' \in Seq({"nil", "error"})
         /\ pending' \in 0..Cardinality(All)
         /\ gor' \in [All -> {"none", l}]
         /\ \A n \in All : gor'[n] = IF n \in nodes THEN l ELSE "none"
<1>1. Busy = {}
  BY DEF IInv, Goroutines
<1>2. \A n \in All : gor'[n] = IF n \in nodes THEN l ELSE "none"
  BY <1>1 DEF Spawn, Busy
<1>3. gor' \in [All -> {"none", l}]
  BY <1>2 DEF Spawn
<1>4. Busy' = nodes
  BY <1>2 DEF Busy, Fixed
<1>5. IsFiniteSet(nodes) /\ Cardinality(nodes) <= Cardinality(All)
  BY FS_Subset DEF Fixed
<1>6. Cardinality(nodes) \in Nat /\ Cardinality(All) \in Nat
  BY <1>5, FS_CardinalityType DEF Fixed
<1>7. pending' = Cardinality(nodes) /\ errCh' = <<>> /\ Len(errCh') = 0
  BY DEF Spawn
<1>8. pending' \in 0..Cardinality(All)
  BY <1>5, <1>6, <1>7
<1>9. Counted'
  BY <1>4, <1>6, <1>7 DEF Counted
<1> QED
  BY <1>2, <1>3, <1>7, <1>8, <1>9

LEMMA ReceiveCounts ==
  ASSUME IInv, Fixed, pc \in Waits, NEW next, Receive(next)
  PROVE  /\ Counted' /\ errCh' \in Seq({"nil", "error"})
         /\ pending' \in 0..Cardinality(All)
         /\ \/ pc' = "failed"
            \/ pc' = next /\ Busy = {} /\ Busy' = {} /\ errCh' = <<>> /\ ~Failed
            \/ pc' = pc /\ (Failed => Failed')
<1> DEFINE e == errCh
<1>1. /\ e \in Seq({"nil", "error"}) /\ e # <<>> /\ errCh' = Tail(e) /\ pending' = pending - 1
      /\ pending \in Nat /\ Counted /\ gor' = gor
  BY DEF IInv, Types, Goroutines, Receive, Counted
<1>2. /\ Len(e) \in Nat /\ Len(e) >= 1 /\ Tail(e) \in Seq({"nil", "error"})
      /\ Len(Tail(e)) = Len(e) - 1 /\ Head(e) = e[1]
  BY <1>1
<1>3. Busy' = Busy
  BY <1>1 DEF Busy, Fixed
<1>4. IsFiniteSet(Busy)
  BY FS_Subset DEF Fixed, Busy
<1>5. Cardinality(Busy) \in Nat /\ (Cardinality(Busy) = 0 => Busy = {})
  BY <1>4, FS_CardinalityType, FS_EmptySet
<1>6. Cardinality(Busy) + Len(e) = pending
  BY <1>1 DEF Counted
<1>7. Counted'
  <2>1. Cardinality(Busy) + (Len(e) - 1) = pending - 1
    BY <1>1, <1>2, <1>5, <1>6
  <2> QED
    BY <1>1, <1>2, <1>3, <2>1 DEF Counted
<1>8. pending' \in 0..Cardinality(All)
  <2>1. pending >= 1
    BY <1>1, <1>2, <1>5, <1>6
  <2>2. pending \in 0..Cardinality(All) /\ Cardinality(All) \in Nat
    BY FS_CardinalityType DEF IInv, Types, Fixed
  <2> QED
    BY <1>1, <2>1, <2>2
<1>9. ASSUME Head(e) = "nil", pending = 1
      PROVE  Busy = {} /\ errCh' = <<>> /\ ~Failed
  <2>1. Cardinality(Busy) = 0 /\ Len(e) = 1
    BY <1>2, <1>5, <1>6, <1>9
  <2>2. Busy = {}
    BY <1>5, <2>1
  <2>3. errCh' = <<>>
    BY <1>1, <1>2, <2>1
  <2>4. DOMAIN e = {1}
    BY <1>1, <2>1
  <2>5. ~Failed
    BY <1>2, <1>9, <2>4 DEF Failed, Range
  <2> QED
    BY <2>2, <2>3, <2>5
<1>10. ASSUME Head(e) = "nil", Failed
       PROVE  Failed'
  <2>1. PICK i \in 1..Len(e) : e[i] = "error"
    BY <1>1, <1>10 DEF Failed, Range
  <2>2. i # 1
    BY <1>2, <1>10, <2>1
  <2>3. i - 1 \in 1..Len(Tail(e)) /\ Tail(e)[i - 1] = e[i]
    BY <1>1, <1>2, <2>2
  <2>4. i - 1 \in DOMAIN Tail(e)
    BY <1>2, <2>3
  <2> QED
    BY <1>1, <2>1, <2>3, <2>4 DEF Failed, Range
<1>11. \/ pc' = "failed"
       \/ pc' = next /\ Head(e) = "nil" /\ pending = 1
       \/ pc' = pc /\ Head(e) = "nil"
  BY DEF Receive, ReturnError
<1> QED
  BY <1>1, <1>2, <1>3, <1>7, <1>8, <1>9, <1>10, <1>11

-----------------------------------------------------------------------------
(* A step of main between two waits leaves the goroutines' parts alone.    *)
LEMMA Quiet ==
  ASSUME IInv, Fixed, UNCHANGED <<gor, errCh, pending, conf, runtime>>,
         pc \notin Waits \union {"failed"}, pc' \notin Waits,
         pc' \in FromPatch => pc \in FromPatch, pc' \in FromInit => pc \in FromInit
  PROVE  Goroutines' /\ Prepared' /\ Working'
<1>1. Busy = {} /\ errCh = <<>>
  BY DEF IInv, Goroutines
<1>2. Busy' = {} /\ errCh' = <<>>
  BY <1>1 DEF Busy, Fixed
<1>3. \A n \in All : gor'[n] = "none"
  BY <1>1 DEF Busy
<1>4. Goroutines'
  BY <1>2, <1>3 DEF Goroutines, Fixed
<1>5. Working'
  BY <1>3 DEF Working, Fixed
<1>6. \A n : Configured(n)' = Configured(n)
  BY DEF Configured, Fixed
<1>7. Prepared'
  <2>1. pc' # "config_wait" /\ pc' # "patch_wait"
    BY DEF Waits
  <2>2. \A n \in Internal : /\ pc' \in FromPatch => Configured(n)
                            /\ pc' \in FromInit /\ cfg.patches => runtime[n] = "patched"
    BY DEF IInv, Prepared
  <2> QED
    BY <1>6, <2>1, <2>2 DEF Prepared, Fixed
<1> QED
  BY <1>4, <1>5, <1>7

(* The members, and what they were fitted with, stay.                      *)
LEMMA SameMembers ==
  ASSUME IInv, Fixed, UNCHANGED <<conf, runtime, files, member>>
  PROVE  /\ \A n : Fitted(n)' = Fitted(n)
         /\ \A n \in All' : member'[n] # "no" => Fitted(n)'
<1>1. \A n : Fitted(n)' = Fitted(n)
  BY DEF Fitted, Configured, Fixed
<1> QED
  BY <1>1 DEF IInv, Members, Fixed

LEMMA ValidateConfigInv ==
  ASSUME IInv, ValidateConfig
  PROVE  IInv'
<1>1. Fixed
  BY FixedIs DEF IInv, ValidateConfig
<1>2. pc = "validate" /\ pc' \in {"loadbalancer", "rejected"}
  BY DEF ValidateConfig, Actions
<1>3. UNCHANGED <<cache, todo, gor, errCh, pending, conf, runtime, files, member,
                  taints, backends, cni, storage, ready, report>>
  BY DEF ValidateConfig, threads, world
<1>4. Goroutines' /\ Prepared' /\ Working'
  BY <1>1, <1>2, <1>3, Quiet DEF Waits, FromPatch, FromInit, OnlyBootstrap, Joined
<1>5. Types'
  BY <1>1, <1>2, <1>3
     DEF IInv, Types, Fixed, Positions, BeforeInit, FromConfig, FromPatch, FromInit,
         OnlyBootstrap, Joined
<1>6. Checked'
  BY <1>1, <1>2, <1>3
     DEF ValidateConfig, Checked, Fixed, FromConfig, FromPatch, FromInit, OnlyBootstrap,
         Joined
<1>7. Certificates'
  BY <1>1, <1>2, <1>3 DEF IInv, Certificates, Fixed, OnlyBootstrap, Joined
<1>8. Members'
  <2>1. \A n \in All' : member'[n] # "no" => Fitted(n)'
    BY <1>1, <1>3, SameMembers
  <2> QED
    BY <1>1, <1>2, <1>3, <2>1 DEF IInv, Members, Fixed, OnlyBootstrap, Joined, BeforeInit
<1>9. ReadyIsTrue'
  BY <1>1, <1>3 DEF IInv, ReadyIsTrue, Fixed
<1> QED
  BY <1>1, <1>4, <1>5, <1>6, <1>7, <1>8, <1>9 DEF IInv, Fixed

LEMMA ConfigureLoadBalancerInv ==
  ASSUME IInv, ConfigureLoadBalancer
  PROVE  IInv'
<1>1. Fixed
  BY FixedIs DEF IInv, ConfigureLoadBalancer
<1>2. pc = "loadbalancer" /\ pc' = "config"
  BY FollowingIs DEF ConfigureLoadBalancer
<1>3. UNCHANGED <<todo, gor, errCh, pending, conf, runtime, files, member, taints, cni,
                  storage, ready, report>>
  BY DEF ConfigureLoadBalancer, threads, world
<1>a. Nodes = order
  BY ListIs DEF IInv
<1>b. \/ SelectNodesByRole(order, ExternalLoadBalancer) = {} /\ backends' = backends
      \/ backends' = Planes
  BY <1>a DEF ConfigureLoadBalancer, Planes, ControlPlaneNodes
<1>c. Planes \subseteq All
  BY NodesAre DEF IInv
<1>4. Goroutines' /\ Prepared' /\ Working'
  BY <1>1, <1>2, <1>3, Quiet DEF Waits, FromPatch, FromInit, OnlyBootstrap, Joined
<1>5. Types'
  BY <1>1, <1>2, <1>3, <1>a, <1>b, <1>c
     DEF IInv, Types, Fixed, Positions, FromConfig, ConfigureLoadBalancer, Keep
<1>6. Checked'
  BY <1>1, <1>2, <1>b DEF IInv, Checked, Fixed
<1>7. Certificates'
  BY <1>1, <1>2, <1>3 DEF IInv, Certificates, Fixed, OnlyBootstrap, Joined
<1>8. Members'
  <2>1. \A n \in All' : member'[n] # "no" => Fitted(n)'
    BY <1>1, <1>3, SameMembers
  <2> QED
    BY <1>1, <1>2, <1>3, <2>1 DEF IInv, Members, Fixed, OnlyBootstrap, Joined, BeforeInit
<1>9. ReadyIsTrue'
  BY <1>1, <1>3 DEF IInv, ReadyIsTrue, Fixed
<1> QED
  BY <1>1, <1>4, <1>5, <1>6, <1>7, <1>8, <1>9 DEF IInv, Fixed

LEMMA KubeadmInitInv ==
  ASSUME IInv, KubeadmInit
  PROVE  IInv'
<1>1. Fixed
  BY FixedIs DEF IInv, KubeadmInit
<1>2. pc = "init" /\ pc' = "copy"
  BY DEF KubeadmInit
<1>3. UNCHANGED <<gor, errCh, pending, conf, runtime, backends, cni, storage, ready,
                  report>>
  BY DEF KubeadmInit, threads, world
<1>a. Nodes = order
  BY ListIs DEF IInv
<1>b. Configuration /\ Bootstrap \in Planes /\ Planes \subseteq Internal /\ Internal \subseteq All
  BY <1>2, BootstrapIs, NodesAre DEF IInv, Checked
<1>c. /\ member' = [member EXCEPT ![Bootstrap] = "yes"]
      /\ files' = [files EXCEPT ![Bootstrap] = "all"]
      /\ taints' = cfg.kube.taints /\ todo' = Planes \ {Bootstrap} /\ cache' = order
  BY <1>a
     DEF KubeadmInit, Keep, Planes, Bootstrap, SecondaryControlPlaneNodes,
         BootstrapControlPlaneNode
<1>d. /\ member'[Bootstrap] = "yes" /\ files'[Bootstrap] = "all"
      /\ \A n \in All \ {Bootstrap} : member'[n] = "no"
  BY <1>2, <1>b, <1>c DEF IInv, Types, Members, BeforeInit
<1>4. Goroutines' /\ Prepared' /\ Working'
  BY <1>1, <1>2, <1>3, Quiet DEF Waits, FromPatch, FromInit, OnlyBootstrap, Joined
<1>5. Types'
  BY <1>1, <1>2, <1>3, <1>b, <1>c
     DEF IInv, Configuration, Types, Fixed, Positions, FromConfig, FromPatch, FromInit
<1>6. Checked'
  BY <1>1, <1>2, <1>3
     DEF IInv, Checked, Fixed, FromConfig, FromPatch, FromInit, OnlyBootstrap, Joined
<1>7. Certificates'
  BY <1>1, <1>2, <1>c, <1>d DEF Certificates, Fixed, OnlyBootstrap, Joined
<1>8. Members'
  <2>1. Fitted(Bootstrap)'
    BY <1>1, <1>2, <1>3, <1>b, <1>d
       DEF IInv, Prepared, Fitted, Configured, Fixed, FromPatch, FromInit
  <2> QED
    BY <1>1, <1>2, <1>d, <2>1 DEF Members, Fixed, OnlyBootstrap, Joined, BeforeInit
<1>9. ReadyIsTrue'
  BY <1>1, <1>3 DEF IInv, ReadyIsTrue, Fixed
<1> QED
  BY <1>1, <1>4, <1>5, <1>6, <1>7, <1>8, <1>9 DEF IInv, Fixed

LEMMA CopyToSecondaryInv ==
  ASSUME IInv, CopyToSecondary
  PROVE  IInv'
<1>1. Fixed
  BY FixedIs DEF IInv, CopyToSecondary
<1>2. pc = "copy" /\ pc' = "copy"
  BY DEF CopyToSecondary
<1>3. UNCHANGED <<cache, gor, errCh, pending, conf, runtime, member, taints, backends,
                  cni, storage, ready, report>>
  BY DEF CopyToSecondary, threads, world
<1>b. Configuration /\ Bootstrap \in Planes /\ Planes \subseteq Internal /\ Internal \subseteq All
  BY <1>2, BootstrapIs, NodesAre DEF IInv, Checked
<1>c. First(todo) \in todo /\ todo \subseteq Planes \ {Bootstrap}
  BY <1>2, <1>b, FirstPlane DEF IInv, Certificates, CopyToSecondary
<1>d. /\ files' \in [All -> {"none", "part", "all"}] /\ todo' \subseteq todo
      /\ \A n \in All \ {First(todo)} : files'[n] = files[n]
      /\ todo' = todo \/ (todo' = todo \ {First(todo)} /\ files'[First(todo)] = "all")
  BY <1>b, <1>c DEF IInv, Types, CopyToSecondary
<1>4. Goroutines' /\ Prepared' /\ Working'
  BY <1>1, <1>2, <1>3, Quiet DEF Waits, FromPatch, FromInit, OnlyBootstrap, Joined
<1>5. Types'
  BY <1>1, <1>2, <1>3, <1>d DEF IInv, Types, Fixed
<1>6. Checked'
  BY <1>1, <1>2, <1>3
     DEF IInv, Checked, Fixed, FromConfig, FromPatch, FromInit, OnlyBootstrap, Joined
<1>7. Certificates'
  BY <1>1, <1>2, <1>b, <1>c, <1>d DEF IInv, Certificates, Fixed, OnlyBootstrap, Joined
<1>8. Members'
  <2>1. \A n \in All : member[n] # "no" => n # First(todo)
    BY <1>2, <1>c DEF IInv, Members
  <2>2. \A n \in All : member[n] # "no" => Fitted(n)'
    BY <1>1, <1>3, <1>d, <2>1 DEF IInv, Members, Fitted, Configured, Fixed
  <2> QED
    BY <1>1, <1>2, <1>3, <2>2 DEF IInv, Members, Fixed, OnlyBootstrap, Joined, BeforeInit
<1>9. ReadyIsTrue'
  BY <1>1, <1>3 DEF IInv, ReadyIsTrue, Fixed
<1> QED
  BY <1>1, <1>4, <1>5, <1>6, <1>7, <1>8, <1>9 DEF IInv, Fixed

LEMMA CopyDoneInv ==
  ASSUME IInv, CopyDone
  PROVE  IInv'
<1>1. Fixed
  BY FixedIs DEF IInv, CopyDone
<1>2. pc = "copy" /\ todo = {} /\ pc' \in {"untaint", "cni", "storage"}
  BY FollowingIs DEF CopyDone
<1>3. UNCHANGED <<cache, todo, gor, errCh, pending, conf, runtime, files, member,
                  taints, backends, cni, storage, ready, report>>
  BY DEF CopyDone, threads, world
<1>4. Goroutines' /\ Prepared' /\ Working'
  BY <1>1, <1>2, <1>3, Quiet DEF Waits, FromPatch, FromInit, OnlyBootstrap, Joined
<1>5. Types'
  BY <1>1, <1>2, <1>3
     DEF IInv, Types, Fixed, Positions, BeforeInit, FromConfig, FromPatch, FromInit,
         OnlyBootstrap, Joined
<1>6. Checked'
  BY <1>1, <1>2, <1>3
     DEF IInv, Checked, Fixed, FromConfig, FromPatch, FromInit, OnlyBootstrap, Joined
<1>7. Certificates'
  BY <1>1, <1>2, <1>3 DEF IInv, Certificates, Fixed, OnlyBootstrap, Joined
<1>8. Members'
  <2>1. \A n \in All' : member'[n] # "no" => Fitted(n)'
    BY <1>1, <1>3, SameMembers
  <2> QED
    BY <1>1, <1>2, <1>3, <2>1 DEF IInv, Members, Fixed, OnlyBootstrap, Joined, BeforeInit
<1>9. ReadyIsTrue'
  BY <1>1, <1>3 DEF IInv, ReadyIsTrue, Fixed
<1> QED
  BY <1>1, <1>4, <1>5, <1>6, <1>7, <1>8, <1>9 DEF IInv, Fixed

LEMMA RemoveTaintsInv ==
  ASSUME IInv, RemoveTaints
  PROVE  IInv'
<1>1. Fixed
  BY FixedIs DEF IInv, RemoveTaints
<1>2. pc = "untaint" /\ pc' \in {"cni", "storage"}
  BY FollowingIs DEF RemoveTaints
<1>3. UNCHANGED <<cache, todo, gor, errCh, pending, conf, runtime, files, member,
                  backends, cni, storage, ready, report>>
  BY DEF RemoveTaints, threads, world
<1>4. Goroutines' /\ Prepared' /\ Working'
  BY <1>1, <1>2, <1>3, Quiet DEF Waits, FromPatch, FromInit, OnlyBootstrap, Joined
<1>5. Types'
  BY <1>1, <1>2, <1>3
     DEF RemoveTaints, IInv, Types, Fixed, Positions, FromConfig, FromPatch, FromInit,
         OnlyBootstrap, Joined
<1>6. Checked'
  BY <1>1, <1>2, <1>3
     DEF IInv, Checked, Fixed, FromConfig, FromPatch, FromInit, OnlyBootstrap, Joined
<1>7. Certificates'
  BY <1>1, <1>2, <1>3 DEF IInv, Certificates, Fixed, OnlyBootstrap, Joined
<1>8. Members'
  <2>1. \A n \in All' : member'[n] # "no" => Fitted(n)'
    BY <1>1, <1>3, SameMembers
  <2> QED
    BY <1>1, <1>2, <1>3, <2>1 DEF IInv, Members, Fixed, OnlyBootstrap, Joined, BeforeInit
<1>9. ReadyIsTrue'
  BY <1>1, <1>3 DEF IInv, ReadyIsTrue, Fixed
<1> QED
  BY <1>1, <1>4, <1>5, <1>6, <1>7, <1>8, <1>9 DEF IInv, Fixed

LEMMA InstallCNIInv ==
  ASSUME IInv, InstallCNI
  PROVE  IInv'
<1>1. Fixed
  BY FixedIs DEF IInv, InstallCNI
<1>2. pc = "cni" /\ pc' = "storage"
  BY FollowingIs DEF InstallCNI
<1>3. UNCHANGED <<todo, gor, errCh, pending, conf, runtime, files, member, taints,
                  backends, storage, ready, report>>
  BY DEF InstallCNI, threads, world
<1>a. Nodes = order
  BY ListIs DEF IInv
<1>4. Goroutines' /\ Prepared' /\ Working'
  BY <1>1, <1>2, <1>3, Quiet DEF Waits, FromPatch, FromInit, OnlyBootstrap, Joined
<1>5. Types'
  BY <1>1, <1>2, <1>3, <1>a
     DEF IInv, Types, Fixed, Positions, BeforeInit, FromConfig, FromPatch, FromInit,
         OnlyBootstrap, Joined, InstallCNI, Keep
<1>6. Checked'
  BY <1>1, <1>2, <1>3
     DEF IInv, Checked, Fixed, FromConfig, FromPatch, FromInit, OnlyBootstrap, Joined
<1>7. Certificates'
  BY <1>1, <1>2, <1>3 DEF IInv, Certificates, Fixed, OnlyBootstrap, Joined
<1>8. Members'
  <2>1. \A n \in All' : member'[n] # "no" => Fitted(n)'
    BY <1>1, <1>3, SameMembers
  <2> QED
    BY <1>1, <1>2, <1>3, <2>1 DEF IInv, Members, Fixed, OnlyBootstrap, Joined, BeforeInit
<1>9. ReadyIsTrue'
  BY <1>1, <1>3 DEF IInv, ReadyIsTrue, Fixed
<1> QED
  BY <1>1, <1>4, <1>5, <1>6, <1>7, <1>8, <1>9 DEF IInv, Fixed

LEMMA InstallStorageInv ==
  ASSUME IInv, InstallStorage
  PROVE  IInv'
<1>1. Fixed
  BY FixedIs DEF IInv, InstallStorage
<1>2. pc = "storage" /\ pc' = "join"
  BY FollowingIs DEF InstallStorage
<1>3. UNCHANGED <<todo, gor, errCh, pending, conf, runtime, files, member, taints,
                  backends, cni, ready, report>>
  BY DEF InstallStorage, threads, world
<1>a. Nodes = order
  BY ListIs DEF IInv
<1>4. Goroutines' /\ Prepared' /\ Working'
  BY <1>1, <1>2, <1>3, Quiet DEF Waits, FromPatch, FromInit, OnlyBootstrap, Joined
<1>5. Types'
  BY <1>1, <1>2, <1>3, <1>a
     DEF IInv, Types, Fixed, Positions, BeforeInit, FromConfig, FromPatch, FromInit,
         OnlyBootstrap, Joined, InstallStorage, Keep
<1>6. Checked'
  BY <1>1, <1>2, <1>3
     DEF IInv, Checked, Fixed, FromConfig, FromPatch, FromInit, OnlyBootstrap, Joined
<1>7. Certificates'
  BY <1>1, <1>2, <1>3 DEF IInv, Certificates, Fixed, OnlyBootstrap, Joined
<1>8. Members'
  <2>1. \A n \in All' : member'[n] # "no" => Fitted(n)'
    BY <1>1, <1>3, SameMembers
  <2> QED
    BY <1>1, <1>2, <1>3, <2>1 DEF IInv, Members, Fixed, OnlyBootstrap, Joined, BeforeInit
<1>9. ReadyIsTrue'
  BY <1>1, <1>3 DEF IInv, ReadyIsTrue, Fixed
<1> QED
  BY <1>1, <1>4, <1>5, <1>6, <1>7, <1>8, <1>9 DEF IInv, Fixed

LEMMA JoinBeginInv ==
  ASSUME IInv, JoinBegin
  PROVE  IInv'
<1>1. Fixed
  BY FixedIs DEF IInv, JoinBegin
<1>2. pc = "join" /\ pc' = "join_next"
  BY DEF JoinBegin
<1>3. UNCHANGED <<gor, errCh, pending, conf, runtime, files, member, taints, backends,
                  cni, storage, ready, report>>
  BY DEF JoinBegin, threads, world
<1>a. Nodes = order
  BY ListIs DEF IInv
<1>b. Configuration /\ Bootstrap \in Planes /\ Planes \subseteq Internal /\ Internal \subseteq All
  BY <1>2, BootstrapIs, NodesAre DEF IInv, Checked
<1>c. todo' = Planes \ {Bootstrap} /\ cache' = order
  BY <1>a DEF JoinBegin, Keep, Planes, Bootstrap, SecondaryControlPlaneNodes
<1>4. Goroutines' /\ Prepared' /\ Working'
  BY <1>1, <1>2, <1>3, Quiet DEF Waits, FromPatch, FromInit, OnlyBootstrap, Joined
<1>5. Types'
  BY <1>1, <1>2, <1>3, <1>b, <1>c
     DEF IInv, Types, Fixed, Positions, FromConfig, FromPatch, FromInit
<1>6. Checked'
  BY <1>1, <1>2, <1>3
     DEF IInv, Checked, Fixed, FromConfig, FromPatch, FromInit, OnlyBootstrap, Joined
<1>7. Certificates'
  BY <1>1, <1>2, <1>3 DEF IInv, Certificates, Fixed, OnlyBootstrap, Joined
<1>8. Members'
  <2>1. \A n \in All' : member'[n] # "no" => Fitted(n)'
    BY <1>1, <1>3, SameMembers
  <2>2. todo' \subseteq Planes /\ \A n \in Planes \ todo' : member'[n] = "yes"
    BY <1>2, <1>3, <1>c DEF IInv, Members, OnlyBootstrap
  <2> QED
    BY <1>1, <1>2, <2>1, <2>2 DEF Members, Fixed, OnlyBootstrap, Joined, BeforeInit
<1>9. ReadyIsTrue'
  BY <1>1, <1>3 DEF IInv, ReadyIsTrue, Fixed
<1> QED
  BY <1>1, <1>4, <1>5, <1>6, <1>7, <1>8, <1>9 DEF IInv, Fixed

LEMMA JoinSecondaryInv ==
  ASSUME IInv, JoinSecondary
  PROVE  IInv'
<1>1. Fixed
  BY FixedIs DEF IInv, JoinSecondary
<1>2. pc = "join_next" /\ pc' = "join_next"
  BY DEF JoinSecondary
<1>3. UNCHANGED <<cache, gor, errCh, pending, conf, runtime, files, taints, backends,
                  cni, storage, ready, report>>
  BY DEF JoinSecondary, threads, world
<1>b. Configuration /\ Bootstrap \in Planes /\ Planes \subseteq Internal /\ Internal \subseteq All
  BY <1>2, BootstrapIs, NodesAre DEF IInv, Checked
<1>c. First(todo) \in todo /\ todo \subseteq Planes
  BY <1>2, <1>b, FirstPlane DEF IInv, Members, JoinSecondary
<1>d. /\ member' \in [All -> {"no", "joining", "yes"}] /\ todo' = todo \ {First(todo)}
      /\ member'[First(todo)] = "yes" /\ \A n \in All \ {First(todo)} : member'[n] = member[n]
  BY <1>b, <1>c DEF IInv, Types, JoinSecondary
<1>4. Goroutines' /\ Prepared' /\ Working'
  BY <1>1, <1>2, <1>3, Quiet DEF Waits, FromPatch, FromInit, OnlyBootstrap, Joined
<1>5. Types'
  BY <1>1, <1>2, <1>3, <1>b, <1>c, <1>d DEF IInv, Types, Fixed
<1>6. Checked'
  BY <1>1, <1>2, <1>3
     DEF IInv, Checked, Fixed, FromConfig, FromPatch, FromInit, OnlyBootstrap, Joined
<1>7. Certificates'
  BY <1>1, <1>2, <1>3 DEF IInv, Certificates, Fixed, OnlyBootstrap, Joined
<1>8. Members'
  <2>1. \A n : Fitted(n)' = Fitted(n)
    BY <1>1, <1>3 DEF Fitted, Configured, Fixed
  <2>2. Fitted(First(todo))
    BY <1>2, <1>b, <1>c DEF IInv, Prepared, Certificates, Fitted, FromPatch, FromInit
  <2>3. \A n \in All : member'[n] # "no" => Fitted(n)'
    BY <1>d, <2>1, <2>2 DEF IInv, Members
  <2>4. \A n \in Planes \ todo' : member'[n] = "yes"
    BY <1>2, <1>b, <1>d DEF IInv, Members
  <2> QED
    BY <1>1, <1>2, <1>c, <1>d, <2>3, <2>4
       DEF Members, Fixed, OnlyBootstrap, Joined, BeforeInit
<1>9. ReadyIsTrue'
  BY <1>1, <1>3 DEF IInv, ReadyIsTrue, Fixed
<1> QED
  BY <1>1, <1>4, <1>5, <1>6, <1>7, <1>8, <1>9 DEF IInv, Fixed

LEMMA WaitBeginInv ==
  ASSUME IInv, WaitBegin
  PROVE  IInv'
<1>1. Fixed
  BY FixedIs DEF IInv, WaitBegin
<1>2. pc = "wait" /\ pc' \in {"poll", "success"}
  BY FollowingIs DEF WaitBegin
<1>3. UNCHANGED <<todo, gor, errCh, pending, conf, runtime, files, member, taints,
                  backends, cni, storage, ready, report>>
  BY DEF WaitBegin, threads, world
<1>a. Nodes = order
  BY ListIs DEF IInv
<1>4. Goroutines' /\ Prepared' /\ Working'
  BY <1>1, <1>2, <1>3, Quiet DEF Waits, FromPatch, FromInit, OnlyBootstrap, Joined
<1>5. Types'
  BY <1>1, <1>2, <1>3, <1>a
     DEF IInv, Types, Fixed, Positions, BeforeInit, FromConfig, FromPatch, FromInit,
         OnlyBootstrap, Joined, WaitBegin, Keep
<1>6. Checked'
  BY <1>1, <1>2, <1>3
     DEF IInv, Checked, Fixed, FromConfig, FromPatch, FromInit, OnlyBootstrap, Joined
<1>7. Certificates'
  BY <1>1, <1>2, <1>3 DEF IInv, Certificates, Fixed, OnlyBootstrap, Joined
<1>8. Members'
  <2>1. \A n \in All' : member'[n] # "no" => Fitted(n)'
    BY <1>1, <1>3, SameMembers
  <2> QED
    BY <1>1, <1>2, <1>3, <2>1 DEF IInv, Members, Fixed, OnlyBootstrap, Joined, BeforeInit
<1>9. ReadyIsTrue'
  BY <1>1, <1>3 DEF IInv, ReadyIsTrue, Fixed
<1> QED
  BY <1>1, <1>4, <1>5, <1>6, <1>7, <1>8, <1>9 DEF IInv, Fixed

LEMMA PollInv ==
  ASSUME IInv, Poll
  PROVE  IInv'
<1>1. Fixed
  BY FixedIs DEF IInv, Poll
<1>2. pc = "poll" /\ pc' = "success" /\ report' = "ready"
  BY FollowingIs DEF Poll
<1>3. UNCHANGED <<cache, todo, gor, errCh, pending, conf, runtime, files, member,
                  taints, backends, cni, storage, ready>>
  BY DEF Poll, threads, world
<1>4. Goroutines' /\ Prepared' /\ Working'
  BY <1>1, <1>2, <1>3, Quiet DEF Waits, FromPatch, FromInit, OnlyBootstrap, Joined
<1>5. Types'
  BY <1>1, <1>2, <1>3
     DEF IInv, Types, Fixed, Positions, BeforeInit, FromConfig, FromPatch, FromInit,
         OnlyBootstrap, Joined
<1>6. Checked'
  BY <1>1, <1>2, <1>3
     DEF IInv, Checked, Fixed, FromConfig, FromPatch, FromInit, OnlyBootstrap, Joined
<1>7. Certificates'
  BY <1>1, <1>2, <1>3 DEF IInv, Certificates, Fixed, OnlyBootstrap, Joined
<1>8. Members'
  <2>1. \A n \in All' : member'[n] # "no" => Fitted(n)'
    BY <1>1, <1>3, SameMembers
  <2> QED
    BY <1>1, <1>2, <1>3, <2>1 DEF IInv, Members, Fixed, OnlyBootstrap, Joined, BeforeInit
<1>9. ReadyIsTrue'
  <2>1. SelectorLabel \in cfg.kube.labels /\ Selected \subseteq ready
    BY DEF Poll, Selected
  <2>2. \A n \in All : n.role = ControlPlane => member[n] = "yes"
    BY <1>2, NodesAre DEF IInv, Members, Joined
  <2>3. \A n \in All : n.role = ControlPlane => n \in ready
    BY <2>1, <2>2 DEF Selected
  <2> QED
    BY <1>1, <1>3, <2>3 DEF ReadyIsTrue, Fixed
<1> QED
  BY <1>1, <1>4, <1>5, <1>6, <1>7, <1>8, <1>9 DEF IInv, Fixed

LEMMA WaitTimesOutInv ==
  ASSUME IInv, WaitTimesOut
  PROVE  IInv'
<1>1. Fixed
  BY FixedIs DEF IInv, WaitTimesOut
<1>2. pc = "poll" /\ pc' = "success" /\ report' = "timeout"
  BY FollowingIs DEF WaitTimesOut
<1>3. UNCHANGED <<cache, todo, gor, errCh, pending, conf, runtime, files, member,
                  taints, backends, cni, storage, ready>>
  BY DEF WaitTimesOut, threads, world
<1>4. Goroutines' /\ Prepared' /\ Working'
  BY <1>1, <1>2, <1>3, Quiet DEF Waits, FromPatch, FromInit, OnlyBootstrap, Joined
<1>5. Types'
  BY <1>1, <1>2, <1>3
     DEF IInv, Types, Fixed, Positions, BeforeInit, FromConfig, FromPatch, FromInit,
         OnlyBootstrap, Joined
<1>6. Checked'
  BY <1>1, <1>2, <1>3
     DEF IInv, Checked, Fixed, FromConfig, FromPatch, FromInit, OnlyBootstrap, Joined
<1>7. Certificates'
  BY <1>1, <1>2, <1>3 DEF IInv, Certificates, Fixed, OnlyBootstrap, Joined
<1>8. Members'
  <2>1. \A n \in All' : member'[n] # "no" => Fitted(n)'
    BY <1>1, <1>3, SameMembers
  <2> QED
    BY <1>1, <1>2, <1>3, <2>1 DEF IInv, Members, Fixed, OnlyBootstrap, Joined, BeforeInit
<1>9. ReadyIsTrue'
  BY <1>2 DEF ReadyIsTrue
<1> QED
  BY <1>1, <1>4, <1>5, <1>6, <1>7, <1>8, <1>9 DEF IInv, Fixed

LEMMA StepFailsInv ==
  ASSUME IInv, StepFails
  PROVE  IInv'
<1>1. Fixed
  BY FixedIs DEF IInv, StepFails
<1>2. pc \in {"loadbalancer", "config", "init", "copy", "untaint", "cni",
               "storage", "join", "join_next", "wait"} /\ pc' = "failed"
  BY DEF StepFails, ReturnError
<1>3. UNCHANGED <<cache, todo, gor, errCh, pending, conf, runtime, files, member,
                  taints, backends, cni, storage, ready, report>>
  BY DEF StepFails, threads, world
<1>4. Goroutines' /\ Prepared' /\ Working'
  BY <1>1, <1>2, <1>3, Quiet DEF Waits, FromPatch, FromInit, OnlyBootstrap, Joined
<1>5. Types'
  BY <1>1, <1>2, <1>3
     DEF IInv, Types, Fixed, Positions, BeforeInit, FromConfig, FromPatch, FromInit,
         OnlyBootstrap, Joined
<1>6. Checked'
  BY <1>1, <1>2, <1>3
     DEF IInv, Checked, Fixed, FromConfig, FromPatch, FromInit, OnlyBootstrap, Joined
<1>7. Certificates'
  BY <1>1, <1>2, <1>3 DEF IInv, Certificates, Fixed, OnlyBootstrap, Joined
<1>8. Members'
  <2>1. \A n \in All' : member'[n] # "no" => Fitted(n)'
    BY <1>1, <1>3, SameMembers
  <2> QED
    BY <1>1, <1>2, <1>3, <2>1 DEF IInv, Members, Fixed, OnlyBootstrap, Joined, BeforeInit
<1>9. ReadyIsTrue'
  BY <1>1, <1>3 DEF IInv, ReadyIsTrue, Fixed
<1> QED
  BY <1>1, <1>4, <1>5, <1>6, <1>7, <1>8, <1>9 DEF IInv, Fixed

-----------------------------------------------------------------------------
(* Main starts goroutines and waits for them.                              *)
LEMMA WriteConfigInv ==
  ASSUME IInv, WriteConfig
  PROVE  IInv'
<1>1. Fixed
  BY FixedIs DEF IInv, WriteConfig
<1>2. pc = "config" /\ pc' = "config_wait" /\ Endpoint # NoEndpoint
  BY DEF WriteConfig, Endpoint, ListNodes
<1>3. UNCHANGED <<todo, conf, runtime, files, member, taints, backends, cni, storage,
                  ready, report>>
  BY DEF WriteConfig, threads, world
<1>a. Nodes = order
  BY ListIs DEF IInv
<1>b. Spawn(Internal, "kubeadm") /\ Internal \subseteq All
  BY <1>a, NodesAre DEF IInv, WriteConfig, Internal
<1>s. /\ Counted' /\ errCh' \in Seq({"nil", "error"})
      /\ pending' \in 0..Cardinality(All)
      /\ gor' \in [All -> {"none", "kubeadm"}]
      /\ \A n \in All : gor'[n] = IF n \in Internal THEN "kubeadm" ELSE "none"
  BY <1>1, <1>2, <1>b, SpawnCounts DEF Waits
<1>4. Types'
  BY <1>1, <1>2, <1>3, <1>a, <1>s
     DEF IInv, Types, Fixed, Positions, FromConfig, WriteConfig, Keep
<1>5. Goroutines'
  BY <1>1, <1>2, <1>s DEF Goroutines, Fixed, Waits
<1>6. Checked'
  BY <1>1, <1>2, <1>3
     DEF IInv, Checked, Fixed, FromConfig, FromPatch, FromInit, OnlyBootstrap, Joined
<1>7. Prepared'
  BY <1>1, <1>2, <1>s, <1>b
     DEF Prepared, Fixed, FromConfig, FromPatch, FromInit, OnlyBootstrap, Joined
<1>8. Working'
  BY <1>1, <1>2, <1>s DEF Working, Fixed
<1>9. Certificates'
  BY <1>1, <1>2, <1>3 DEF IInv, Certificates, Fixed, OnlyBootstrap, Joined
<1>10. Members'
  <2>1. \A n \in All' : member'[n] # "no" => Fitted(n)'
    BY <1>1, <1>3, SameMembers
  <2> QED
    BY <1>1, <1>2, <1>3, <2>1 DEF IInv, Members, Fixed, OnlyBootstrap, Joined, BeforeInit
<1>11. ReadyIsTrue'
  BY <1>1, <1>3 DEF IInv, ReadyIsTrue, Fixed
<1> QED
  BY <1>1, <1>4, <1>5, <1>6, <1>7, <1>8, <1>9, <1>10, <1>11 DEF IInv, Fixed

LEMMA PatchAllInv ==
  ASSUME IInv, PatchAll
  PROVE  IInv'
<1>1. Fixed
  BY FixedIs DEF IInv, PatchAll
<1>2. pc = "patch" /\ pc' = "patch_wait"
  BY DEF PatchAll
<1>3. UNCHANGED <<cache, todo, conf, runtime, files, member, taints, backends, cni,
                  storage, ready, report>>
  BY DEF PatchAll, threads, world
<1>a. Nodes = order
  BY ListIs DEF IInv
<1>b. Spawn(Internal, "patch") /\ Internal \subseteq All
  BY <1>a, NodesAre DEF IInv, PatchAll, Internal
<1>s. /\ Counted' /\ errCh' \in Seq({"nil", "error"})
      /\ pending' \in 0..Cardinality(All)
      /\ gor' \in [All -> {"none", "patch"}]
      /\ \A n \in All : gor'[n] = IF n \in Internal THEN "patch" ELSE "none"
  BY <1>1, <1>2, <1>b, SpawnCounts DEF Waits
<1>c. \A n : Configured(n)' = Configured(n)
  BY <1>1, <1>3 DEF Configured, Fixed
<1>4. Types'
  BY <1>1, <1>2, <1>3, <1>s DEF IInv, Types, Fixed, Positions, FromConfig, FromPatch
<1>5. Goroutines'
  BY <1>1, <1>2, <1>s DEF Goroutines, Fixed, Waits
<1>6. Checked'
  BY <1>1, <1>2, <1>3
     DEF IInv, Checked, Fixed, FromConfig, FromPatch, FromInit, OnlyBootstrap, Joined
<1>7. Prepared'
  BY <1>1, <1>2, <1>3, <1>b, <1>c, <1>s
     DEF IInv, Prepared, Fixed, FromPatch, FromInit, OnlyBootstrap, Joined
<1>8. Working'
  <2>1. \A n \in All : member'[n] = "no"
    BY <1>2, <1>3 DEF IInv, Members, BeforeInit
  <2> QED
    BY <1>1, <1>s, <2>1 DEF Working, Fixed
<1>9. Certificates'
  BY <1>1, <1>2, <1>3 DEF IInv, Certificates, Fixed, OnlyBootstrap, Joined
<1>10. Members'
  <2>1. \A n \in All' : member'[n] # "no" => Fitted(n)'
    BY <1>1, <1>3, SameMembers
  <2> QED
    BY <1>1, <1>2, <1>3, <2>1 DEF IInv, Members, Fixed, OnlyBootstrap, Joined, BeforeInit
<1>11. ReadyIsTrue'
  BY <1>1, <1>3 DEF IInv, ReadyIsTrue, Fixed
<1> QED
  BY <1>1, <1>4, <1>5, <1>6, <1>7, <1>8, <1>9, <1>10, <1>11 DEF IInv, Fixed

LEMMA JoinWorkersInv ==
  ASSUME IInv, JoinWorkers
  PROVE  IInv'
<1>1. Fixed
  BY FixedIs DEF IInv, JoinWorkers
<1>2. pc = "join_next" /\ todo = {} /\ pc' \in {"join_wait", "wait"}
  BY FollowingIs DEF JoinWorkers
<1>3. UNCHANGED <<cache, todo, conf, runtime, files, member, taints, backends, cni,
                  storage, ready, report>>
  BY DEF JoinWorkers, world
<1>4. Types' /\ Goroutines' /\ Prepared' /\ Working'
  <2> DEFINE workers == SelectNodesByRole(order, Worker)
  <2>1. CASE workers = {}
    <3>1. pc' = "wait" /\ UNCHANGED <<gor, errCh, pending>>
      BY <2>1, ListIs, FollowingIs DEF IInv, JoinWorkers, threads
    <3>2. Types'
      BY <1>1, <1>3, <3>1
         DEF IInv, Types, Fixed, Positions, FromConfig, FromPatch, FromInit,
             OnlyBootstrap, Joined
    <3> QED
      BY <1>1, <1>2, <1>3, <3>1, <3>2, Quiet
         DEF Waits, FromPatch, FromInit, OnlyBootstrap, Joined
  <2>2. CASE workers # {}
    <3>1. Spawn(workers, "join") /\ pc' = "join_wait"
      BY <2>2, ListIs DEF IInv, JoinWorkers
    <3>2. workers = {n \in Internal : n.role = Worker} /\ Internal \subseteq All
      BY NodesAre DEF IInv
    <3> HIDE DEF workers
    <3>3. /\ Counted' /\ errCh' \in Seq({"nil", "error"})
          /\ pending' \in 0..Cardinality(All)
          /\ gor' \in [All -> {"none", "join"}]
          /\ \A n \in All : gor'[n] = IF n \in workers THEN "join" ELSE "none"
      BY <1>1, <1>2, <3>1, <3>2, SpawnCounts DEF Waits
    <3>4. Types'
      BY <1>1, <1>3, <3>1, <3>3
         DEF IInv, Types, Fixed, Positions, FromConfig, FromPatch, FromInit,
             OnlyBootstrap, Joined
    <3>5. Goroutines'
      BY <1>1, <3>1, <3>3 DEF Goroutines, Fixed, Waits
    <3>6. \A n : Fitted(n)' = Fitted(n) /\ Configured(n)' = Configured(n)
      BY <1>1, <1>3 DEF Fitted, Configured, Fixed
    <3>7. Prepared'
      BY <1>1, <1>2, <1>3, <3>1, <3>6
         DEF IInv, Prepared, Fixed, FromPatch, FromInit, OnlyBootstrap, Joined
    <3>8. \A n \in workers : Fitted(n) /\ n.role = Worker
      BY <1>2, <3>2 DEF IInv, Prepared, Fitted, FromPatch, FromInit, ControlPlane, Worker
    <3>9. Working'
      BY <1>1, <3>3, <3>6, <3>8 DEF Working, Fixed
    <3> QED
      BY <3>4, <3>5, <3>7, <3>9
  <2> QED
    BY <2>1, <2>2
<1>5. Checked'
  BY <1>1, <1>2, <1>3
     DEF IInv, Checked, Fixed, FromConfig, FromPatch, FromInit, OnlyBootstrap, Joined
<1>6. Certificates'
  BY <1>1, <1>2, <1>3 DEF IInv, Certificates, Fixed, OnlyBootstrap, Joined
<1>7. Members'
  <2>1. \A n \in All' : member'[n] # "no" => Fitted(n)'
    BY <1>1, <1>3, SameMembers
  <2> QED
    BY <1>1, <1>2, <1>3, <2>1 DEF IInv, Members, Fixed, OnlyBootstrap, Joined, BeforeInit
<1>8. ReadyIsTrue'
  BY <1>1, <1>3 DEF IInv, ReadyIsTrue, Fixed
<1> QED
  BY <1>1, <1>4, <1>5, <1>6, <1>7, <1>8 DEF IInv, Fixed

LEMMA ReceiveConfigInv ==
  ASSUME IInv, ReceiveConfig
  PROVE  IInv'
<1>1. Fixed
  BY FixedIs DEF IInv, ReceiveConfig, Receive
<1>2. pc = "config_wait" /\ Receive(IF cfg.patches THEN "patch" ELSE "init")
  BY FollowingIs DEF ReceiveConfig
<1>3. UNCHANGED <<cache, todo, gor, conf, runtime, files, member, taints, backends, cni,
                  storage, ready, report>>
  BY DEF ReceiveConfig, Receive, world
<1>b. /\ Counted' /\ errCh' \in Seq({"nil", "error"}) /\ pending' \in 0..Cardinality(All)
      /\ \/ pc' = "failed"
         \/ /\ pc' = IF cfg.patches THEN "patch" ELSE "init"
            /\ Busy = {} /\ Busy' = {} /\ errCh' = <<>> /\ ~Failed
         \/ pc' = "config_wait" /\ (Failed => Failed')
  BY <1>1, <1>2, ReceiveCounts DEF Waits
<1>c. \A n : Configured(n)' = Configured(n)
  BY <1>1, <1>3 DEF Configured, Fixed
<1>4. Types'
  BY <1>1, <1>2, <1>3, <1>b
     DEF IInv, Types, Fixed, Positions, BeforeInit, FromConfig, FromPatch, FromInit,
         OnlyBootstrap, Joined
<1>5. Goroutines'
  BY <1>1, <1>2, <1>3, <1>b DEF IInv, Goroutines, Fixed, Waits, Busy
<1>6. Checked'
  BY <1>1, <1>2, <1>3, <1>b
     DEF IInv, Checked, Fixed, FromConfig, FromPatch, FromInit, OnlyBootstrap, Joined
<1>7. Prepared'
  <2>1. \A n \in Internal : n \in All
    BY NodesAre DEF IInv
  <2> QED
    BY <1>1, <1>2, <1>3, <1>b, <1>c, <2>1
       DEF IInv, Prepared, Busy, Fixed, FromPatch, FromInit, OnlyBootstrap, Joined
<1>8. Working'
  <2>1. \A n : Fitted(n)' = Fitted(n)
    BY <1>1, <1>3, SameMembers
  <2> QED
    BY <1>1, <1>3, <2>1 DEF IInv, Working, Fixed
<1>9. Certificates'
  BY <1>1, <1>2, <1>3, <1>b DEF IInv, Certificates, Fixed, OnlyBootstrap, Joined
<1>10. Members'
  <2>1. \A n \in All' : member'[n] # "no" => Fitted(n)'
    BY <1>1, <1>3, SameMembers
  <2> QED
    BY <1>1, <1>2, <1>3, <1>b, <2>1
       DEF IInv, Members, Fixed, OnlyBootstrap, Joined, BeforeInit
<1>11. ReadyIsTrue'
  BY <1>1, <1>3 DEF IInv, ReadyIsTrue, Fixed
<1> QED
  BY <1>1, <1>4, <1>5, <1>6, <1>7, <1>8, <1>9, <1>10, <1>11 DEF IInv, Fixed

LEMMA ReceivePatchedInv ==
  ASSUME IInv, ReceivePatched
  PROVE  IInv'
<1>1. Fixed
  BY FixedIs DEF IInv, ReceivePatched, Receive
<1>2. pc = "patch_wait" /\ Receive("init")
  BY FollowingIs DEF ReceivePatched
<1>3. UNCHANGED <<cache, todo, gor, conf, runtime, files, member, taints, backends, cni,
                  storage, ready, report>>
  BY DEF ReceivePatched, Receive, world
<1>b. /\ Counted' /\ errCh' \in Seq({"nil", "error"}) /\ pending' \in 0..Cardinality(All)
      /\ \/ pc' = "failed"
         \/ pc' = ("init") /\ Busy = {} /\ Busy' = {} /\ errCh' = <<>> /\ ~Failed
         \/ pc' = "patch_wait" /\ (Failed => Failed')
  BY <1>1, <1>2, ReceiveCounts DEF Waits
<1>c. \A n : Configured(n)' = Configured(n)
  BY <1>1, <1>3 DEF Configured, Fixed
<1>4. Types'
  BY <1>1, <1>2, <1>3, <1>b
     DEF IInv, Types, Fixed, Positions, BeforeInit, FromConfig, FromPatch, FromInit,
         OnlyBootstrap, Joined
<1>5. Goroutines'
  BY <1>1, <1>2, <1>3, <1>b DEF IInv, Goroutines, Fixed, Waits, Busy
<1>6. Checked'
  BY <1>1, <1>2, <1>3, <1>b
     DEF IInv, Checked, Fixed, FromConfig, FromPatch, FromInit, OnlyBootstrap, Joined
<1>7. Prepared'
  <2>1. \A n \in Internal : n \in All
    BY NodesAre DEF IInv
  <2> QED
    BY <1>1, <1>2, <1>3, <1>b, <1>c, <2>1
       DEF IInv, Prepared, Busy, Fixed, FromPatch, FromInit, OnlyBootstrap, Joined
<1>8. Working'
  <2>1. \A n : Fitted(n)' = Fitted(n)
    BY <1>1, <1>3, SameMembers
  <2> QED
    BY <1>1, <1>3, <2>1 DEF IInv, Working, Fixed
<1>9. Certificates'
  BY <1>1, <1>2, <1>3, <1>b DEF IInv, Certificates, Fixed, OnlyBootstrap, Joined
<1>10. Members'
  <2>1. \A n \in All' : member'[n] # "no" => Fitted(n)'
    BY <1>1, <1>3, SameMembers
  <2> QED
    BY <1>1, <1>2, <1>3, <1>b, <2>1
       DEF IInv, Members, Fixed, OnlyBootstrap, Joined, BeforeInit
<1>11. ReadyIsTrue'
  BY <1>1, <1>3 DEF IInv, ReadyIsTrue, Fixed
<1> QED
  BY <1>1, <1>4, <1>5, <1>6, <1>7, <1>8, <1>9, <1>10, <1>11 DEF IInv, Fixed

LEMMA ReceiveJoinedInv ==
  ASSUME IInv, ReceiveJoined
  PROVE  IInv'
<1>1. Fixed
  BY FixedIs DEF IInv, ReceiveJoined, Receive
<1>2. pc = "join_wait" /\ Receive("wait")
  BY FollowingIs DEF ReceiveJoined
<1>3. UNCHANGED <<cache, todo, gor, conf, runtime, files, member, taints, backends, cni,
                  storage, ready, report>>
  BY DEF ReceiveJoined, Receive, world
<1>b. /\ Counted' /\ errCh' \in Seq({"nil", "error"}) /\ pending' \in 0..Cardinality(All)
      /\ \/ pc' = "failed"
         \/ pc' = ("wait") /\ Busy = {} /\ Busy' = {} /\ errCh' = <<>> /\ ~Failed
         \/ pc' = "join_wait" /\ (Failed => Failed')
  BY <1>1, <1>2, ReceiveCounts DEF Waits
<1>c. \A n : Configured(n)' = Configured(n)
  BY <1>1, <1>3 DEF Configured, Fixed
<1>4. Types'
  BY <1>1, <1>2, <1>3, <1>b
     DEF IInv, Types, Fixed, Positions, BeforeInit, FromConfig, FromPatch, FromInit,
         OnlyBootstrap, Joined
<1>5. Goroutines'
  BY <1>1, <1>2, <1>3, <1>b DEF IInv, Goroutines, Fixed, Waits, Busy
<1>6. Checked'
  BY <1>1, <1>2, <1>3, <1>b
     DEF IInv, Checked, Fixed, FromConfig, FromPatch, FromInit, OnlyBootstrap, Joined
<1>7. Prepared'
  <2>1. \A n \in Internal : n \in All
    BY NodesAre DEF IInv
  <2> QED
    BY <1>1, <1>2, <1>3, <1>b, <1>c, <2>1
       DEF IInv, Prepared, Busy, Fixed, FromPatch, FromInit, OnlyBootstrap, Joined
<1>8. Working'
  <2>1. \A n : Fitted(n)' = Fitted(n)
    BY <1>1, <1>3, SameMembers
  <2> QED
    BY <1>1, <1>3, <2>1 DEF IInv, Working, Fixed
<1>9. Certificates'
  BY <1>1, <1>2, <1>3, <1>b DEF IInv, Certificates, Fixed, OnlyBootstrap, Joined
<1>10. Members'
  <2>1. \A n \in All' : member'[n] # "no" => Fitted(n)'
    BY <1>1, <1>3, SameMembers
  <2> QED
    BY <1>1, <1>2, <1>3, <1>b, <2>1
       DEF IInv, Members, Fixed, OnlyBootstrap, Joined, BeforeInit
<1>11. ReadyIsTrue'
  BY <1>1, <1>3 DEF IInv, ReadyIsTrue, Fixed
<1> QED
  BY <1>1, <1>4, <1>5, <1>6, <1>7, <1>8, <1>9, <1>10, <1>11 DEF IInv, Fixed

-----------------------------------------------------------------------------
(* The goroutines, and the kubelets.                                       *)
LEMMA WriteKubeadmConfigInv ==
  ASSUME IInv, NEW n \in All, WriteKubeadmConfig(n)
  PROVE  IInv'
<1>1. Fixed
  BY FixedIs DEF IInv, WriteKubeadmConfig, control, Send
<1>2. gor[n] = "kubeadm" /\ pc \in {"config_wait", "failed"} /\ pc' = pc
  BY DEF IInv, Types, Goroutines, Busy, Waits, control, Send, WriteKubeadmConfig
<1>3. UNCHANGED <<cache, todo, pending, runtime, files, member, taints, backends, cni,
                  storage, ready, report>>
  BY DEF WriteKubeadmConfig, control, threads, world, Send
<1>g. /\ gor' = [gor EXCEPT ![n] = "none"] /\ gor'[n] = "none"
      /\ \A m \in All \ {n} : gor'[m] = gor[m]
  BY DEF IInv, Types, WriteKubeadmConfig, Send
<1>s. /\ errCh' \in Seq({"nil", "error"}) /\ (Counted => Counted')
      /\ (Failed \/ "nil" = "error" => Failed') /\ Busy' \subseteq Busy /\ Busy # {}
  BY <1>1, <1>2, SendCounts DEF WriteKubeadmConfig
<1>c. \A m \in All : (Configured(m) => Configured(m)') /\ (Fitted(m) => Fitted(m)')
  <2>1. DOMAIN conf = All /\ conf' = [conf EXCEPT ![n] = KubeadmConfig(n)]
    BY DEF IInv, Types, WriteKubeadmConfig
  <2> QED
    BY <1>1, <1>3, <2>1 DEF Fitted, Configured, Fixed
<1>d. Configured(n)'
  <2>1. Endpoint # NoEndpoint /\ MatchingNode(n) # 0
    BY <1>2 DEF IInv, Working, WriteKubeadmConfig
  <2>2. conf'[n] = KubeadmConfig(n)
    BY DEF IInv, Types, WriteKubeadmConfig
  <2> QED
    BY <1>1, <2>1, <2>2 DEF Configured, Fixed
<1>4. Types'
  BY <1>1, <1>2, <1>3, <1>g, <1>s DEF IInv, Types, Fixed, WriteKubeadmConfig
<1>5. Goroutines'
  BY <1>1, <1>2, <1>g, <1>s DEF IInv, Goroutines, Fixed, Waits
<1>6. Checked'
  BY <1>1, <1>2, <1>3
     DEF IInv, Checked, Fixed, FromConfig, FromPatch, FromInit, OnlyBootstrap, Joined
<1>7. Prepared'
  <2>1. \A m \in Internal : m \in All
    BY NodesAre DEF IInv
  <2> QED
    BY <1>1, <1>2, <1>3, <1>g, <1>s, <1>c, <1>d, <2>1
       DEF IInv, Prepared, Fixed, FromPatch, FromInit, OnlyBootstrap, Joined
<1>8. Working'
  BY <1>1, <1>3, <1>g, <1>c DEF IInv, Working, Fixed
<1>9. Certificates'
  BY <1>1, <1>2, <1>3 DEF IInv, Certificates, Fixed, OnlyBootstrap, Joined
<1>10. Members'
  BY <1>1, <1>2, <1>3, <1>c DEF IInv, Members, Fixed, OnlyBootstrap, Joined, BeforeInit
<1>11. ReadyIsTrue'
  BY <1>1, <1>3 DEF IInv, ReadyIsTrue, Fixed
<1> QED
  BY <1>1, <1>4, <1>5, <1>6, <1>7, <1>8, <1>9, <1>10, <1>11 DEF IInv, Fixed

LEMMA PatchContainerdInv ==
  ASSUME IInv, NEW n \in All, PatchContainerd(n)
  PROVE  IInv'
<1>1. Fixed
  BY FixedIs DEF IInv, PatchContainerd, control
<1>2. gor[n] = "patch" /\ pc \in {"patch_wait", "failed"} /\ pc' = pc /\ member[n] = "no"
  BY DEF IInv, Types, Goroutines, Busy, Waits, control, Send, PatchContainerd, Working
<1>3. UNCHANGED <<cache, todo, errCh, pending, conf, files, member, taints, backends,
                  cni, storage, ready, report>>
  BY DEF PatchContainerd, control, threads, world, Send
<1>g. /\ gor' = [gor EXCEPT ![n] = "restart"] /\ gor'[n] = "restart"
      /\ \A m \in All \ {n} : gor'[m] = gor[m]
  BY DEF IInv, Types, PatchContainerd, Send
<1>s. Busy' = Busy /\ (Counted => Counted') /\ (Failed => Failed') /\ Busy # {}
  <2>1. Busy' = Busy /\ n \in Busy
    BY <1>1, <1>2, <1>g DEF IInv, Types, Busy, Fixed
  <2> QED
    BY <1>3, <2>1 DEF Counted, Failed
<1>c. /\ \A m \in All : Configured(m)' = Configured(m)
      /\ \A m \in All \ {n} : runtime'[m] = runtime[m] /\ Fitted(m)' = Fitted(m)
  BY <1>1, <1>3 DEF IInv, Types, PatchContainerd, Fitted, Configured, Fixed
<1>4. Types'
  BY <1>1, <1>2, <1>3, <1>g, <1>s DEF IInv, Types, Fixed, PatchContainerd
<1>5. Goroutines'
  BY <1>1, <1>2, <1>g, <1>s DEF IInv, Goroutines, Fixed, Waits
<1>6. Checked'
  BY <1>1, <1>2, <1>3
     DEF IInv, Checked, Fixed, FromConfig, FromPatch, FromInit, OnlyBootstrap, Joined
<1>7. Prepared'
  <2>1. \A m \in Internal : m \in All
    BY NodesAre DEF IInv
  <2> QED
    BY <1>1, <1>2, <1>3, <1>g, <1>s, <1>c, <2>1
       DEF IInv, Prepared, Fixed, FromPatch, FromInit, OnlyBootstrap, Joined
<1>8. Working'
  BY <1>1, <1>2, <1>3, <1>g, <1>c DEF IInv, Working, Fixed
<1>9. Certificates'
  BY <1>1, <1>2, <1>3 DEF IInv, Certificates, Fixed, OnlyBootstrap, Joined
<1>10. Members'
  BY <1>1, <1>2, <1>3, <1>c DEF IInv, Members, Fixed, OnlyBootstrap, Joined, BeforeInit
<1>11. ReadyIsTrue'
  BY <1>1, <1>3 DEF IInv, ReadyIsTrue, Fixed
<1> QED
  BY <1>1, <1>4, <1>5, <1>6, <1>7, <1>8, <1>9, <1>10, <1>11 DEF IInv, Fixed

LEMMA RestartContainerdInv ==
  ASSUME IInv, NEW n \in All, RestartContainerd(n)
  PROVE  IInv'
<1>1. Fixed
  BY FixedIs DEF IInv, RestartContainerd, control, Send
<1>2. gor[n] = "restart" /\ pc \in {"patch_wait", "failed"} /\ pc' = pc
  BY DEF IInv, Types, Goroutines, Busy, Waits, control, Send, RestartContainerd
<1>3. UNCHANGED <<cache, todo, pending, conf, files, member, taints, backends, cni,
                  storage, ready, report>>
  BY DEF RestartContainerd, control, threads, world, Send
<1>g. /\ gor' = [gor EXCEPT ![n] = "none"] /\ gor'[n] = "none"
      /\ \A m \in All \ {n} : gor'[m] = gor[m]
  BY DEF IInv, Types, RestartContainerd, Send
<1>s. /\ errCh' \in Seq({"nil", "error"}) /\ (Counted => Counted')
      /\ (Failed \/ "nil" = "error" => Failed') /\ Busy' \subseteq Busy /\ Busy # {}
  BY <1>1, <1>2, SendCounts DEF RestartContainerd
<1>c. /\ \A m \in All : Configured(m)' = Configured(m) /\ (Fitted(m) => Fitted(m)')
      /\ runtime'[n] = "patched" /\ \A m \in All \ {n} : runtime'[m] = runtime[m]
  BY <1>1, <1>3 DEF IInv, Types, RestartContainerd, Fitted, Configured, Fixed
<1>4. Types'
  BY <1>1, <1>2, <1>3, <1>g, <1>s DEF IInv, Types, Fixed, RestartContainerd
<1>5. Goroutines'
  BY <1>1, <1>2, <1>g, <1>s DEF IInv, Goroutines, Fixed, Waits
<1>6. Checked'
  BY <1>1, <1>2, <1>3
     DEF IInv, Checked, Fixed, FromConfig, FromPatch, FromInit, OnlyBootstrap, Joined
<1>7. Prepared'
  <2>1. \A m \in Internal : m \in All
    BY NodesAre DEF IInv
  <2> QED
    BY <1>1, <1>2, <1>3, <1>g, <1>s, <1>c, <2>1
       DEF IInv, Prepared, Fixed, FromPatch, FromInit, OnlyBootstrap, Joined
<1>8. Working'
  BY <1>1, <1>3, <1>g, <1>c DEF IInv, Working, Fixed
<1>9. Certificates'
  BY <1>1, <1>2, <1>3 DEF IInv, Certificates, Fixed, OnlyBootstrap, Joined
<1>10. Members'
  BY <1>1, <1>2, <1>3, <1>c DEF IInv, Members, Fixed, OnlyBootstrap, Joined, BeforeInit
<1>11. ReadyIsTrue'
  BY <1>1, <1>3 DEF IInv, ReadyIsTrue, Fixed
<1> QED
  BY <1>1, <1>4, <1>5, <1>6, <1>7, <1>8, <1>9, <1>10, <1>11 DEF IInv, Fixed

LEMMA GoroutineFailsInv ==
  ASSUME IInv, NEW n \in All, GoroutineFails(n)
  PROVE  IInv'
<1>1. Fixed
  BY FixedIs DEF IInv, GoroutineFails, control, Send
<1>2. gor[n] # "none" /\ pc \in Waits \union {"failed"} /\ pc' = pc
  BY DEF IInv, Types, Goroutines, Busy, Waits, control, Send, GoroutineFails
<1>3. UNCHANGED <<cache, todo, pending, conf, runtime, files, member, taints, backends,
                  cni, storage, ready, report>>
  BY DEF GoroutineFails, control, threads, world, Send
<1>g. /\ gor' = [gor EXCEPT ![n] = "none"] /\ gor'[n] = "none"
      /\ \A m \in All \ {n} : gor'[m] = gor[m]
  BY DEF IInv, Types, GoroutineFails, Send
<1>s. /\ errCh' \in Seq({"nil", "error"}) /\ (Counted => Counted')
      /\ (Failed \/ "error" = "error" => Failed') /\ Busy' \subseteq Busy /\ Busy # {}
  BY <1>1, <1>2, SendCounts DEF GoroutineFails
<1>c. \A m : Configured(m)' = Configured(m) /\ Fitted(m)' = Fitted(m)
  BY <1>1, <1>3 DEF Fitted, Configured, Fixed
<1>4. Types'
  BY <1>1, <1>2, <1>3, <1>g, <1>s DEF IInv, Types, Fixed
<1>5. Goroutines'
  BY <1>1, <1>2, <1>g, <1>s DEF IInv, Goroutines, Fixed, Waits
<1>6. Checked'
  BY <1>1, <1>2, <1>3
     DEF IInv, Checked, Fixed, FromConfig, FromPatch, FromInit, OnlyBootstrap, Joined
<1>7. Prepared'
  BY <1>1, <1>2, <1>3, <1>c, <1>s DEF IInv, Prepared, Fixed
<1>8. Working'
  BY <1>1, <1>3, <1>g, <1>c DEF IInv, Working, Fixed
<1>9. Certificates'
  BY <1>1, <1>2, <1>3 DEF IInv, Certificates, Fixed, OnlyBootstrap, Joined
<1>10. Members'
  BY <1>1, <1>2, <1>3, <1>c DEF IInv, Members, Fixed, OnlyBootstrap, Joined, BeforeInit
<1>11. ReadyIsTrue'
  BY <1>1, <1>3 DEF IInv, ReadyIsTrue, Fixed
<1> QED
  BY <1>1, <1>4, <1>5, <1>6, <1>7, <1>8, <1>9, <1>10, <1>11 DEF IInv, Fixed

LEMMA StartJoinInv ==
  ASSUME IInv, NEW n \in All, StartJoin(n)
  PROVE  IInv'
<1>1. Fixed
  BY FixedIs DEF IInv, StartJoin, control
<1>2. gor[n] = "join" /\ pc \in {"join_wait", "failed"} /\ pc' = pc
  BY DEF IInv, Types, Goroutines, Busy, Waits, control, Send, StartJoin
<1>3. UNCHANGED <<cache, todo, errCh, pending, conf, runtime, files, taints, backends,
                  cni, storage, ready, report>>
  BY DEF StartJoin, control, threads, world, Send
<1>g. /\ gor' = [gor EXCEPT ![n] = "joining"] /\ gor'[n] = "joining"
      /\ \A m \in All \ {n} : gor'[m] = gor[m]
  BY DEF IInv, Types, StartJoin, Send
<1>s. Busy' = Busy /\ (Counted => Counted') /\ (Failed => Failed') /\ Busy # {}
  <2>1. Busy' = Busy /\ n \in Busy
    BY <1>1, <1>2, <1>g DEF IInv, Types, Busy, Fixed
  <2> QED
    BY <1>3, <2>1 DEF Counted, Failed
<1>c. \A m : Configured(m)' = Configured(m) /\ Fitted(m)' = Fitted(m)
  BY <1>1, <1>3 DEF Fitted, Configured, Fixed
<1>d. Fitted(n) /\ n \notin Planes
  BY <1>2, NodesAre DEF IInv, Working, ControlPlane, Worker
<1>e. member'[n] = "joining" /\ \A m \in All \ {n} : member'[m] = member[m]
  BY DEF IInv, Types, StartJoin
<1>4. Types'
  BY <1>1, <1>2, <1>3, <1>g, <1>s DEF IInv, Types, Fixed, StartJoin
<1>5. Goroutines'
  BY <1>1, <1>2, <1>g, <1>s DEF IInv, Goroutines, Fixed, Waits
<1>6. Checked'
  BY <1>1, <1>2, <1>3
     DEF IInv, Checked, Fixed, FromConfig, FromPatch, FromInit, OnlyBootstrap, Joined
<1>7. Prepared'
  <2>1. \A m \in Internal : m \in All
    BY NodesAre DEF IInv
  <2> QED
    BY <1>1, <1>2, <1>3, <1>g, <1>s, <1>c, <2>1
       DEF IInv, Prepared, Fixed, FromPatch, FromInit, OnlyBootstrap, Joined
<1>8. Working'
  BY <1>1, <1>2, <1>3, <1>c, <1>d, <1>e, <1>g DEF IInv, Working, Fixed
<1>9. Certificates'
  BY <1>1, <1>2, <1>3 DEF IInv, Certificates, Fixed, OnlyBootstrap, Joined
<1>10. Members'
  <2>1. \A m \in All : member'[m] # "no" => Fitted(m)'
    BY <1>c, <1>d, <1>e DEF IInv, Members
  <2>2. Planes \subseteq All
    BY NodesAre DEF IInv
  <2> QED
    BY <1>1, <1>2, <1>d, <1>e, <2>1, <2>2
       DEF IInv, Members, Fixed, OnlyBootstrap, Joined, BeforeInit
<1>11. ReadyIsTrue'
  BY <1>1, <1>3 DEF IInv, ReadyIsTrue, Fixed
<1> QED
  BY <1>1, <1>4, <1>5, <1>6, <1>7, <1>8, <1>9, <1>10, <1>11 DEF IInv, Fixed

LEMMA FinishJoinInv ==
  ASSUME IInv, NEW n \in All, FinishJoin(n)
  PROVE  IInv'
<1>1. Fixed
  BY FixedIs DEF IInv, FinishJoin, control, Send
<1>2. gor[n] = "joining" /\ pc \in {"join_wait", "failed"} /\ pc' = pc
  BY DEF IInv, Types, Goroutines, Busy, Waits, control, Send, FinishJoin
<1>3. UNCHANGED <<cache, todo, pending, conf, runtime, files, taints, backends, cni,
                  storage, ready, report>>
  BY DEF FinishJoin, control, threads, world, Send
<1>g. /\ gor' = [gor EXCEPT ![n] = "none"] /\ gor'[n] = "none"
      /\ \A m \in All \ {n} : gor'[m] = gor[m]
  BY DEF IInv, Types, FinishJoin, Send
<1>s. /\ errCh' \in Seq({"nil", "error"}) /\ (Counted => Counted')
      /\ (Failed \/ "nil" = "error" => Failed') /\ Busy' \subseteq Busy /\ Busy # {}
  BY <1>1, <1>2, SendCounts DEF FinishJoin
<1>c. \A m : Configured(m)' = Configured(m) /\ Fitted(m)' = Fitted(m)
  BY <1>1, <1>3 DEF Fitted, Configured, Fixed
<1>d. Fitted(n) /\ n \notin Planes
  BY <1>2, NodesAre DEF IInv, Working, ControlPlane, Worker
<1>e. member'[n] = "yes" /\ \A m \in All \ {n} : member'[m] = member[m]
  BY DEF IInv, Types, FinishJoin
<1>4. Types'
  BY <1>1, <1>2, <1>3, <1>g, <1>s DEF IInv, Types, Fixed, FinishJoin
<1>5. Goroutines'
  BY <1>1, <1>2, <1>g, <1>s DEF IInv, Goroutines, Fixed, Waits
<1>6. Checked'
  BY <1>1, <1>2, <1>3
     DEF IInv, Checked, Fixed, FromConfig, FromPatch, FromInit, OnlyBootstrap, Joined
<1>7. Prepared'
  <2>1. \A m \in Internal : m \in All
    BY NodesAre DEF IInv
  <2> QED
    BY <1>1, <1>2, <1>3, <1>g, <1>s, <1>c, <2>1
       DEF IInv, Prepared, Fixed, FromPatch, FromInit, OnlyBootstrap, Joined
<1>8. Working'
  BY <1>1, <1>2, <1>3, <1>c, <1>d, <1>e, <1>g DEF IInv, Working, Fixed
<1>9. Certificates'
  BY <1>1, <1>2, <1>3 DEF IInv, Certificates, Fixed, OnlyBootstrap, Joined
<1>10. Members'
  <2>1. \A m \in All : member'[m] # "no" => Fitted(m)'
    BY <1>c, <1>d, <1>e DEF IInv, Members
  <2>2. Planes \subseteq All
    BY NodesAre DEF IInv
  <2> QED
    BY <1>1, <1>2, <1>d, <1>e, <2>1, <2>2
       DEF IInv, Members, Fixed, OnlyBootstrap, Joined, BeforeInit
<1>11. ReadyIsTrue'
  BY <1>1, <1>3 DEF IInv, ReadyIsTrue, Fixed
<1> QED
  BY <1>1, <1>4, <1>5, <1>6, <1>7, <1>8, <1>9, <1>10, <1>11 DEF IInv, Fixed

LEMMA BecomesReadyInv ==
  ASSUME IInv, NEW n \in All, BecomesReady(n)
  PROVE  IInv'
<1>1. Fixed
  BY FixedIs DEF IInv, BecomesReady, control
<1>2. UNCHANGED <<pc, cache, todo, gor, errCh, pending, conf, runtime, files, member,
                  taints, backends, cni, storage, report>> /\ ready' = ready \union {n}
  BY DEF BecomesReady, control, threads
<1>3. \A m : Configured(m)' = Configured(m) /\ Fitted(m)' = Fitted(m)
  BY <1>1, <1>2 DEF Fitted, Configured, Fixed
<1>4. Types' /\ ReadyIsTrue'
  BY <1>1, <1>2 DEF IInv, Types, ReadyIsTrue, Fixed
<1>5. Goroutines'
  BY <1>1, <1>2 DEF IInv, Goroutines, Counted, Busy, Fixed
<1>6. Checked' /\ Certificates'
  BY <1>1, <1>2 DEF IInv, Checked, Certificates, Fixed
<1>7. Prepared' /\ Working' /\ Members'
  BY <1>1, <1>2, <1>3 DEF IInv, Prepared, Failed, Working, Members, Fixed
<1> QED
  BY <1>1, <1>4, <1>5, <1>6, <1>7 DEF IInv, Fixed

LEMMA StutterInv ==
  ASSUME IInv, UNCHANGED vars
  PROVE  IInv'
<1>1. UNCHANGED <<cfg, order, pc, cache, todo, gor, errCh, pending, conf, runtime,
                  files, member, taints, backends, cni, storage, ready, report>>
  BY DEF vars, control, threads, world
<1>2. Fixed
  BY <1>1, FixedIs DEF IInv
<1>3. \A m : Configured(m)' = Configured(m) /\ Fitted(m)' = Fitted(m)
  BY <1>1, <1>2 DEF Fitted, Configured, Fixed
<1>4. Types' /\ ReadyIsTrue'
  BY <1>1, <1>2 DEF IInv, Types, ReadyIsTrue, Fixed
<1>5. Goroutines'
  BY <1>1, <1>2 DEF IInv, Goroutines, Counted, Busy, Fixed
<1>6. Checked' /\ Certificates'
  BY <1>1, <1>2 DEF IInv, Checked, Certificates, Fixed
<1>7. Prepared' /\ Working' /\ Members'
  BY <1>1, <1>2, <1>3 DEF IInv, Prepared, Failed, Working, Members, Fixed
<1> QED
  BY <1>2, <1>4, <1>5, <1>6, <1>7 DEF IInv, Fixed

-----------------------------------------------------------------------------
LEMMA InitInv == Init => IInv
<1> SUFFICES ASSUME Init PROVE IInv
  OBVIOUS
<1>1. PICK raw \in RawConfigs : cfg = SetDefaultsCluster(raw)
  BY DEF Init
<1>2. raw \in RawConfig /\ Len(raw.nodes) < 100
  BY RawConfigsAssumption
<1>3. Configuration
  <2>1. /\ raw.nodes \in Seq(Role) /\ raw.family \in Family \union {""} /\ raw.kube \in KubeRelease
        /\ raw.services \in Seq({"4", "6", "bad"})
        /\ DOMAIN raw = {"name", "nodes", "family", "pods", "services", "proxy", "port", "mappings",
                         "disableCNI", "patches", "wait", "kube"}
    BY <1>2 DEF RawConfig
  <2> DEFINE roles == IF raw.nodes = <<>> THEN <<ControlPlane>> ELSE raw.nodes
  <2>2. roles \in Seq(Role) /\ Len(roles) \in 1..99
    <3>1. CASE raw.nodes = <<>>
      <4>1. roles = <<ControlPlane>>
        BY <3>1
      <4>2. ControlPlane \in Role
        BY DEF Role
      <4>3. <<ControlPlane>> \in Seq(Role) /\ Len(<<ControlPlane>>) = 1
        BY <4>2
      <4>4. 1 \in 1..99
        OBVIOUS
      <4> QED
        BY <4>1, <4>3, <4>4, Zenon
    <3>2. CASE raw.nodes # <<>>
      <4> DEFINE s == raw.nodes
      <4>1. roles = s /\ s \in Seq(Role) /\ s # <<>> /\ Len(s) < 100
        BY <1>2, <2>1, <3>2
      <4> HIDE DEF s, roles
      <4>2. Len(s) \in Nat /\ Len(s) # 0
        BY <4>1
      <4>3. Len(s) \in 1..99
        <5>1. \A x \in Nat : x # 0 /\ x < 100 => x \in 1..99
          OBVIOUS
        <5> QED
          BY <4>1, <4>2, <5>1
      <4> QED
        BY <4>1, <4>3
    <3> QED
      BY <3>1, <3>2
  <2>3. /\ cfg.nodes = [i \in DOMAIN roles |-> OrElse(roles[i], ControlPlane)]
        /\ cfg.family = OrElse(raw.family, "ipv4")
        /\ cfg.services = SubnetsOrElse(raw.services, cfg.family)
        /\ cfg.kube = raw.kube
    BY <1>1, <2>1 DEF SetDefaultsCluster
  <2> HIDE DEF roles
  <2>4. cfg.nodes \in Seq(Role) /\ Len(cfg.nodes) \in 1..99
    <3>1. DOMAIN roles = 1..Len(roles) /\ Len(roles) \in Nat
      BY <2>2
    <3>2. \A i \in 1..Len(roles) : OrElse(roles[i], ControlPlane) \in Role
      <4>1. \A i \in 1..Len(roles) : roles[i] \in Role
        BY <2>2
      <4>2. ControlPlane \in Role
        BY DEF Role
      <4> QED
        BY <4>1, <4>2 DEF OrElse
    <3>3. cfg.nodes \in [1..Len(roles) -> Role]
      BY <2>3, <3>1, <3>2
    <3>4. cfg.nodes \in Seq(Role) /\ Len(cfg.nodes) = Len(roles)
      BY <3>1, <3>3
    <3> QED
      BY <2>2, <3>4
  <2>5. cfg.family \in Family
    BY <2>1, <2>3 DEF OrElse, Family
  <2>6. cfg.services \in Seq({"4", "6", "bad"}) /\ cfg.services # <<>>
    <3>1. /\ <<"6">> \in Seq({"4", "6", "bad"}) /\ <<"4">> \in Seq({"4", "6", "bad"})
          /\ <<"4", "6">> \in Seq({"4", "6", "bad"})
          /\ <<"6">> # <<>> /\ <<"4">> # <<>> /\ <<"4", "6">> # <<>>
      OBVIOUS
    <3> QED
      BY <2>1, <2>3, <3>1 DEF SubnetsOrElse
  <2>7. cfg.kube.taints \subseteq {"master", "control-plane"}
    BY <2>1, <2>3 DEF KubeRelease
  <2> QED
    BY <2>4, <2>5, <2>6, <2>7 DEF Configuration, Init
<1>4. Cardinality(All) \in Nat
  BY <1>3, NodesAre
<1>5. Types
  BY <1>4 DEF Init, Types, Positions, BeforeInit
<1>6. Goroutines
  BY DEF Init, Goroutines, Busy, Waits
<1>7. Checked /\ Certificates /\ ReadyIsTrue
  BY
     DEF Init, Checked, Certificates, ReadyIsTrue, FromConfig, FromPatch, FromInit,
         OnlyBootstrap, Joined
<1>8. Prepared /\ Working /\ Members
  <2>1. pc = "validate" /\ \A n \in All : gor[n] = "none" /\ member[n] = "no"
    BY DEF Init
  <2> QED
    BY <2>1 DEF Prepared, Working, Members, FromPatch, FromInit, OnlyBootstrap, Joined
<1> QED
  BY <1>3, <1>5, <1>6, <1>7, <1>8 DEF IInv

LEMMA NextInv == IInv /\ [Next]_vars => IInv'
<1> SUFFICES ASSUME IInv, [Next]_vars PROVE IInv'
  OBVIOUS
<1>1. CASE MainStep
  BY <1>1, ValidateConfigInv, ConfigureLoadBalancerInv, WriteConfigInv, ReceiveConfigInv,
     PatchAllInv, ReceivePatchedInv, KubeadmInitInv, CopyToSecondaryInv, CopyDoneInv,
     RemoveTaintsInv, InstallCNIInv, InstallStorageInv, JoinBeginInv, JoinSecondaryInv,
     JoinWorkersInv, ReceiveJoinedInv, WaitBeginInv, PollInv, WaitTimesOutInv, StepFailsInv
     DEF MainStep
<1>2. ASSUME NEW n \in All, GoroutineStep(n)
      PROVE  IInv'
  BY <1>2, WriteKubeadmConfigInv, PatchContainerdInv, RestartContainerdInv, StartJoinInv,
     FinishJoinInv, GoroutineFailsInv DEF GoroutineStep
<1>3. ASSUME NEW n \in All, BecomesReady(n)
      PROVE  IInv'
  BY <1>3, BecomesReadyInv
<1>4. CASE UNCHANGED vars
  BY <1>4, StutterInv
<1> QED
  BY <1>1, <1>2, <1>3, <1>4 DEF Next

LEMMA InvHolds == Spec => []IInv
<1> QED
  BY InitInv, NextInv, PTL DEF Spec

-----------------------------------------------------------------------------
(* The variables of NodeActions stay within their domains, for every set   *)
(* of configurations: main never waits for more results than nodes.        *)
THEOREM TypeCorrect == Spec => []TypeOK
<1>1. IInv => TypeOK
  BY NodesAre DEF IInv, Types, TypeOK
<1> QED
  BY <1>1, InvHolds, PTL

(***************************************************************************)
(* A node is in the cluster only with its own kubeadm.conf, the patched    *)
(* containerd and, a control plane, all the certificates, for any number   *)
(* of nodes below 100, any order of docker's list and of goroutines, some  *)
(* of which outlive the error main has returned.                           *)
(***************************************************************************)
THEOREM MembersAreProvisioned == Spec => []NodesAreProvisioned
<1>1. ASSUME IInv, NEW n \in All, member[n] # "no"
      PROVE  /\ conf[n].plane = (n.role = ControlPlane)
             /\ conf[n].endpoint # NoEndpoint
             /\ conf[n].endpoint = APIServerEndpointNode(order)
             /\ Head(conf[n].addresses) = Head(cfg.services)
             /\ cfg.patches => runtime[n] = "patched"
             /\ n.role = ControlPlane => files[n] = "all"
  <2>1. Fitted(n) /\ Configuration
    BY <1>1 DEF IInv, Members
  <2>2. Validate(cfg)
    BY <1>1 DEF IInv, Checked, Members, BeforeInit
  <2>3. cfg.nodes[MatchingNode(n)] = n.role
    BY <2>1, Place DEF Fitted, Configured
  <2>4. conf[n] = KubeadmConfig(n) /\ Endpoint # NoEndpoint
    BY <2>1 DEF Fitted, Configured
  <2>5. conf[n].plane = (n.role = ControlPlane)
    BY <2>3, <2>4 DEF KubeadmConfig
  <2>6. conf[n].endpoint = APIServerEndpointNode(order) /\ conf[n].addresses = NodeAddresses
    BY <2>4 DEF KubeadmConfig, ListNodes
  <2>7. Head(conf[n].addresses) = Head(cfg.services)
    BY <2>1, <2>2, <2>6, FirstAddress
  <2> QED
    BY <2>1, <2>4, <2>5, <2>6, <2>7 DEF Fitted, Endpoint
<1>2. IInv => NodesAreProvisioned
  BY <1>1 DEF NodesAreProvisioned
<1> QED
  BY <1>2, InvHolds, PTL

(* The node that kubectl runs on has been initialised, and the endpoint    *)
(* leads to it: it is the node itself, or a load balancer whose backends   *)
(* are all the control planes.                                             *)
THEOREM ServerIsFound == Spec => []KubectlFindsServer
<1>1. ASSUME IInv, pc \in {"cni", "storage", "poll"}
      PROVE  /\ member[Bootstrap] = "yes" /\ files[Bootstrap] = "all"
             /\ \/ Endpoint = Bootstrap
                \/ Endpoint.role = ExternalLoadBalancer /\ Bootstrap \in backends
  <2> DEFINE balancers == SelectNodesByRole(order, ExternalLoadBalancer)
  <2>1. Configuration /\ Bootstrap \in Planes
    BY <1>1, BootstrapIs DEF IInv, Checked
  <2>2. member[Bootstrap] = "yes" /\ files[Bootstrap] = "all"
    BY <1>1, <2>1 DEF IInv, Members, Certificates, OnlyBootstrap, Joined
  <2>3. Endpoint # NoEndpoint
    BY <1>1, <2>1, NodesAre
       DEF IInv, Prepared, Configured, FromPatch, FromInit, OnlyBootstrap, Joined
  <2>4. IsFiniteSet(balancers) /\ \A n \in balancers : n.role = ExternalLoadBalancer
    <3>1. balancers \subseteq All /\ \A n \in balancers : n.role = ExternalLoadBalancer
      BY DEF SelectNodesByRole, All
    <3> QED
      BY <2>1, <3>1, NodesAre, FS_Subset
  <2>5. CASE Cardinality(balancers) = 1
    <3>1. PICK b : balancers = {b}
      BY <2>4, <2>5, FS_Singleton
    <3>2. First(balancers) = b
      BY <3>1 DEF First
    <3>3. Endpoint = b /\ b \in balancers
      BY <2>5, <3>1, <3>2 DEF Endpoint, APIServerEndpointNode
    <3>4. backends = Planes
      BY <1>1, <3>3
         DEF IInv, Checked, FromConfig, FromPatch, FromInit, OnlyBootstrap, Joined
    <3> QED
      BY <2>1, <2>2, <2>4, <3>3, <3>4
  <2>6. CASE Cardinality(balancers) # 1
    <3>1. Endpoint = First(Planes)
      BY <2>3, <2>6 DEF Endpoint, APIServerEndpointNode, Planes
    <3> QED
      BY <2>2, <3>1 DEF Bootstrap
  <2> QED
    BY <2>5, <2>6
<1>2. IInv => KubectlFindsServer
  <2> SUFFICES ASSUME IInv PROVE KubectlFindsServer
    OBVIOUS
  <2>1. Nodes = order
    BY ListIs DEF IInv
  <2> QED
    BY <1>1, <2>1 DEF KubectlFindsServer, Bootstrap, Planes, Endpoint
<1> QED
  BY <1>2, InvHolds, PTL

(* waitforready says Ready only when all control planes are, whatever the  *)
(* labels of the Kubernetes version: those it selects are all of them.     *)
THEOREM ReadyIsSaidTruly == Spec => []ReadyIsTrue
<1>1. IInv => ReadyIsTrue
  BY DEF IInv
<1> QED
  BY <1>1, InvHolds, PTL

=============================================================================
