--------------------------- MODULE KindnetdProofs ---------------------------
(***************************************************************************)
(* Proofs about Kindnetd for any number of nodes and addresses, any IP     *)
(* family and any number of failures, restarts and moves.                  *)
(***************************************************************************)
EXTENDS Kindnetd, SequenceTheorems, TLAPS

(* What the writer of the CNI configuration remembers.                     *)
LEMMA CacheStep == CacheIsFile /\ [Next]_vars => CacheIsFile'
<1> SUFFICES ASSUME CacheIsFile, [Next]_vars PROVE CacheIsFile'
  OBVIOUS
<1>1. CASE WriteCNIConfig
  BY <1>1 DEF WriteCNIConfig, CacheIsFile
<1>2. CASE ListFails \/ NoSubnet \/ ReconcileFails \/ SyncFails
  <2>1. cniConfig' = cniConfig
    BY <1>2 DEF ListFails, NoSubnet, ReconcileFails, SyncFails, host
  <2>2. lastInputs' = lastInputs \/ lastInputs' = "none"
    BY <1>2 DEF ListFails, NoSubnet, ReconcileFails, SyncFails, TryAgain, Panic
  <2> QED
    BY <2>1, <2>2 DEF CacheIsFile
<1>3. CASE Start \/ ListNodes \/ ReconcileRoute \/ NextNode \/ Sleep
  BY <1>3 DEF Start, ListNodes, ReconcileRoute, NextNode, Sleep, host, CacheIsFile
<1>4. CASE SyncRules \/ Cluster \/ (\E n \in Nodes : Move(n)) \/ DeleteRule \/ UNCHANGED vars
  BY <1>4 DEF SyncRules, Cluster, Register, AssignPodCIDRs, Move, DeleteRule, vars, daemon,
     host, CacheIsFile
<1> QED
  BY <1>1, <1>2, <1>3, <1>4 DEF Next, Daemon, Agent

(***************************************************************************)
(* Whatever fails or panics, what cniConfigWriter remembers is what the    *)
(* file holds, so the write that it skips would change nothing.            *)
(***************************************************************************)
THEOREM CacheAgrees == Spec => []CacheIsFile
<1>1. Init => CacheIsFile
  BY DEF Init, CacheIsFile
<1> QED
  BY <1>1, CacheStep, PTL DEF Spec

-----------------------------------------------------------------------------
(* The node's own object never gets another address, so the process knows  *)
(* its own node in every list, old or new.                                 *)
Object == [ip : IP \union {"none"}, cidr : BOOLEAN]

OwnNode ==
    /\ object \in [Nodes -> Object] /\ nodes \in [Nodes -> Object]
    /\ hostIP \in IP /\ object[Host].ip = hostIP
    /\ nodes = NoList \/ nodes[Host].ip = hostIP
    /\ at \in DOMAIN Node
    /\ nodes = NoList => left = <<>> /\ pc # "reconcile"

(* No route to the node's own subnet is among the things to do.            *)
OwnWork ==
    /\ left \in Seq({"cni", "", "4", "6"})
    /\ Node[at] = Host => \A i \in DOMAIN left : left[i] = "cni"

Gateways == OwnNode /\ OwnWork /\ OneGateway

LEMMA FirstNode == 1 \in DOMAIN Node /\ Host \in Nodes /\ \A i \in DOMAIN Node : Node[i] \in Nodes
<1>1. Node \in Seq(Range(Node)) /\ Host \in Range(Node)
  BY HostAssumption
<1>2. PICK i \in DOMAIN Node : Node[i] = Host
  BY <1>1 DEF Range
<1> QED
  BY <1>1, <1>2 DEF Nodes

(* What is to be done for a node of a list.                                *)
LEMMA ItemsOf ==
    ASSUME NEW list \in [Nodes -> Object], NEW n \in Nodes,
           hostIP \in IP, list[Host].ip = hostIP
    PROVE  /\ Items(n, list) \in Seq({"cni", "", "4", "6"})
           /\ n = Host => \A i \in DOMAIN Items(n, list) : Items(n, list)[i] = "cni"
<1> DEFINE S == {"cni", "", "4", "6"}
<1>1. /\ <<"4">> \in Seq(S) /\ <<"6">> \in Seq(S) /\ <<"">> \in Seq(S) /\ <<"cni">> \in Seq(S)
      /\ <<"4", "6">> \in Seq(S) /\ <<>> \in Seq(S)
  OBVIOUS
<1> HIDE DEF S
<1>2. Families \in Seq(S)
  <2>1. Families = <<"4", "6">> \/ Families = <<"6">> \/ Families = <<"4">>
    BY Zenon DEF Families
  <2> QED
    BY <1>1, <2>1
<1>3. \A o : Synced(o) \in Seq(S)
  <2>1. ASSUME NEW o PROVE Synced(o) = <<>> \/ Synced(o) = Families \/ Synced(o) = <<"">>
    BY Zenon DEF Synced, PodCIDRs
  <2> QED
    BY <1>1, <1>2, <2>1
<1>4. Items(n, list) \in Seq(S)
  <2>1. \/ Items(n, list) = <<>> \/ Items(n, list) = <<"cni">>
        \/ Items(n, list) = Synced(list[n])
    BY Zenon DEF Items
  <2> QED
    BY <1>1, <1>3, <2>1
<1>5. ASSUME n = Host PROVE Items(n, list) = <<"cni">>
  <2>1. list[n].ip = hostIP /\ list[n] # Absent
    BY <1>5, IPAssumption DEF Absent
  <2> QED
    BY <2>1, Zenon DEF Items
<1>6. <<"cni">>[1] = "cni" /\ DOMAIN <<"cni">> = {1}
  OBVIOUS
<1> QED
  BY <1>4, <1>5, <1>6 DEF S

LEMMA InitGateways == Init => Gateways
<1> SUFFICES ASSUME Init PROVE Gateways
  OBVIOUS
<1>1. hostIP \in IP /\ Host \in Nodes /\ 1 \in DOMAIN Node
  BY FirstNode, IPAssumption DEF Init
<1>2. Absent \in Object /\ [ip |-> hostIP, cidr |-> FALSE] \in Object
  BY <1>1 DEF Absent, Object
<1>3. /\ object = [n \in Nodes |-> IF n = Host THEN [ip |-> hostIP, cidr |-> FALSE] ELSE Absent]
      /\ nodes = NoList /\ at = 1 /\ left = <<>> /\ pc = "list" /\ routes = {}
  BY DEF Init
<1>4. OwnNode
  BY <1>1, <1>2, <1>3 DEF OwnNode, NoList
<1>5. OwnWork
  BY <1>3 DEF OwnWork
<1> QED
  BY <1>3, <1>4, <1>5 DEF Gateways, OneGateway

(* reconcileNodes at the beginning of a list, and after a panic.           *)
LEMMA Begins ==
    ASSUME NEW list \in [Nodes -> Object], hostIP \in IP, list[Host].ip = hostIP, Begin(list)
    PROVE  OwnWork' /\ at' \in DOMAIN Node
<1>1. at' = 1 /\ left' = Items(Node[1], list)
  BY DEF Begin
<1>2. 1 \in DOMAIN Node /\ Node[1] \in Nodes
  BY FirstNode
<1> QED
  BY <1>1, <1>2, ItemsOf DEF OwnWork

LEMMA Panics ==
    ASSUME Gateways, Panic, UNCHANGED <<object, hostIP>>
    PROVE  OwnNode' /\ OwnWork'
<1>1. nodes' = NoList /\ at' = 1 /\ left' = <<>> /\ pc' = "down"
  BY DEF Panic
<1>2. NoList \in [Nodes -> Object]
  BY DEF NoList, Absent, Object
<1>3. OwnNode'
  BY <1>1, <1>2, FirstNode DEF Gateways, OwnNode, NoList
<1>4. OwnWork'
  BY <1>1 DEF OwnWork
<1> QED
  BY <1>3, <1>4

LEMMA TriesAgain ==
    ASSUME Gateways, TryAgain, pc = "reconcile", UNCHANGED <<object, hostIP>>
    PROVE  OwnNode' /\ OwnWork'
<1>1. CASE Panic
  BY <1>1, Panics
<1>2. CASE Begin(nodes) /\ UNCHANGED <<pc, nodes>>
  <2>1. nodes \in [Nodes -> Object] /\ hostIP \in IP /\ nodes[Host].ip = hostIP
    BY DEF Gateways, OwnNode
  <2>2. OwnWork' /\ at' \in DOMAIN Node
    BY <1>2, <2>1, Begins
  <2> QED
    BY <1>2, <2>1, <2>2 DEF Gateways, OwnNode, NoList
<1> QED
  BY <1>1, <1>2 DEF TryAgain

LEMMA GatewaysStep == Gateways /\ [Next]_vars => Gateways'
<1> SUFFICES ASSUME Gateways, [Next]_vars PROVE Gateways'
  OBVIOUS
<1>0. OwnNode /\ OwnWork /\ OneGateway
  BY DEF Gateways
<1>a. ASSUME UNCHANGED <<pc, nodes, at, left, hostIP, routes>>,
             object' \in [Nodes -> Object], object'[Host].ip = object[Host].ip
      PROVE  Gateways'
  <2>1. OwnNode'
    BY <1>0, <1>a DEF OwnNode
  <2>2. OwnWork' /\ OneGateway'
    BY <1>0, <1>a DEF OwnWork, OneGateway
  <2> QED
    BY <2>1, <2>2 DEF Gateways
<1>1. CASE SyncRules \/ DeleteRule \/ UNCHANGED vars
  BY <1>0, <1>1, <1>a DEF SyncRules, DeleteRule, vars, api, daemon, host, OwnNode
<1>2. ASSUME NEW n \in Nodes, Register(n) \/ AssignPodCIDRs(n) \/ Move(n) PROVE Gateways'
  <2>1. UNCHANGED <<pc, nodes, at, left, hostIP, routes>>
    BY <1>2 DEF Register, AssignPodCIDRs, Move, daemon, host
  <2>2. object[Host] # Absent
    BY <1>0, IPAssumption DEF OwnNode, Absent
  <2>3. CASE AssignPodCIDRs(n)
    BY <1>0, <1>a, <2>1, <2>3, FirstNode DEF AssignPodCIDRs, OwnNode, Object
  <2>4. CASE Register(n) \/ Move(n)
    <3>1. n # Host
      BY <1>2, <2>2, <2>4 DEF Register, Move
    <3>2. PICK ip \in IP : object' = [object EXCEPT ![n].ip = ip]
      BY <2>4 DEF Register, Move, FreeIPs
    <3> QED
      BY <1>0, <1>a, <2>1, <3>1, <3>2, FirstNode DEF OwnNode, Object
  <2> QED
    BY <1>2, <2>3, <2>4
<1>3. CASE Start
  <2>1. /\ hostIP' = hostIP /\ pc' = "list"
        /\ UNCHANGED <<object, nodes, at, left, routes>>
    BY <1>0, <1>3 DEF Start, OwnNode, api, host, Goto
  <2> QED
    BY <1>0, <2>1 DEF Gateways, OwnNode, OwnWork, OneGateway
<1>4. CASE ListNodes
  <2>1. /\ nodes' = object /\ Begin(object) /\ pc' = "reconcile"
        /\ UNCHANGED <<object, hostIP, routes>>
    BY <1>4 DEF ListNodes, Goto, api, host
  <2>2. object \in [Nodes -> Object] /\ hostIP \in IP /\ object[Host].ip = hostIP
    BY <1>0 DEF OwnNode
  <2>3. OwnWork' /\ at' \in DOMAIN Node
    BY <2>1, <2>2, Begins
  <2>4. object # NoList
    BY <2>2, FirstNode, IPAssumption DEF NoList, Absent
  <2>5. OwnNode'
    BY <2>1, <2>2, <2>3, <2>4 DEF OwnNode
  <2> QED
    BY <1>0, <2>1, <2>3, <2>5 DEF Gateways, OneGateway
<1>5. CASE ListFails
  <2>1. UNCHANGED <<object, hostIP, routes>>
    BY <1>5 DEF ListFails, api, host
  <2>2. CASE Panic
    BY <1>0, <2>1, <2>2, Panics DEF Gateways, OneGateway
  <2>3. CASE UNCHANGED <<pc, nodes, at, left>>
    BY <1>0, <1>a, <2>1, <2>3 DEF OwnNode
  <2> QED
    BY <1>5, <2>2, <2>3 DEF ListFails
<1>6. CASE WriteCNIConfig \/ ReconcileRoute
  <2>1. left # <<>> /\ left' = Tail(left) /\ UNCHANGED <<object, pc, nodes, at, hostIP>>
    BY <1>6 DEF WriteCNIConfig, ReconcileRoute, api
  <2>2. OwnNode'
    BY <1>0, <1>6, <2>1 DEF OwnNode, WriteCNIConfig, ReconcileRoute
  <2> DEFINE S == {"cni", "", "4", "6"}
  <2>a. left \in Seq(S)
    BY <1>0 DEF OwnWork
  <2>b. /\ 1 \in DOMAIN left /\ left[1] = Head(left) /\ Tail(left) \in Seq(S)
        /\ \A i \in DOMAIN Tail(left) : i + 1 \in DOMAIN left /\ Tail(left)[i] = left[i + 1]
    <3> HIDE DEF S
    <3> QED
      BY <2>1, <2>a
  <2>3. OwnWork'
    BY <1>0, <2>1, <2>b DEF OwnWork
  <2>4. CASE WriteCNIConfig
    BY <1>0, <2>2, <2>3, <2>4 DEF WriteCNIConfig, Gateways, OneGateway
  <2>5. CASE ReconcileRoute
    <3>1. Node[at] # Host
      <4>1. left[1] # "cni"
        BY <2>5, <2>b DEF ReconcileRoute, Current
      <4> QED
        BY <1>0, <2>b, <4>1 DEF OwnWork
    <3> DEFINE item == Current
               r0 == Route(item)
    <3>2. r0.dst = Node[at] /\ r0.dst = item.node /\ r0.family = item.f
      BY DEF Route, Current
    <3>3. routes' = (routes \ WrongRoutes(item)) \union {r0}
      BY <2>5 DEF ReconcileRoute, SyncRoute
    <3> HIDE DEF item, r0
    <3>4. \A r \in routes' : r \in routes \/ r = r0
      BY <3>3
    <3>5. \A r \in routes' : r.dst = r0.dst /\ r.family = r0.family => r = r0
      BY <3>2, <3>3 DEF WrongRoutes, r0
    <3>6. \A r, s \in routes' : r.dst = s.dst /\ r.family = s.family => r = s
      BY <1>0, <3>4, <3>5 DEF OneGateway
    <3>7. \A r \in routes' : r.dst # Host
      BY <1>0, <3>1, <3>2, <3>4 DEF OneGateway
    <3> QED
      BY <2>2, <2>3, <3>6, <3>7 DEF Gateways, OneGateway
  <2> QED
    BY <1>6, <2>4, <2>5
<1>7. CASE NoSubnet \/ ReconcileFails
  <2>1. TryAgain /\ pc = "reconcile" /\ UNCHANGED <<object, hostIP>>
    BY <1>7 DEF NoSubnet, ReconcileFails, api
  <2>2. routes' \subseteq routes
    BY <1>7 DEF NoSubnet, ReconcileFails, host
  <2>3. OneGateway'
    BY <1>0, <2>2 DEF OneGateway
  <2> QED
    BY <2>1, <2>3, TriesAgain DEF Gateways
<1>8. CASE NextNode
  <2>1. /\ at < Len(Node) /\ at' = at + 1 /\ left' = Items(Node[at'], nodes) /\ pc = "reconcile"
        /\ UNCHANGED <<object, pc, nodes, hostIP, routes>>
    BY <1>8 DEF NextNode, api, host
  <2>2. at' \in DOMAIN Node /\ Node[at'] \in Nodes
    BY <1>0, <2>1, HostAssumption, FirstNode DEF OwnNode
  <2>3. nodes \in [Nodes -> Object] /\ hostIP \in IP /\ nodes[Host].ip = hostIP
    BY <1>0, <2>1 DEF OwnNode
  <2>4. OwnWork'
    BY <2>1, <2>2, <2>3, ItemsOf DEF OwnWork
  <2>5. OwnNode'
    BY <1>0, <2>1, <2>2 DEF OwnNode
  <2> QED
    BY <1>0, <2>1, <2>4, <2>5 DEF Gateways, OneGateway
<1>9. CASE Sleep
  <2>1. pc' = "list" /\ UNCHANGED <<object, nodes, at, left, hostIP, routes>>
    BY <1>9 DEF Sleep, Goto, api, host
  <2> QED
    BY <1>0, <2>1 DEF Gateways, OwnNode, OwnWork, OneGateway
<1>10. CASE SyncFails
  <2>1. UNCHANGED <<object, hostIP, routes>>
    BY <1>10 DEF SyncFails, api, host
  <2>2. CASE Panic
    BY <1>0, <2>1, <2>2, Panics DEF Gateways, OneGateway
  <2>3. CASE UNCHANGED <<pc, nodes, at, left>>
    BY <1>0, <1>a, <2>1, <2>3 DEF OwnNode
  <2> QED
    BY <1>10, <2>2, <2>3 DEF SyncFails
<1> QED
  BY <1>1, <1>2, <1>3, <1>4, <1>5, <1>6, <1>7, <1>8, <1>9, <1>10 DEF Next, Daemon, Agent, Cluster

(***************************************************************************)
(* For any number of nodes, through failed netlink calls, restarts of      *)
(* kindnetd and nodes that come back with another address: a subnet has at *)
(* most one gateway, and the node's own subnet has none.                   *)
(***************************************************************************)
THEOREM RoutesAreUnique == Spec => []OneGateway
<1>1. Spec => []Gateways
  BY InitGateways, GatewaysStep, PTL DEF Spec
<1> QED
  BY <1>1, PTL DEF Gateways

-----------------------------------------------------------------------------
(* How far the agent has come in its round.                                *)
ChainBuilt ==
    /\ agent \in 1..4 /\ deletes \in Nat
    /\ deletes = 0 =>
          /\ chain \in {NoChain, <<>>, <<"RETURN">>, <<"RETURN", "MASQUERADE">>}
          /\ agent > 1 => chain # NoChain
          /\ agent > 2 => chain # <<>>

LEMMA Appending ==
    /\ AppendUnique(<<>>, "RETURN") = <<"RETURN">>
    /\ AppendUnique(<<"RETURN">>, "RETURN") = <<"RETURN">>
    /\ AppendUnique(<<"RETURN", "MASQUERADE">>, "RETURN") = <<"RETURN", "MASQUERADE">>
    /\ AppendUnique(<<"RETURN">>, "MASQUERADE") = <<"RETURN", "MASQUERADE">>
    /\ AppendUnique(<<"RETURN", "MASQUERADE">>, "MASQUERADE") = <<"RETURN", "MASQUERADE">>
<1>1. /\ Range(<<>>) = {} /\ Range(<<"RETURN">>) = {"RETURN"}
      /\ Range(<<"RETURN", "MASQUERADE">>) = {"RETURN", "MASQUERADE"}
  BY DEF Range
<1>2. ASSUME NEW r PROVE Append(<<>>, r) = <<r>>
  <2>1. <<>> \in Seq({r}) /\ Len(<<>>) = 0
    OBVIOUS
  <2>2. Append(<<>>, r) \in Seq({r}) /\ Len(Append(<<>>, r)) = 1 /\ Append(<<>>, r)[1] = r
    BY <2>1
  <2> QED
    BY <2>2
<1>3. ASSUME NEW r, NEW q PROVE Append(<<r>>, q) = <<r, q>>
  <2>1. <<r>> \in Seq({r, q}) /\ Len(<<r>>) = 1 /\ <<r>>[1] = r
    OBVIOUS
  <2>2. /\ Append(<<r>>, q) \in Seq({r, q}) /\ Len(Append(<<r>>, q)) = 2
        /\ Append(<<r>>, q)[1] = r /\ Append(<<r>>, q)[2] = q
    BY <2>1
  <2>3. <<r, q>> \in Seq({r, q}) /\ Len(<<r, q>>) = 2 /\ <<r, q>>[1] = r /\ <<r, q>>[2] = q
    OBVIOUS
  <2>4. \A i \in 1..2 : i = 1 \/ i = 2
    OBVIOUS
  <2> QED
    BY <2>2, <2>3, <2>4, SeqEqual
<1> QED
  BY <1>1, <1>2, <1>3 DEF AppendUnique

LEMMA ChainStep == ChainBuilt /\ [Next]_vars => ChainBuilt'
<1> SUFFICES ASSUME ChainBuilt, [Next]_vars PROVE ChainBuilt'
  OBVIOUS
<1>0. Rules[1] = "RETURN" /\ Rules[2] = "MASQUERADE"
  BY DEF Rules
<1>e. <<>> # NoChain /\ <<"RETURN">> # NoChain /\ <<"RETURN", "MASQUERADE">> # NoChain
      /\ <<"RETURN">> # <<>> /\ <<"RETURN", "MASQUERADE">> # <<>>
  BY DEF NoChain
<1>a. ASSUME UNCHANGED <<chain, deletes>>, agent' \in {1, agent} PROVE ChainBuilt'
  BY <1>a DEF ChainBuilt
<1>1. CASE SyncRules
  <2>1. deletes' = deletes
    BY <1>1 DEF SyncRules
  <2>2. CASE agent = 1 /\ agent' = 2 /\ chain' = IF chain = NoChain THEN <<>> ELSE chain
    BY <1>e, <2>1, <2>2 DEF ChainBuilt
  <2>3. CASE agent = 2 /\ agent' = 3 /\ chain' = AppendUnique(chain, "RETURN")
    BY <1>e, <2>1, <2>3, Appending DEF ChainBuilt
  <2>4. CASE agent = 3 /\ agent' = 4 /\ chain' = AppendUnique(chain, "MASQUERADE")
    BY <1>e, <2>1, <2>4, Appending DEF ChainBuilt
  <2>5. CASE agent' = 1 /\ UNCHANGED chain
    BY <1>a, <2>1, <2>5
  <2> QED
    BY <1>0, <1>1, <2>2, <2>3, <2>4, <2>5 DEF SyncRules
<1>2. CASE DeleteRule
  BY <1>2 DEF DeleteRule, ChainBuilt
<1>3. CASE Daemon \/ SyncFails
  <2>1. UNCHANGED <<chain, deletes>>
    BY <1>3 DEF Daemon, Start, ListNodes, ListFails, WriteCNIConfig, ReconcileRoute,
       NoSubnet, ReconcileFails, NextNode, Sleep, SyncFails, masq
  <2>2. agent' \in {1, agent}
    BY <1>3 DEF Daemon, Start, ListNodes, ListFails, WriteCNIConfig, ReconcileRoute,
       NoSubnet, ReconcileFails, NextNode, Sleep, SyncFails, TryAgain, Panic, masq
  <2> QED
    BY <1>a, <2>1, <2>2
<1>4. CASE Cluster \/ (\E n \in Nodes : Move(n)) \/ UNCHANGED vars
  BY <1>a, <1>4 DEF Cluster, Register, AssignPodCIDRs, Move, vars, masq
<1> QED
  BY <1>1, <1>2, <1>3, <1>4 DEF Next, Agent

(***************************************************************************)
(* Whatever fails and however often kindnetd restarts in the middle of a   *)
(* round, the rule that masquerades comes after the one for the pods, as   *)
(* long as no other program deletes a rule.                                *)
(***************************************************************************)
THEOREM PodsReturnFirst == Spec => []MasqueradeLast
<1>1. Init => ChainBuilt
  BY DEF Init, ChainBuilt
<1>2. ChainBuilt => MasqueradeLast
  <2> SUFFICES ASSUME ChainBuilt, deletes = 0, "MASQUERADE" \in Range(chain)
               PROVE  chain = <<"RETURN", "MASQUERADE">>
    BY DEF MasqueradeLast
  <2>1. PICK i \in DOMAIN chain : chain[i] = "MASQUERADE"
    BY DEF Range
  <2>2. chain # <<"absent">>
    BY <2>1
  <2>3. chain # <<>>
    BY <2>1
  <2>4. chain # <<"RETURN">>
    BY <2>1
  <2> QED
    BY <2>2, <2>3, <2>4 DEF ChainBuilt, NoChain
<1> QED
  BY <1>1, <1>2, ChainStep, PTL DEF Spec

=============================================================================
