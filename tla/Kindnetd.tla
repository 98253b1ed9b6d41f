------------------------------ MODULE Kindnetd ------------------------------
(***************************************************************************)
(* kindnetd on one node: the loop that lists the nodes of the cluster and  *)
(* keeps the CNI configuration and the routes to the others' pods, and     *)
(* the agent that keeps the masquerade rules.  kindnetd writes nothing the *)
(* kindnetd of another node reads, so one of them and the node objects     *)
(* are the whole system.                                                   *)
(*                                                                         *)
(* Nodes register, get their pod subnet later, and come back with another  *)
(* address when their container restarts.  A panic ends the process; the   *)
(* kubelet starts it again, without its memory, in the same network        *)
(* namespace.                                                              *)
(***************************************************************************)
EXTENDS Naturals, Sequences, SequencesExt, FiniteSets

CONSTANTS
    Node,        \* names of the nodes, in the order the API lists them
    Host,        \* the node this kindnetd runs on
    IP,          \* addresses of the docker network
    IPFamily,    \* "ipv4", "ipv6" or "dualstack"
    Attempts,    \* bound: tries of a list or of a reconciliation (5 in the code)
    Tolerated,   \* bound: failures in a row the agent tolerates (3 in the code)
    MaxMoves,    \* bound: restarts of containers with a new address
    MaxFails,    \* bound: failing calls of the API, netlink and iptables
    MaxDeletes   \* bound: rules an external program deletes

ASSUME HostAssumption == Node \in Seq(Range(Node)) /\ Host \in Range(Node)

ASSUME IPAssumption == IP # {} /\ "none" \notin IP

ASSUME FamilyAssumption == IPFamily \in {"ipv4", "ipv6", "dualstack"}

ASSUME BoundsAssumption ==
    /\ Attempts \in Nat \ {0} /\ Tolerated \in Nat
    /\ MaxMoves \in Nat /\ MaxFails \in Nat /\ MaxDeletes \in Nat

VARIABLES
    object,      \* node objects of the API: address, pod subnets assigned or not
    pc, tries,
    nodes,       \* what the last list answered
    at,          \* the node of the list that reconcileNodes is at
    left,        \* what it has still to do for that node
    hostIP,      \* HOST_IP of the process
    lastInputs,  \* what cniConfigWriter remembers of its last write
    cniConfig,   \* the CNI configuration in the node
    routes,      \* the routes in the node, to a subnet by a gateway
    agent, errs, \* the masquerade agent and its failures in a row
    chain,       \* KIND-MASQ-AGENT: its rules, or that it does not exist
    jump,        \* does POSTROUTING lead to the chain?
    moves, fails, deletes

api    == <<object, moves>>
daemon == <<pc, tries, nodes, at, left, hostIP, lastInputs>>
host   == <<cniConfig, routes>>
masq   == <<agent, errs, chain, jump, deletes>>
vars   == <<api, daemon, host, masq, fails>>

-----------------------------------------------------------------------------
Nodes == Range(Node)

Absent == [ip |-> "none", cidr |-> FALSE]

NoList == [n \in Nodes |-> Absent]

(* The families of the pod subnets.                                        *)
Families == IF IPFamily = "dualstack" THEN <<"4", "6">>
            ELSE IF IPFamily = "ipv6" THEN <<"6">> ELSE <<"4">>

NoChain == <<"absent">>

Init ==
    /\ hostIP = CHOOSE ip \in IP : TRUE
    /\ object = [n \in Nodes |-> IF n = Host THEN [ip |-> hostIP, cidr |-> FALSE] ELSE Absent]
    /\ pc = "list" /\ tries = 0 /\ nodes = NoList /\ at = 1 /\ left = <<>>
    /\ lastInputs = "none" /\ cniConfig = "none" /\ routes = {}
    /\ agent = 1 /\ errs = 0 /\ chain = NoChain /\ jump = FALSE
    /\ moves = 0 /\ fails = 0 /\ deletes = 0

-----------------------------------------------------------------------------
(* The API.                                                                *)
FreeIPs == IP \ {object[n].ip : n \in Nodes}

Register(n) ==
    /\ object[n] = Absent
    /\ \E ip \in FreeIPs : object' = [object EXCEPT ![n].ip = ip]
    /\ UNCHANGED <<moves, daemon, host, masq, fails>>

AssignPodCIDRs(n) ==
    /\ object[n] # Absent /\ ~object[n].cidr
    /\ object' = [object EXCEPT ![n].cidr = TRUE]
    /\ UNCHANGED <<moves, daemon, host, masq, fails>>

(* The container of another node comes back with another address.          *)
Move(n) ==
    /\ moves < MaxMoves /\ moves' = moves + 1
    /\ n # Host /\ object[n] # Absent
    /\ \E ip \in FreeIPs : object' = [object EXCEPT ![n].ip = ip]
    /\ UNCHANGED <<daemon, host, masq, fails>>

-----------------------------------------------------------------------------
(* The main loop.                                                          *)
Fail == fails < MaxFails /\ fails' = fails + 1

Goto(l) == pc' = l /\ tries' = 0

(* The whole process ends, its agent too.                                  *)
Panic ==
    /\ pc' = "down" /\ tries' = 0 /\ nodes' = NoList /\ at' = 1 /\ left' = <<>>
    /\ lastInputs' = "none"
    /\ agent' = 1 /\ errs' = 0

(* The kubelet starts it with the address the node has now.                *)
Start ==
    /\ pc = "down"
    /\ Goto("list")
    /\ hostIP' = object[Host].ip
    /\ UNCHANGED <<api, nodes, at, left, lastInputs, host, masq, fails>>

(* The subnet of one family: with no PodCIDRs, a single-stack cluster      *)
(* still has the empty PodCIDR, which counts as an IPv4 one.               *)
PodCIDRs(o) ==
    IF o.cidr THEN Families
    ELSE IF IPFamily = "dualstack" THEN <<>> ELSE <<"">>

(* Only the families for which the node has an address are synced: a node  *)
(* of an IPv6 cluster has no IPv4 one.                                     *)
Synced(o) == IF IPFamily = "ipv6" /\ ~o.cidr THEN <<>> ELSE PodCIDRs(o)

(* The configuration for our own node, a route by family to another node.  *)
Items(n, list) ==
    IF list[n] = Absent THEN <<>>
    ELSE IF list[n].ip = hostIP THEN <<"cni">> ELSE Synced(list[n])

(* reconcileNodes begins with the first node of the list.                  *)
Begin(list) == at' = 1 /\ left' = Items(Node[1], list)

ListNodes ==
    /\ pc = "list"
    /\ nodes' = object
    /\ Begin(object)
    /\ Goto("reconcile")
    /\ UNCHANGED <<api, hostIP, lastInputs, host, masq, fails>>

ListFails ==
    /\ pc = "list" /\ Fail
    /\ \/ /\ tries + 1 < Attempts
          /\ tries' = tries + 1
          /\ UNCHANGED <<pc, nodes, at, left, lastInputs, agent, errs>>
       \/ tries + 1 = Attempts /\ Panic
    /\ UNCHANGED <<api, hostIP, host, chain, jump, deletes>>

Current == [node |-> Node[at], o |-> nodes[Node[at]], f |-> Head(left)]

(* A failed reconciliation starts again with the same list.                *)
TryAgain ==
    \/ /\ tries + 1 < Attempts
       /\ tries' = tries + 1
       /\ Begin(nodes)
       /\ UNCHANGED <<pc, nodes, lastInputs, agent, errs>>
    \/ tries + 1 = Attempts /\ Panic

(* cniConfigWriter.Write: nothing to do for the inputs of the last write;  *)
(* else a temporary file, a rename, and the inputs are remembered.         *)
Inputs(o) == IF o.cidr THEN "podCIDR" ELSE "empty"

RememberBeforeRename ==
    /\ pc = "reconcile" /\ left # <<>> /\ Current.f = "cni"
    /\ lastInputs' = Inputs(Current.o)
    /\ \/ cniConfig' = Inputs(Current.o) /\ UNCHANGED <<routes, fails>>
       \/ Fail /\ UNCHANGED host
    /\ left' = Tail(left)
    /\ UNCHANGED <<api, pc, tries, nodes, at, hostIP, masq>>

WriteCNIConfig ==
    /\ pc = "reconcile" /\ left # <<>> /\ Current.f = "cni"
    /\ IF lastInputs = Inputs(Current.o) THEN UNCHANGED <<lastInputs, cniConfig>>
       ELSE lastInputs' = Inputs(Current.o) /\ cniConfig' = Inputs(Current.o)
    /\ left' = Tail(left)
    /\ UNCHANGED <<api, pc, tries, nodes, at, hostIP, routes, masq, fails>>

Route(item) == [dst |-> item.node, family |-> item.f, gw |-> item.o.ip]

WrongRoutes(item) ==
    {r \in routes : r.dst = item.node /\ r.family = item.f /\ r # Route(item)}

AddOnlyIfNone(item) ==
    IF \E r \in routes : r.dst = item.node /\ r.family = item.f THEN routes
    ELSE routes \union {Route(item)}

KeepsOldGateway(item) == routes \union {Route(item)}

(* Routes to the subnet by another gateway go, the wanted one comes.       *)
SyncRoute(item) == (routes \ WrongRoutes(item)) \union {Route(item)}

ReconcileRoute ==
    /\ pc = "reconcile" /\ left # <<>> /\ Current.f \in {"4", "6"}
    /\ routes' = SyncRoute(Current)
    /\ left' = Tail(left)
    /\ UNCHANGED <<api, pc, tries, nodes, at, hostIP, lastInputs, cniConfig, masq, fails>>

(* The empty subnet does not parse.                                        *)
NoSubnet ==
    /\ pc = "reconcile" /\ left # <<>> /\ Current.f = ""
    /\ TryAgain
    /\ UNCHANGED <<api, hostIP, host, chain, jump, deletes, fails>>

(* Write or netlink fail; a route may be deleted and not yet replaced.     *)
ReconcileFails ==
    /\ pc = "reconcile" /\ left # <<>> /\ Current.f # "" /\ Fail
    /\ TryAgain
    /\ routes' \in {routes} \union
          (IF Current.f = "cni" THEN {} ELSE {routes \ WrongRoutes(Current)})
    /\ UNCHANGED <<api, hostIP, cniConfig, chain, jump, deletes>>

NextNode ==
    /\ pc = "reconcile" /\ left = <<>> /\ at < Len(Node)
    /\ at' = at + 1 /\ left' = Items(Node[at'], nodes)
    /\ UNCHANGED <<api, pc, tries, nodes, hostIP, lastInputs, host, masq, fails>>

(* Ten seconds later the loop begins again.                                *)
Sleep ==
    /\ pc = "reconcile" /\ left = <<>> /\ at = Len(Node)
    /\ Goto("list")
    /\ UNCHANGED <<api, nodes, at, left, hostIP, lastInputs, host, masq, fails>>

-----------------------------------------------------------------------------
(* The agent: SyncRules makes the chain, appends what is missing from the  *)
(* rules (RETURN for the pods, MASQUERADE for the rest) and the jump.      *)
MasqueradeFirst == <<"MASQUERADE", "RETURN">>

Rules == <<"RETURN", "MASQUERADE">>

AppendUnique(s, r) == IF r \in Range(s) THEN s ELSE Append(s, r)

SyncRules ==
    /\ pc # "down"
    /\ \/ /\ agent = 1
          /\ chain' = IF chain = NoChain THEN <<>> ELSE chain
          /\ agent' = 2 /\ UNCHANGED <<errs, jump>>
       \/ /\ agent \in {2, 3}
          /\ chain' = AppendUnique(chain, Rules[agent - 1])
          /\ agent' = agent + 1 /\ UNCHANGED <<errs, jump>>
       \/ /\ agent = 4
          /\ jump' = TRUE /\ errs' = 0 /\ agent' = 1
          /\ UNCHANGED chain
    /\ UNCHANGED <<api, daemon, host, deletes, fails>>

(* One failure in a row too many is a panic.                               *)
SyncFails ==
    /\ pc # "down" /\ Fail
    /\ IF errs + 1 > Tolerated THEN Panic
       ELSE /\ errs' = errs + 1 /\ agent' = 1
            /\ UNCHANGED <<pc, tries, nodes, at, left, lastInputs>>
    /\ UNCHANGED <<api, hostIP, host, chain, jump, deletes>>

(* Another program deletes a rule.                                         *)
DeleteRule ==
    /\ deletes < MaxDeletes /\ deletes' = deletes + 1
    /\ chain # NoChain
    /\ \E i \in DOMAIN chain : chain' = RemoveAt(chain, i)
    /\ UNCHANGED <<api, daemon, host, agent, errs, jump, fails>>

-----------------------------------------------------------------------------
Daemon ==
    \/ Start
    \/ ListNodes \/ ListFails
    \/ WriteCNIConfig \/ ReconcileRoute \/ NoSubnet \/ ReconcileFails
    \/ NextNode \/ Sleep

Agent == SyncRules \/ SyncFails

Cluster == \E n \in Nodes : Register(n) \/ AssignPodCIDRs(n)

Next == Daemon \/ Agent \/ Cluster \/ (\E n \in Nodes : Move(n)) \/ DeleteRule

Spec == Init /\ [][Next]_vars

(* The process runs, and every node gets its subnets in the end.           *)
FairSpec == Spec /\ WF_vars(Daemon) /\ WF_vars(SyncRules) /\ WF_vars(Cluster)

-----------------------------------------------------------------------------
(* What cniConfigWriter remembers is what the file holds, through failed   *)
(* writes and panics: a write it skips would have changed nothing.         *)
CacheIsFile == lastInputs # "none" => cniConfig = lastInputs

(* There is never more than one gateway for a subnet, and a route never    *)
(* leads to the node's own subnet.                                         *)
OneGateway ==
    /\ \A r, s \in routes : r.dst = s.dst /\ r.family = s.family => r = s
    /\ \A r \in routes : r.dst # Host

(* masq.go: traffic to pods is returned before the rule that masquerades   *)
(* the rest, which "must be last in chain", as long as no other program    *)
(* deletes a rule: failures and restarts in between do not change that.    *)
MasqueradeLast ==
    deletes = 0 /\ "MASQUERADE" \in Range(chain) =>
        chain = <<"RETURN", "MASQUERADE">>

(* Whatever failed, moved or panicked before, in the end the configuration *)
(* names the node's subnet, every other node is reached by the address it  *)
(* has now, and no masquerade rule is missing.                             *)
Converged ==
    /\ cniConfig = "podCIDR"
    /\ jump /\ Range(Rules) \subseteq Range(chain)
    /\ \A n \in Nodes \ {Host}, f \in Range(Families) :
          [dst |-> n, family |-> f, gw |-> object[n].ip] \in routes

EventuallyConverged == <>[]Converged

=============================================================================
