---------------------------- MODULE DockerNetwork ----------------------------
(***************************************************************************)
(* ensureNetwork of the docker provider                                    *)
(* (pkg/cluster/internal/providers/docker/network.go): processes of kind   *)
(* that create clusters at the same time make sure that there is one       *)
(* docker network named "kind".  Docker lets two networks have one name    *)
(* when two creations race, so each process removes what is double, by an  *)
(* order all of them should agree on.                                      *)
(***************************************************************************)
EXTENDS Naturals, SequencesExt, FiniteSets

CONSTANTS
    Proc,          \* processes of kind, each calls ensureNetwork once
    Others,        \* sets of subnets networks of other names may occupy at first
    MaxContainers, \* bound: containers attached to the networks
    MaxReleases    \* bound: other networks removed

ASSUME ProcAssumption == IsFiniteSet(Proc)

ASSUME BoundsAssumption == MaxContainers \in Nat /\ MaxReleases \in Nat

VARIABLES
    nets,      \* networks named "kind": id, subnet, attached containers
    used,      \* ids docker has given out
    taken,     \* subnets other networks occupy
    ipv6,      \* can docker create IPv6 networks on this machine?
    pc,        \* where each process is in ensureNetwork
    from,      \* who called removeDuplicateNetworks
    attempt,   \* the probing attempt, which determines the subnet
    auto,      \* is the network to be created IPv4 only?
    ids,       \* what networksWithName returned
    sorted,    \* the network to keep, then those to remove
    attached,  \* containers attached so far
    released   \* other networks removed so far

docker == <<nets, used, taken, ipv6, attached, released>>
locals == <<from, attempt, auto, ids, sorted>>
vars   == <<docker, pc, locals>>

-----------------------------------------------------------------------------
MaxAttempts == 5

(* generateULASubnetFromName: the subnet depends on the attempt alone, as  *)
(* all processes use the same name.                                        *)
Subnet == 0..(MaxAttempts - 1)

ASSUME OthersAssumption == Others \subseteq SUBSET Subnet

AutoSubnet == MaxAttempts

Id == 1..Cardinality(Proc)

Net == [id : Id, subnet : Subnet \union {AutoSubnet}, n : 0..MaxContainers]

Labels == {"list", "inspect", "rm", "create", "alloc", "exists", "ok", "err"}

Ended == {"ok", "err"}

TypeOK ==
    /\ nets \in SUBSET Net
    /\ used \in SUBSET Id
    /\ taken \in SUBSET Subnet
    /\ ipv6 \in BOOLEAN
    /\ pc \in [Proc -> Labels]
    /\ from \in [Proc -> {"start", "created"}]
    /\ attempt \in [Proc -> Subnet]
    /\ auto \in [Proc -> BOOLEAN]
    /\ ids \in [Proc -> SUBSET Id]
    /\ \A p \in Proc : Len(sorted[p]) <= Cardinality(Id) /\ ToSet(sorted[p]) \subseteq Net
    /\ attached \in 0..MaxContainers /\ released \in 0..MaxReleases

Init ==
    /\ nets = {} /\ used = {} /\ attached = 0 /\ released = 0
    /\ taken \in Others
    /\ ipv6 \in BOOLEAN
    /\ pc = [p \in Proc |-> "list"]
    /\ from = [p \in Proc |-> "start"]
    /\ attempt = [p \in Proc |-> 0]
    /\ auto = [p \in Proc |-> FALSE]
    /\ ids = [p \in Proc |-> {}]
    /\ sorted = [p \in Proc |-> <<>>]

Goto(p, l) == pc' = [pc EXCEPT ![p] = l]

-----------------------------------------------------------------------------
(***************************************************************************)
(* sortNetworkInspectEntries: sort.Slice, which is an insertion sort for   *)
(* so few entries: an entry moves to the left past every neighbour it is   *)
(* Less than.                                                              *)
(***************************************************************************)
NeverLess(x, y) == FALSE

Less(x, y) == x.n > y.n \/ x.id < y.id

InsertSorted(s, x) ==
    LET stops == {k \in DOMAIN s : ~Less(x, s[k])}
        last  == IF stops = {} THEN 0 ELSE CHOOSE k \in stops : \A j \in stops : j <= k
    IN  InsertAt(s, last + 1, x)

SortNetworkInspectEntries(s) ==
    LET sort[k \in 0..Len(s)] == IF k = 0 THEN <<>> ELSE InsertSorted(sort[k - 1], s[k])
    IN  sort[Len(s)]

-----------------------------------------------------------------------------
(* removeDuplicateNetworks returns.  Its first caller goes on to create    *)
(* the network if there was none, createNetworkNoDuplicates is done.       *)
RemoveReturns(p, found) ==
    Goto(p, IF from[p] = "start" /\ ~found THEN "create" ELSE "ok")

(* networksWithName; fewer than two need no sorting.                       *)
NetworksWithName(p) ==
    /\ pc[p] = "list"
    /\ IF Cardinality(nets) < 2
       THEN RemoveReturns(p, nets # {}) /\ UNCHANGED ids
       ELSE Goto(p, "inspect") /\ ids' = [ids EXCEPT ![p] = {x.id : x \in nets}]
    /\ UNCHANGED <<docker, from, attempt, auto, sorted>>

(* inspectNetworks leaves out those that have gone; docker lists them in   *)
(* any order.                                                              *)
InspectNetworks(p) ==
    /\ pc[p] = "inspect"
    /\ \E s \in SetToSeqs({x \in nets : x.id \in ids[p]}) :
          /\ sorted' = [sorted EXCEPT ![p] = SortNetworkInspectEntries(s)]
          /\ IF Len(s) > 1 THEN Goto(p, "rm") ELSE RemoveReturns(p, Len(s) > 0)
    /\ ids' = [ids EXCEPT ![p] = {}]
    /\ UNCHANGED <<docker, from, attempt, auto>>

(* deleteNetworks: `docker network rm` of all but the first, one by one.   *)
(* Docker refuses a network with containers; isOnlyErrorNoSuchNetwork lets *)
(* that pass as it does a network that has gone.                           *)
DeleteNetworks(p) ==
    /\ pc[p] = "rm"
    /\ nets' = {x \in nets : x.id # sorted[p][2].id \/ x.n > 0}
    /\ sorted' = [sorted EXCEPT ![p] = RemoveAt(@, 2)]
    /\ IF Len(sorted[p]) > 2 THEN Goto(p, "rm") ELSE RemoveReturns(p, TRUE)
    /\ UNCHANGED <<used, taken, ipv6, attached, released, from, attempt, auto, ids>>

(* `docker network create` (external) looks for the name first; that it is *)
(* taken is no error to createNetworkNoDuplicates.                         *)
CreateNetwork(p) ==
    /\ pc[p] = "create"
    /\ IF nets # {}
       THEN Goto(p, "list") /\ from' = [from EXCEPT ![p] = "created"]
       ELSE Goto(p, "alloc") /\ UNCHANGED from
    /\ UNCHANGED <<docker, attempt, auto, ids, sorted>>

(* Then it allocates the subnet and the id.  IPv6 unavailable: one more    *)
(* attempt, IPv4 only, with a subnet docker finds itself.                  *)
Overlaps(p) == ~auto[p] /\ attempt[p] \in taken \union {x.subnet : x \in nets}

AllocateThen(p, l) ==
    /\ pc[p] = "alloc"
    /\ (auto[p] \/ ipv6) /\ ~Overlaps(p)
    /\ \E i \in Id \ used :
          /\ nets' = nets \union
                {[id |-> i, subnet |-> IF auto[p] THEN AutoSubnet ELSE attempt[p], n |-> 0]}
          /\ used' = used \union {i}
    /\ Goto(p, l)
    /\ from' = [from EXCEPT ![p] = "created"]
    /\ UNCHANGED <<taken, ipv6, attached, released, attempt, auto, ids, sorted>>

DuplicatesLeft(p) == AllocateThen(p, "ok")

Allocate(p) == AllocateThen(p, "list")

IPv6Unavailable(p) ==
    /\ pc[p] = "alloc"
    /\ ~auto[p] /\ ~ipv6
    /\ auto' = [auto EXCEPT ![p] = TRUE]
    /\ Goto(p, "create")
    /\ UNCHANGED <<docker, from, attempt, ids, sorted>>

PoolOverlap(p) ==
    /\ pc[p] = "alloc"
    /\ ipv6 /\ Overlaps(p)
    /\ Goto(p, "exists")
    /\ UNCHANGED <<docker, locals>>

(* checkIfNetworkExists; if not, the next subnet, five times in all.       *)
TryAgain(p, more) ==
    /\ pc[p] = "exists"
    /\ IF nets = {} /\ more
       THEN Goto(p, "create") /\ attempt' = [attempt EXCEPT ![p] = @ + 1]
       ELSE Goto(p, IF nets # {} THEN "ok" ELSE "err") /\ UNCHANGED attempt
    /\ UNCHANGED <<docker, from, auto, ids, sorted>>

OneAttemptTooMany(p) == TryAgain(p, attempt[p] < MaxAttempts)

CheckIfNetworkExists(p) == TryAgain(p, attempt[p] + 1 < MaxAttempts)

(* A docker command cannot be run, or fails with an unknown error.         *)
CommandFails(p) ==
    /\ pc[p] \notin Ended
    /\ Goto(p, "err")
    /\ UNCHANGED <<docker, locals>>

-----------------------------------------------------------------------------
(* Docker (external): another network goes; a container of a process that  *)
(* has its network starts, if the name is not ambiguous, or is removed.    *)
Release ==
    /\ released < MaxReleases
    /\ \E s \in taken : taken' = taken \ {s}
    /\ released' = released + 1
    /\ UNCHANGED <<nets, used, ipv6, attached, pc, locals>>

SetContainers(x, k) == nets' = (nets \ {x}) \union {[x EXCEPT !.n = k]}

Attach ==
    /\ \E p \in Proc : pc[p] = "ok"
    /\ attached < MaxContainers /\ Cardinality(nets) = 1
    /\ \E x \in nets : SetContainers(x, x.n + 1)
    /\ attached' = attached + 1
    /\ UNCHANGED <<used, taken, ipv6, released, pc, locals>>

Detach ==
    /\ \E x \in nets : x.n > 0 /\ SetContainers(x, x.n - 1)
    /\ UNCHANGED <<used, taken, ipv6, attached, released, pc, locals>>

EnsureNetwork(p) ==
    \/ NetworksWithName(p) \/ InspectNetworks(p) \/ DeleteNetworks(p)
    \/ CreateNetwork(p) \/ Allocate(p) \/ IPv6Unavailable(p) \/ PoolOverlap(p)
    \/ CheckIfNetworkExists(p)

Next ==
    \/ \E p \in Proc : EnsureNetwork(p) \/ CommandFails(p)
    \/ Release \/ Attach \/ Detach

Spec == Init /\ [][Next]_vars

-----------------------------------------------------------------------------
(***************************************************************************)
(* Until the first container is attached, a process for which              *)
(* ensureNetwork returned nil has a network to attach its nodes to,        *)
(* however many others create and remove duplicates at the same time: they *)
(* never remove each other's choice.                                       *)
(***************************************************************************)
NeverNone == attached = 0 /\ (\E p \in Proc : pc[p] = "ok") => nets # {}

(***************************************************************************)
(* When every ensureNetwork has returned nil before the first container is *)
(* attached, one network is left: whoever creates last removes what is     *)
(* double.                                                                 *)
(***************************************************************************)
OneNetworkAtEnd ==
    attached = 0 /\ (\A p \in Proc : pc[p] = "ok") => Cardinality(nets) <= 1

(***************************************************************************)
(* network.go: "we want networks with active containers first", so that a  *)
(* network in use is the one removeDuplicateNetworks keeps.                *)
(***************************************************************************)
ActiveFirst ==
    \A p \in Proc : \A i, j \in DOMAIN sorted[p] :
        i < j /\ sorted[p][j].n > 0 => sorted[p][i].n > 0

=============================================================================
