---------------------------- MODULE LocalCluster ----------------------------
(***************************************************************************)
(* The life of the temporary local cluster: internal/create.Cluster and    *)
(* internal/delete.Cluster over the docker provider, with the goroutines   *)
(* of errors.UntilErrorConcurrent that create the node containers.         *)
(*                                                                         *)
(* Processes follow each other: `create cluster`, `delete cluster`, again  *)
(* `create cluster`.  A `docker run` that was started goes on when the     *)
(* process that started it returns or is killed.                           *)
(***************************************************************************)
EXTENDS Naturals, Sequences, FiniteSets

CONSTANTS
    Node,         \* names of the node containers planCreation plans
    LoadBalancer, \* those of them without systemd
    MaxCreates,   \* bound: calls of create.Cluster in a behaviour
    MaxKills      \* bound: processes killed in a behaviour

ASSUME NodeAssumption == IsFiniteSet(Node) /\ Node # {} /\ LoadBalancer \subseteq Node

ASSUME BoundsAssumption == MaxCreates \in Nat /\ MaxKills \in Nat

VARIABLES
    opts,      \* the options of the current create
    pc,        \* where create.Cluster or delete.Cluster is
    ret,       \* where delete.Cluster returns to
    exists,    \* containers that carry the cluster's label
    kubecfg,   \* does the user's kubeconfig name the cluster?
    listed,    \* the nodes delete.Cluster has listed
    gor,       \* the goroutine of each node
    errCh,     \* the channel of UntilErrorConcurrent
    received,  \* results main has received
    tries,     \* failed attempts to export the kubeconfig
    detached,  \* `docker run`s whose process has gone
    prior,     \* history: containers there when the create began
    cause,     \* history: the part of create.Cluster that failed
    failed,    \* history: steps that failed in the last call of delete.Cluster
    stale,     \* history: the last edit that was to take the cluster out of the
               \* kubeconfig failed
    late,      \* history: containers of a `docker run` nobody waited for any more
    creates, kills

control == <<opts, pc, ret, tries, received>>
workers == <<gor, errCh, detached>>
world   == <<exists, kubecfg, listed>>
history == <<prior, cause, failed, stale, late, creates, kills>>
vars    == <<control, workers, world, history>>

-----------------------------------------------------------------------------
Options == [retain : BOOLEAN, force : BOOLEAN]

(* --retain, --keep-mgmt and --avoid-creation exclude each other, and each *)
(* of them sets Retain.                                                    *)
Flag == {"none", "retain", "keep-mgmt", "avoid-creation"}

Retain(flag) == flag \in {"retain", "keep-mgmt", "avoid-creation"}

(* Export is attempted once for each duration of the backoff.              *)
Attempts == 4

Labels == {"idle", "check", "validate", "provision", "collect", "act",
           "export", "list", "unexport", "remove"}

Causes == {"none", "check", "validate", "provision", "act", "export", "killed"}

CapacityOne == 1

Capacity == Cardinality(Node)

(***************************************************************************)
(* A goroutine runs `docker run`, waits for systemd, sends its result.     *)
(***************************************************************************)
GorState == [at : {"none", "run", "wait", "sent"}, ok : BOOLEAN]
              \union [at : {"send"}, ok : BOOLEAN]

At(l) == [at |-> l, ok |-> TRUE]

Sending(r) == [at |-> "send", ok |-> r]

TypeOK ==
    /\ opts \in Options
    /\ pc \in Labels
    /\ ret \in {"none", "force", "fail", "tail", "cli"}
    /\ exists \in SUBSET Node /\ listed \in SUBSET Node
    /\ detached \in SUBSET Node /\ prior \in SUBSET Node /\ late \in SUBSET Node
    /\ kubecfg \in BOOLEAN
    /\ gor \in [Node -> GorState]
    /\ errCh \in Seq(BOOLEAN)
    /\ received \in 0..Cardinality(Node)
    /\ tries \in 0..(Attempts - 1)
    /\ cause \in Causes
    /\ failed \in SUBSET {"list", "unexport", "remove"}
    /\ stale \in BOOLEAN
    /\ creates \in 0..MaxCreates /\ kills \in 0..MaxKills

(* A previous cluster of that name may be there, whole or in part.         *)
Init ==
    /\ opts = [retain |-> FALSE, force |-> FALSE]
    /\ pc = "idle" /\ ret = "none"
    /\ exists \in SUBSET Node
    /\ kubecfg \in (IF exists = {} THEN {FALSE} ELSE BOOLEAN)
    /\ listed = {} /\ detached = {} /\ prior = {} /\ late = {}
    /\ gor = [n \in Node |-> At("none")]
    /\ errCh = <<>> /\ received = 0
    /\ tries = 0
    /\ cause = "none" /\ failed = {} /\ stale = FALSE
    /\ creates = 0 /\ kills = 0

-----------------------------------------------------------------------------
(* The process ends and its goroutines with it, but not its children.      *)
EndProcess ==
    /\ pc' = "idle"
    /\ detached' = detached \union {n \in Node : gor[n].at = "run"}
    /\ gor' = [n \in Node |-> At("none")]
    /\ errCh' = <<>>

Goto(l) == pc' = l /\ UNCHANGED workers

(* A call of delete.Cluster, which returns to r.                           *)
CallDelete(r) ==
    /\ Goto("list")
    /\ ret' = r
    /\ failed' = {}

(* create.Cluster fails in the part c and returns, or cleans up first.     *)
FailWith(c) ==
    /\ cause' = c
    /\ IF opts.retain
       THEN EndProcess /\ UNCHANGED <<ret, failed>>
       ELSE CallDelete("fail")

ReturnError(c) ==
    /\ cause' = c
    /\ EndProcess
    /\ UNCHANGED <<ret, failed>>

-----------------------------------------------------------------------------
(* `create cluster`: the options are applied and create.Cluster is called. *)
CreateCluster ==
    /\ pc = "idle" /\ creates < MaxCreates
    /\ \E flag \in Flag, force \in BOOLEAN :
          opts' = [retain |-> Retain(flag), force |-> force]
    /\ Goto("check")
    /\ ret' = "none"
    /\ prior' = exists
    /\ cause' = "none"
    /\ creates' = creates + 1
    /\ tries' = 0 /\ received' = 0
    /\ UNCHANGED <<world, failed, stale, late, kills>>

(* validateProvider, fixupOptions.                                         *)
CheckFails ==
    /\ pc = "check"
    /\ ReturnError("check")
    /\ UNCHANGED <<opts, tries, received, world, prior, stale, late, creates, kills>>

(* alreadyExists: an error of ListNodes counts as "already exists".  With  *)
(* ForceDelete the previous cluster goes, and create.Cluster carries on    *)
(* whatever comes of that.                                                 *)
AlreadyExistsIfListed(listFails) == ~listFails /\ exists # {}

AlreadyExists(listFails) == listFails \/ exists # {}

CheckName ==
    /\ pc = "check"
    /\ \E listFails \in BOOLEAN :
          \/ ~AlreadyExists(listFails) /\ Goto("validate") /\ UNCHANGED <<ret, failed, cause>>
          \/ AlreadyExists(listFails) /\ opts.force /\ CallDelete("force") /\ UNCHANGED cause
          \/ AlreadyExists(listFails) /\ ~opts.force /\ ReturnError("check")
    /\ UNCHANGED <<opts, tries, received, world, prior, stale, late, creates, kills>>

(* Config.Validate: an error returns at once.                              *)
Validate ==
    /\ pc = "validate"
    /\ \/ Goto("provision") /\ UNCHANGED <<ret, failed, cause>>
       \/ ReturnError("validate")
    /\ UNCHANGED <<opts, tries, received, world, prior, stale, late, creates, kills>>

(* Provision: images, network and plan may fail; then UntilErrorConcurrent *)
(* starts one goroutine for each node.                                     *)
Provision ==
    /\ pc = "provision"
    /\ pc' = "collect"
    /\ gor' = [n \in Node |-> At("run")]
    /\ errCh' = <<>>
    /\ UNCHANGED <<opts, ret, tries, received, detached, world, history>>

PlanFails ==
    /\ pc = "provision"
    /\ FailWith("provision")
    /\ UNCHANGED <<opts, tries, received, world, prior, stale, late, creates, kills>>

(***************************************************************************)
(* `docker run --name n` (external): it fails when the name is taken;      *)
(* otherwise the container is created and started, or created only, or     *)
(* nothing is done.                                                        *)
(***************************************************************************)
DockerRun(n, ok, waited) ==
    \/ /\ n \notin exists
       /\ exists' = exists \union {n}
       /\ late' = IF waited THEN late \ {n} ELSE late \union {n}
    \/ ~ok /\ UNCHANGED <<exists, late>>

(* createContainer and createContainerWithWaitUntilSystemd...              *)
CreateContainer(n) ==
    /\ gor[n].at = "run"
    /\ \E ok \in BOOLEAN :
          /\ DockerRun(n, ok, pc = "collect")
          /\ gor' = [gor EXCEPT ![n] = IF ok /\ n \notin LoadBalancer
                                       THEN At("wait") ELSE Sending(ok)]
    /\ UNCHANGED <<control, errCh, detached, kubecfg, listed, prior, cause, failed,
                   stale, creates, kills>>

(* WaitUntilLogRegexpMatches: the line, the end of the log or 30 seconds.  *)
WaitUntilLogRegexpMatches(n) ==
    /\ gor[n].at = "wait"
    /\ \E ok \in BOOLEAN : gor' = [gor EXCEPT ![n] = Sending(ok)]
    /\ UNCHANGED <<control, errCh, detached, world, history>>

SendResult(n) ==
    /\ gor[n].at = "send"
    /\ Len(errCh) < Capacity
    /\ errCh' = Append(errCh, gor[n].ok)
    /\ gor' = [gor EXCEPT ![n] = At("sent")]
    /\ UNCHANGED <<control, detached, world, history>>

(* The loop of UntilErrorConcurrent: the first error ends it.              *)
ReceiveUpTo(count) ==
    /\ pc = "collect"
    /\ errCh # <<>> /\ Head(errCh)
    /\ errCh' = Tail(errCh)
    /\ received' = received + 1
    /\ pc' = IF received + 1 = count THEN "act" ELSE "collect"
    /\ UNCHANGED <<opts, ret, tries, gor, detached, world, history>>

ReceiveOneLess == ReceiveUpTo(Cardinality(Node) - 1)

ReceiveOk == ReceiveUpTo(Cardinality(Node))

ReceiveError ==
    /\ pc = "collect"
    /\ errCh # <<>> /\ ~Head(errCh)
    /\ FailWith("provision")
    /\ UNCHANGED <<opts, tries, received, world, prior, stale, late, creates, kills>>

(* The actions (NodeActions, CreateWorker) run one after another until one *)
(* fails.  StopBeforeSettingUpKubernetes, an option read only here, ends   *)
(* the create after the first two of them.                                 *)
ActionFails ==
    /\ pc = "act"
    /\ FailWith("act")
    /\ UNCHANGED <<opts, tries, received, world, prior, stale, late, creates, kills>>

ActionsDone ==
    /\ pc = "act"
    /\ EndProcess \/ Goto("export")
    /\ UNCHANGED <<opts, ret, tries, received, world, history>>

(* kubeconfig.Export, then the clean up that ends a successful create.     *)
Export ==
    /\ pc = "export"
    /\ kubecfg' = TRUE
    /\ IF opts.retain
       THEN EndProcess /\ UNCHANGED <<ret, failed>>
       ELSE CallDelete("tail")
    /\ UNCHANGED <<opts, tries, received, exists, listed, prior, cause,
                   stale, late, creates, kills>>

(* A failed attempt may still have written the file.  After the last one   *)
(* create.Cluster returns the error.                                       *)
ExportAttemptFails(more) ==
    /\ pc = "export"
    /\ kubecfg' \in {kubecfg, TRUE}
    /\ IF more
       THEN tries' = tries + 1 /\ Goto("export") /\ UNCHANGED <<ret, failed, cause>>
       ELSE ReturnError("export") /\ UNCHANGED tries
    /\ UNCHANGED <<opts, received, exists, listed, prior, stale, late,
                   creates, kills>>

ExportOnceMore == ExportAttemptFails(tries < Attempts)

ExportFails == ExportAttemptFails(tries + 1 < Attempts)

-----------------------------------------------------------------------------
(* delete.Cluster, of `delete cluster` or called by create.Cluster, which  *)
(* drops its error.                                                        *)
DeleteCluster ==
    /\ pc = "idle"
    /\ CallDelete("cli")
    /\ cause' = "none"
    /\ UNCHANGED <<opts, tries, received, world, prior, stale, late, creates, kills>>

RecheckName ==
    IF ret = "force" THEN Goto("check") ELSE EndProcess

DeleteReturns ==
    IF ret = "force" THEN Goto("validate") ELSE EndProcess

ListThen(l) ==
    /\ pc = "list"
    /\ listed' = exists
    /\ IF l = "return" THEN DeleteReturns ELSE Goto(l)
    /\ UNCHANGED <<opts, ret, tries, received, exists, kubecfg, history>>

NoNodesNothingToDo == ListThen(IF exists = {} THEN "return" ELSE "unexport")

NodesFirst ==
    /\ pc = "list"
    /\ listed' = {} /\ exists' = {}
    /\ Goto("unexport")
    /\ UNCHANGED <<opts, ret, tries, received, kubecfg, history>>

ListNodes == ListThen("unexport")

ListFails ==
    /\ pc = "list"
    /\ failed' = failed \union {"list"}
    /\ DeleteReturns
    /\ UNCHANGED <<opts, ret, tries, received, world, prior, cause, stale, late, creates, kills>>

(* kubeconfig.Remove: an error is logged only.                             *)
RemoveFromKubeconfig ==
    /\ pc = "unexport"
    /\ \/ kubecfg' = FALSE /\ stale' = FALSE /\ UNCHANGED failed
       \/ kubecfg' \in {kubecfg, FALSE} /\ stale' = TRUE
          /\ failed' = failed \union {"unexport"}
    /\ Goto("remove")
    /\ UNCHANGED <<opts, ret, tries, received, exists, listed, prior, cause,
                   late, creates, kills>>

(* DeleteNodes: `docker rm -f -v` of the nodes listed before.              *)
DeleteNodes ==
    /\ pc = "remove"
    /\ \/ exists' = exists \ listed /\ UNCHANGED failed
       \/ /\ listed # {}
          /\ \E gone \in SUBSET listed : exists' = exists \ gone
          /\ failed' = failed \union {"remove"}
    /\ DeleteReturns
    /\ UNCHANGED <<opts, ret, tries, received, kubecfg, listed, prior, cause,
                   stale, late, creates, kills>>

-----------------------------------------------------------------------------
(* A `docker run` that outlived its process ends.                          *)
DetachedRun(n) ==
    /\ n \in detached
    /\ \E ok \in BOOLEAN : DockerRun(n, ok, FALSE)
    /\ detached' = detached \ {n}
    /\ UNCHANGED <<control, gor, errCh, kubecfg, listed, prior, cause, failed,
                   stale, creates, kills>>

(* The process is killed, in create.Cluster or in delete.Cluster.          *)
Kill ==
    /\ pc # "idle" /\ kills < MaxKills
    /\ kills' = kills + 1
    /\ cause' = "killed"
    /\ EndProcess
    /\ UNCHANGED <<opts, ret, tries, received, world, prior, failed, stale, late,
                   creates>>

Main ==
    \/ CheckFails \/ CheckName \/ Validate \/ Provision \/ PlanFails
    \/ ReceiveOk \/ ReceiveError
    \/ ActionFails \/ ActionsDone \/ Export \/ ExportFails
    \/ ListNodes \/ ListFails \/ RemoveFromKubeconfig \/ DeleteNodes

Goroutine(n) ==
    CreateContainer(n) \/ WaitUntilLogRegexpMatches(n) \/ SendResult(n)

Next ==
    \/ CreateCluster \/ DeleteCluster \/ Main \/ Kill
    \/ \E n \in Node : Goroutine(n) \/ DetachedRun(n)

Spec == Init /\ [][Next]_vars

(* The calls main makes return; docker ends what it began.                 *)
FairSpec ==
    /\ Spec
    /\ WF_vars(Main)
    /\ \A n \in Node : WF_vars(Goroutine(n)) /\ WF_vars(DetachedRun(n))

-----------------------------------------------------------------------------
(***************************************************************************)
(* delete.Cluster sweeps: whoever called it, once it has ended and none of *)
(* its own steps failed, whatever earlier calls left undone, no container  *)
(* of the cluster is left but those of a `docker run` that ended after its *)
(* create had stopped waiting for it, and the kubeconfig no longer names   *)
(* the cluster (delete.go, create.go).                                     *)
(***************************************************************************)
DeleteSweeps ==
    pc = "idle" /\ ret \in {"fail", "tail", "cli"} /\ cause # "killed" /\ failed = {} =>
        exists \subseteq late /\ ~kubecfg

(***************************************************************************)
(* The kubeconfig names a cluster without a single container only if an    *)
(* edit of the kubeconfig failed, which delete.Cluster does no more than   *)
(* log; in particular not because a process was killed between two steps.  *)
(***************************************************************************)
NoDanglingContext == kubecfg /\ exists = {} => stale

(***************************************************************************)
(* Without --delete-previous, create.Cluster never removes a container     *)
(* that was there when it began, even when ListNodes fails and whatever    *)
(* fails afterwards.                                                       *)
(***************************************************************************)
PriorKept ==
    ret \in {"none", "fail", "tail"} /\ ~opts.force =>
        prior \subseteq exists

(***************************************************************************)
(* No action runs before every node container is there: results that are   *)
(* counted in UntilErrorConcurrent stand for different nodes.              *)
(***************************************************************************)
ActionsSeeAllNodes == pc \in {"act", "export"} => exists = Node

(***************************************************************************)
(* No goroutine of UntilErrorConcurrent is left blocked on its channel,    *)
(* although main stops receiving at the first error.                       *)
(***************************************************************************)
SendNeverBlocks == \A n \in Node : gor[n].at = "send" => Len(errCh) < Capacity

(***************************************************************************)
(* create.Cluster and delete.Cluster return, whatever fails.               *)
(***************************************************************************)
CallsReturn == pc # "idle" ~> pc = "idle"

(***************************************************************************)
(* create.go: "In case of errors nodes are deleted (except if retain is    *)
(* explicitly set)", said of an error of Provision.                        *)
(***************************************************************************)
ProvisionFailureCleansUp ==
    pc = "idle" /\ cause = "provision" /\ ret = "fail" /\ failed = {} => exists = {}

=============================================================================
