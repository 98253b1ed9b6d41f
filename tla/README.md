# Verification of Skind (cloud-provisioner on kind)

Skind is Stratio's fork of kind. `create cluster` starts a temporary Kubernetes
cluster in docker containers (the *local* cluster), turns it into a Cluster API
manager, lets it create a *workload* cluster in AWS, Azure or GCP, moves the
management role there and deletes the local cluster. This directory holds TLA+
models of the parts of that program whose correctness depends on order,
concurrency and failure, the TLC configurations that check them, and proofs
checked by TLAPS.

Paths below are relative to the repository; `create.go` without a directory is
`pkg/cluster/internal/create/create.go`, `delete.go` is
`pkg/cluster/internal/delete/delete.go`, `createworker.go` and `provider.go` are
in `pkg/cluster/internal/create/actions/createworker/`, `network.go` is in
`pkg/cluster/internal/providers/docker/`.

## 1. Inventory

| Component | State | Operations | Hard about it |
|---|---|---|---|
| kubeconfig files (`pkg/cluster/internal/kubeconfig`) | the user's files, their `.lock` files | `WriteMerged` (Export), `RemoveKIND` (Remove) | other processes edit the same files; kills leave locks; the write truncates first |
| local cluster lifecycle (`create.go`, `delete.go`) | node containers, kubeconfig entry, options | `create.Cluster`, `delete.Cluster` | ten early returns, clean up on some of them; dropped errors; kills |
| docker provider: nodes | containers | `Provision`, `ListNodes`, `DeleteNodes` | one goroutine for each node, first error wins |
| docker provider: network (`network.go`) | docker networks of one name | `ensureNetwork` | concurrent creators, docker's racy name check, removal of duplicates |
| concurrency helpers (`pkg/errors/concurrent.go`) | result channel | `UntilErrorConcurrent`, `AggregateConcurrent` | goroutines outlive the call |
| createworker action (`createworker.go`, `provider.go`) | resources in two clusters, cloud infrastructure, backup, refresher | `Execute`, about fifty commands | lost answers, empty answers, finalizers, two operators, a move in stages |
| Helm charts (`provider.go`, `aws.go`, `azure.go`, `gcp.go`) | global tables of charts, the ClusterConfig, pulled and released charts | `pullProviderCharts`, `deployCertManager`, `configureFlux`, `reconcileCharts`, `installCSI`, ... | tables that every lookup writes to; what a step needs was decided many steps before |
| command execution (`pkg/commons/utils.go`) | none | `ExecuteCommand` | retries of what may have been done |
| kubeconfig refresher (`pkg/commons/kubeconfig.go`) | a file in the node | ticks every two minutes | writes while others read |
| kubeadm actions (loadbalancer, config, kubeadminit, installcni, installstorage, kubeadmjoin, waitforready) | nodes of the local cluster | one `Execute` each | files and joins in goroutines, lists in any order, versions, a deadline |
| kind configuration API, `nodeutils` | the configuration | defaults, validation, selection of nodes | boundaries, agreement about the first control plane |
| kindnetd (`images/kindnetd`) | routes, CNI configuration, iptables rules of a node | a loop and an agent | retries, panics, restarts, stale lists, a cache |
| secrets file and descriptor (`pkg/commons`) | two files of the user | `EnsureSecretsFile`, `RewriteDescriptorFile` | credentials move from one to the other; kills; the next call |
| descriptor validation (`pkg/cluster/internal/validate`) | none | `Cluster` and its validators | the rules of six flavours, early returns, two sources of credentials |
| override vars, keos descriptor | files on the host | `override_vars` | written last, read by nobody here |
| podman provider | as docker | as docker | as docker |
| image loading, node image build, status spinner | images; a goroutine | commands | - |
| upgrade scripts | clusters | a script in Python | another program |

How they interact: `create cluster` reads the descriptor and the secrets file and
validates them (`validate.Cluster`), then calls `create.Cluster`, which calls the
provider (`Provision`, and through it `ensureNetwork` and
`UntilErrorConcurrent`), then the actions one after another (createworker is the
last, and writes the secrets file and the descriptor in its course), then
`kubeconfig.Export`, then `delete.Cluster`. `delete.Cluster` calls
the provider and `kubeconfig.Remove`. Processes of kind share the docker daemon
and the kubeconfig files and nothing else. Execute of createworker talks to both
clusters through shell commands in the control plane node; the controllers of
the two clusters (keos cluster-operator, Cluster API, Flux) act on their own.

What makes each component correct:

* kubeconfig: no lost update, other people's entries survive, locks come back,
  every call ends.
* lifecycle: what a delete removes, what a failed create leaves, that nobody
  else's cluster is removed, that the actions see all nodes, that calls return.
* network: one network in the end, never none, five attempts at most.
* kubeadm actions: a node that joins has what its role needs, kubectl runs where
  the server is, "Ready" is true, the actions return.
* kindnetd: one route for each subnet, a cache that agrees with the file, and
  convergence after whatever failed.
* input files: credentials that were accepted stay in one of the two files, the
  stored ones win, a rerun is accepted again.
* createworker: one manager at a time, the resources are never lost and the
  infrastructure never torn down by the pivot, success means managed, and the
  charts released are the ones asked for.

The hazards, each at its line, with the properties that cover it, are in
`PROJECT.json`.

## 2. Modules

| Module | Models | Extends |
|---|---|---|
| `KubeconfigData` | contents of a file, `merge` and `remove` as operators | |
| `KubeconfigAtomic` | abstract specification: edits take effect at once | `KubeconfigData` |
| `Kubeconfig` | the lock file protocol; implements `KubeconfigAtomic` | `KubeconfigData` |
| `KubeconfigProofs` | theorems: the lock, no lost update | `Kubeconfig` |
| `KubeconfigRefinement` | theorems: edits are atomic, other entries survive | `KubeconfigProofs` |
| `LocalCluster` | `create.Cluster`, `delete.Cluster`, the goroutines of `Provision` | |
| `LocalClusterProofs` | theorems about `LocalCluster` | `LocalCluster` |
| `DockerNetwork` | `ensureNetwork` | |
| `DockerNetworkProofs` | theorems about `DockerNetwork` | `DockerNetwork` |
| `Version` | versions of Kubernetes, parsed and compared | |
| `KindConfig` | defaults and validation of kind's configuration, `planCreation`, `nodeutils` | |
| `NodeActions` | the actions before createworker, over the nodes and goroutines | `KindConfig`, `Version` |
| `NodeActionsProofs` | theorems about `NodeActions` | `NodeActions` |
| `Kindnetd` | the daemon on one node | |
| `KindnetdProofs` | theorems about `Kindnetd` | `Kindnetd` |
| `Charts` | tables, lookups, pulls and releases of Helm charts as operators | |
| `CreateWorker` | `Execute` of createworker and what `create.Cluster` does after it | `Charts` |
| `CreateWorkerProofs` | theorems about the pivot and the charts | `CreateWorker` |
| `Descriptor` | defaults and validation of the cluster descriptor as operators | |
| `CreateInput` | `runE` of `create cluster` over the two files, call after call | `Descriptor` |
| `CreateInputProofs` | theorems about `CreateInput` and the validation | `CreateInput` |
| `MCKubeconfig`, `MCLocalCluster`, `MCDockerNetwork`, `MCNodeActions`, `MCKindnetd`, `MCCreateWorker`, `MCCreateInput` | instances for TLC | the module of that name |

Definitions that stand before the one they resemble and are used nowhere
(`LockWithoutExcl`, `NoNodesNothingToDo`, ...) are mutants: the same operation
with a plausible mistake. `PROJECT.json` says which property each one breaks.

### Kubeconfig

A `Config` is a set of entries (`list`, `name`, `val`) and a current context; a
file is absent, holds a `Config`, or holds bytes that do not parse. The actions
of a process are the system calls of `WriteMerged` and `RemoveKIND` in order:
`ChoosePath` (before the lock, as in the code), `LockFile` (O_EXCL, no waiting),
`ReadAndEdit`, `Truncate` and `Fill` (the two halves of `ioutil.WriteFile`),
`UnlockFile` (deferred, error dropped, then the next file of `RemoveKIND`). Each
has a failing twin, and `Kill` may strike anywhere. `torn` records the files in
which a write was cut short: what such a file holds is any prefix, which may or
may not parse. Fields kind carries through (`OtherFields`) are part of `val`.
The order of entries in their lists is not kept, nor whether a name occurs
twice in a list; `merge` replaces the entry of that name. The admin kubeconfig
that `get` fetches from the node is the input `val`.

`KubeconfigAtomic` is what kind promises to whoever shares the file: a file only
changes by the whole effect of one request on what it holds at that moment
(`Apply`), or because a write was cut short (`Spoil`). The refinement maps the
store to `View`, in which a file that is being filled already holds what is
being written, because no holder of the lock can see it otherwise.

### LocalCluster

One process at a time: `create cluster`, `delete cluster`, again. The main
thread is `pc`; `delete.Cluster` is called from four places and `ret` says from
which. `gor` and `errCh` are the goroutines and the channel of
`UntilErrorConcurrent`. When main returns or is killed its goroutines end, and
their `docker run`s go on (`detached`). `late` is a history variable: containers
of a `docker run` nobody waited for any more. Each action of `actionsToRun` is
one step that succeeds or fails. `docker run` (external) creates and starts the
container, or only creates it and fails, or does nothing, and fails if the name
is taken.

### DockerNetwork

Each process runs `ensureNetwork` once. `docker network create` (external) is two
steps, the check of the name and the allocation, because docker does not do both
under one lock. The subnet depends on the name and the attempt alone, so the
attempt stands for it; `taken` are subnets that networks of other names occupy
(the hash is assumed not to collide with itself over the five attempts).
`sort.Slice` on so few entries is an insertion sort, and it is modelled as one,
since with a comparison that is not an order the result depends on the
algorithm (`SortNetworkInspectEntries`, a recursive function over the positions).
With twelve entries and more Go sorts differently; that matters only while a
network has containers, since otherwise the comparison is the order of the ids.
`docker network rm` fails only for a network that has gone or has
containers, both of which `isOnlyErrorNoSuchNetwork` lets pass; any other
failure ends the process (`CommandFails`).

### KindConfig, Version and NodeActions

`NodeActions` starts with a configuration as a user may write it, its defaults
set (`SetDefaultsCluster`), and the containers that `planCreation` plans for it in
any order of docker's list. Main runs `Validate` and then the actions in order.
`config` and `kubeadmjoin` start goroutines with `UntilErrorConcurrent` (`Spawn`,
`Receive`); main goes on to fail at the first error while the others still run.
The list of nodes is taken from docker by the first action that asks and kept in
the context (`cache`). A selection of nodes is the set of them, since the one order
the code relies on is that of the names of control planes: `First` is the one that
`sort.Slice` puts in front. Names of one role differ in the number at their end, so
they are compared by its characters (`Suffix`, `NameBefore`): control-plane10 comes
before control-plane2. A result of a goroutine is nil or an error. A command succeeds or fails; `waitforready` polls until its
deadline, which may pass at any time. External: `kubeadm` sets the labels and
taints of its version and makes a node a member if its files are there; a kubelet
becomes Ready at any time once the CNI is. `Version` compares semantic versions
including pre-release identifiers, because the taints depend on them.

### Kindnetd

One daemon; the daemons of other nodes share nothing with it but the node
objects, whose addresses change when a container restarts (`Cluster`). The loop
lists the nodes, reconciles them one after the other (the host's own entry writes
the CNI configuration, another's entry sets the routes of its subnets; `at` is the
node and `left` what remains to be done for it), with the
retries of the code, and panics when they are used up; the kubelet starts it
again without its memory. The masquerade agent (`SyncRules`) ensures chain and
rules one call at a time and tolerates a number of failures in a row. Calls of
the API, netlink, the file system and iptables may fail (`MaxFails`), and an
external program may delete a rule (`MaxDeletes`).

### Charts and CreateWorker

`Execute(d)` is the list of steps for a descriptor `d`, in the order of the
code, with every condition on provider, managed control plane, GitOps, IAM,
autoscaler, DNS forwarders, load balancer controller, role and flags.
`PlainSteps` leave alone what the module tracks and succeed or fail; the others
have an action each. A command succeeds, or fails without effect, or fails with
its effect done. `ExecuteCommand` runs a command again after a lost connection or
a timeout. For most commands a repetition reaches no other state: it does the same
again, or fails because it finds its work done. `clusterctl move` is different: cut
after the deletion in the source and run again, it finds nothing to move and
succeeds while the target is still paused (`Move`, second disjunct). Two
commands may succeed and print nothing, which the code takes for success
(`GetKubeconfig`, `OperatorWork`). `misled` records both kinds of success that are
none, as "repeated" and "empty". The tracked
state of each cluster is the operator, the KeosCluster and ClusterConfig
resources with their finalizers, the Cluster API objects (none, paused, active),
the MachineHealthChecks, and the controllers, with or without those of kubeadm.
External and assumed from how the code uses them:
`clusterctl move` pauses, copies, deletes and resumes and may stop between any
two of these; `clusterctl move --to-directory` leaves the objects as they are;
`helm uninstall` stops the operator by the time it returns; an operator with a
finalizer on a deleted KeosCluster takes the infrastructure down.

`charts` holds the global tables as far as this process has written to them, the
chart versions of the ClusterConfig, the charts pulled into the node, the values
files generated, Flux's repositories and releases, and the operator's version.
A version is the listed one or the one the user asked for. `Installable` says
whether a step finds what it needs; without it the step can only give up.

### Descriptor and CreateInput

`Descriptor` has what `GetClusterDescriptor` makes of the file, with the order of
defaults and decoding, and every rule of `validateCommon`, `validateAWS`,
`validateAzure` and `validateGCP` (with its early return). A field that is only
matched against a pattern or a list is "", "ok" or "bad". The answers of the cloud
are an input, among them empty lists of zones, with which no zone is checked. AWS is
asked in the region of the credentials (`AWSGetConfig`), and of the zones there
those of the region of the spec count (`GetAWSAzs`): none if the two regions differ.

`CreateInput` is a user who calls `create cluster` again and again and edits the
descriptor at any time. A call reads both files, merges and validates the
credentials (`secrets.go`; those of the registries stand at the places of their
registries), goes on to create, and at two steps of createworker
writes the secrets file and then the descriptor without its credentials; it may
fail at every step, and a kill in a write leaves the file torn. Three variables are
histories: `held` has the credentials a call was accepted with and the user has not
edited away, `lost` what a secrets file held that was cut while it was written again,
`stored` the key that the present file first had for each cloud. Calls that are
refused for their flags or password have no effect and are no step. Restrictions:
one call at a time, and a descriptor holds credentials of one cloud.

## 3. Runs

| Run | Bounds | Properties | Result |
|---|---|---|---|
| `kubeconfig_edits` | 2 processes, 2 files, lists of 1 and 2 files, 2 requests, 1 fault, fair | `TypeOK`, `MutualExclusion`, `WritesAreFresh`, `NoLockLeft`, `ForeignKept`, `ImplementsAtomic`, `EveryRequestEnds` | hold, 134 thousand states |
| `local_safety` | 2 nodes, 2 creates, any number of deletes, 1 kill, fair | `TypeOK`, `DeleteSweeps`, `NoDanglingContext`, `PriorKept`, `ActionsSeeAllNodes`, `SendNeverBlocks`, `CallsReturn` | hold, 702 thousand states |
| `local_provision` | 2 control planes and their load balancer, 1 create | `ProvisionFailureCleansUp` | violated: finding 1 |
| `worker_pivot` | every flavour and flag (3 x 2^8 x 4), every choice about charts, fair | `TypeOK`, `SingleActiveManager`, `NoTeardown`, `ResourcesKept`, `ObjectsHeld`, `AnsweredSuccessIsManaged`, `ReleasedAsAsked`, `ChartsFound`, `CreateReturns` | hold, 872 thousand states |
| `worker_empty` | the documented flavours without flags | `SuccessHoldsObjects` | violated: finding 2 |
| `worker_versions` | as `worker_pivot` | `SupportedVersionsInstall` | violated: finding 3 |
| `network_race` | 3 processes, none, one or five subnets taken, 1 container | `TypeOK`, `NeverNone`, `OneNetworkAtEnd` | hold, 279 thousand states |
| `network_active` | 2 processes, 1 container | `ActiveFirst` | violated: finding 4 |
| `node_bringup` | 11 versions, subnet lists of each family, 3 topologies of three nodes (and the load balancer), every order of the list, fair | `TypeOK`, `NodesAreProvisioned`, `KubectlFindsServer`, `ReadyIsTrue`, `TaintsMatch`, `ActionsReturn` | hold, 57 thousand states |
| `kindnetd` | 2 nodes, 3 addresses, 2 moves, 3 failing calls, 1 rule deleted, 2 attempts, fair | `CacheIsFile`, `OneGateway`, `MasqueradeLast`, `EventuallyConverged` | hold, 638 thousand states |
| `create_input` | 6 flavours and their variants, 2 calls, 2 edits, 1 kill in a write, 2 passwords | `CredentialsKept`, `StoredWins`, `RerunAccepted` | hold, 485 thousand states |
| `secrets_helm` | EKS with and without a login for the Helm repository, 2 calls, 1 edit | `HelmCredentialsKept` | violated: finding 5 |

Why the bounds are enough to be interesting: a lost update takes two processes
and two edits (and the theorems of section 4 hold for any number of both); one
fault is enough to leave a lock, a torn file or an unlock undone, and the other
process then runs into it. A removal over two files makes one process take two
locks one after the other.
Two creates make the second one start from every state a failed, killed or
retained first one leaves. Two goroutines let main stop receiving with a result
outstanding. The CreateWorker runs have no bound but the domain of
descriptors: the flavours with the charts as listed, and the choices about charts
(version, overrides, private repository) in a plain run of each flavour, since no
step reads both.
The versions of `node_bringup` lie on both sides of every version the code
compares with; three nodes are the smallest cluster with two control planes, a
load balancer and a worker, or two goroutines that join. In kindnetd two attempts
(five in the code) make retries and panics both happen within three failures, and
two moves let an address change during a reconciliation and after it. In
`create_input` two calls are a run and its rerun, and the variants change one
field at a time from a descriptor that is accepted; a region without zones and
credentials of another region than the cluster are among them. In DockerNetwork two processes suffice for duplicates, three for
two removers that see different sets. `NeverNone` and `OneNetworkAtEnd` speak of
the time before the first container is attached; after that the defect of
`ActiveFirst` leaves two networks of one name, as the last run shows.

Deadlock is checked in the LocalCluster runs (`delete cluster` can always be
typed). The other systems come to an end: the bound on requests, calls or
failures is reached; ensureNetwork, the actions and Execute return.

Symmetry is used for the processes of `network_race`, which has no liveness.

### Fairness

* `Kubeconfig`: weak fairness of each process' own steps: a running process
  keeps running; the lock is never waited for, so nothing stronger is needed.
* `LocalCluster`: weak fairness of main, of each goroutine and of each
  `docker run`: docker commands return. The code has no timeout on them, so this
  is an assumption about docker; the wait for systemd has one (30 seconds).
* `NodeActions`: weak fairness of main and of the goroutines together: commands
  return, and the deadline of `waitforready` passes. kubelets are not fair: a node
  need not become Ready.
* `Kindnetd`: weak fairness of the daemon (the kubelet starts it again after a
  panic), of the agent's timer, and of the cluster: a node that registers gets
  its subnets. Failures are bounded, so in the end calls succeed.
* `CreateWorker`: weak fairness of main, of Flux and of the operators. A command
  that waits for something fails after its own timeout, so it never blocks; a
  `kubectl delete` has none and blocks while a finalizer is in place and nobody
  handles it.

### What the violated properties show

1. `ProvisionFailureCleansUp`: `create.go` says that nodes are deleted on an error
   of Provision; a `docker run` still under way leaves its container.
2. `SuccessHoldsObjects`: an empty answer of `clusterctl get kubeconfig` ends in
   `errors.Wrap(nil, ...)`, which is nil, so Execute returns success half-way.
   Without Retain the local cluster, which holds the only Cluster API objects, is
   then deleted, and the success message printed.
3. `SupportedVersionsInstall`: the validation accepts Kubernetes 1.33, for which
   there are no templates; every creation with it fails at cert-manager.
4. `ActiveFirst`: the comparison of `sortNetworkInspectEntries` lets a smaller ID
   come before a network in use.
5. `HelmCredentialsKept`: when the secrets file exists and has no credentials of the
   Helm repository (the first execution had none to store), `EnsureSecretsFile`
   stores new ones under `docker_registry`; the next execution does not find them.

### What else the models show

Behaviour met while modelling that no run states as a property, because no doc
or comment says plainly what should happen, or because it is a single line:

* kubeconfig: with `$KUBECONFIG` a list, `WriteMerged` writes into the first file
  that exists, also when another one defines the cluster (the rules quoted at
  `paths.go:40` say otherwise), so that two files may define it.
* createworker: `ExecuteCommand` runs `clusterctl move` again after a lost connection.
  If the first one had deleted the objects in the local cluster and not yet resumed
  them in the workload cluster, the second finds nothing and succeeds: create reports
  success and the cluster stays paused, with nobody to resume it.
  `AnsweredSuccessIsManaged` names this outcome and holds otherwise.
  The rollout that `deployClusterOperator` waits for after it
  released the operator in the workload cluster is the local one
  (`provider.go:692` has no `--kubeconfig`); the pivot waits for the right one
  later. `configCAPIWorker` repeats the scale command where the message speaks of
  the rollout status.
* charts: under `gitops_enabled` unmanaged Azure still gets HelmReleases for its CSI
  drivers (`createworker.go:893`) and no Flux; `ChartsFound` leaves it out. Unmanaged
  AWS and GCP, which are not documented flavours, have no `tigera-operator` in
  their tables, and `installCalico` needs it. The ClusterConfig that is applied
  lists only pulled charts, so an override of another chart is lost there (the
  release itself has it, from the table). The loops of `getOverriddenCharts`
  modify copies.
* secrets: a kill during the rewrite of an existing secrets file loses what it
  held (`encryptSecret` writes in place), since the descriptor has had its
  credentials removed by then. `CredentialsKept` excepts exactly that (`lost`), and
  says that what was to be added is still in the descriptor; `RerunAccepted` does not
  speak of it. A torn first secrets file is reported as a wrong password until it is
  removed by hand. For EKS the region of the spec and that of the credentials go to
  one key (`utils.go:77`), and which of them stays depends on the order of a map; if
  they differ, the next call may ask AWS in another region (`AsksElsewhere`).
  Credentials of registries and repositories that ask for no login, or that
  are added during a create, are removed from the descriptor without being stored.
* validation: zones are not checked when the list of them is empty, as for Azure
  regions without zones, and for AWS credentials of another region than the
  cluster. `validateGCP` returns early without an `ip_allocation_policy`
  (`gcp.go:229`); zones, sizes and volumes of GKE are then not checked. The default
  workload pool is lost on a rerun, because the project goes with the credentials. A
  worker's volume is compared with the control plane's devices (AWS). Worker groups
  of quantity 0 count as workers. The default for secure boot is never applied. A
  ClusterConfig that comes before the KeosCluster gets the namespace `cluster-`.
  A null `endpoint` or `master_authorized_networks` is dereferenced.
* kindnetd: a rule that somebody else deleted is appended behind MASQUERADE, which
  "must be last in chain" (`masq.go:104`); `MasqueradeLast` leaves that out.

## 4. Proofs

TLC checks the instances of section 3; the theorems below hold for every value of
the constants. In all of them the last step is temporal (`PTL`) and rests on
three facts: the initial states satisfy an inductive invariant, every step
preserves it, and it implies the property.

| Module | Theorem | States | For every |
|---|---|---|---|
| `KubeconfigProofs` | `TypeCorrect` | `TypeOK` | set of processes, files, keys and values, list of paths, number of requests and faults |
| | `LockExcludes` | `MutualExclusion` | |
| | `NoLostUpdate` | `WritesAreFresh` | |
| | `LocksAreReturned` | `NoLockLeft` | |
| `KubeconfigRefinement` | `EditsAreAtomic` | `ImplementsAtomic` | the same |
| | `ForeignSurvives` | `ForeignKept` (an action property) | |
| `LocalClusterProofs` | `TypeCorrect` | `TypeOK` | finite set of nodes, number of creates and kills |
| | `ChannelLargeEnough` | `SendNeverBlocks` | |
| | `ActionsAfterAllNodes` | `ActionsSeeAllNodes` | |
| | `DeleteIsComplete` | `DeleteSweeps` | |
| | `ContextHasNodes` | `NoDanglingContext` | |
| | `PriorClusterKept` | `PriorKept` | |
| `CreateWorkerProofs` | `TypeCorrect` | `TypeOK` | set of descriptors |
| | `OneManager` | `SingleActiveManager` | |
| | `NothingTornDown` | `NoTeardown` | |
| | `ResourcesSurvive` | `ResourcesKept` | |
| | `ObjectsSurvive` | `ObjectsHeld` | |
| | `SuccessMeansManaged` | `AnsweredSuccessIsManaged` | |
| | `ReleasesAgree` | `ReleasedAsAsked` | |
| | `StepsFindCharts` | `ChartsFound` | |
| `DockerNetworkProofs` | `TypeCorrect` | `TypeOK` | finite set of processes, subnets taken by others, number of containers and networks released |
| | `NetworkIsThere` | `NeverNone` | |
| | `DuplicatesAreRemoved` | `OneNetworkAtEnd` | |
| `NodeActionsProofs` | `TypeCorrect` | `TypeOK` | set of configurations of fewer than 100 nodes, list of docker, version, set of labels and taints |
| | `MembersAreProvisioned` | `NodesAreProvisioned` | |
| | `ServerIsFound` | `KubectlFindsServer` | |
| | `ReadyIsSaidTruly` | `ReadyIsTrue` | |
| `KindnetdProofs` | `CacheAgrees` | `CacheIsFile` | list of nodes, set of addresses, IP family, number of attempts, moves, failures and deletions |
| | `RoutesAreUnique` | `OneGateway` | |
| | `PodsReturnFirst` | `MasqueradeLast` | |
| `CreateInputProofs` | `CredentialsSurvive` | `CredentialsKept` | set of descriptors, clouds, flags and passwords, number of calls, edits and cuts |
| | `StoredKeyWins` | `StoredWins` | |
| | `RerunIsAccepted` | `RerunAccepted` | |

### Assumptions

They are the named ones of the modules, and TLC evaluates them in every run.
`Kubeconfig`: the empty context is not a key, path lists are not empty, the
foreign keys are keys, the bounds are natural numbers, `Idle` is not a request.
`LocalCluster`: finitely many nodes, at least one, and natural bounds.
`CreateWorker`: the descriptors are records of its fields. `DockerNetwork`: finitely
many processes, natural bounds, and the subnets of other networks are among the
five that are tried. `NodeActions` (`RawConfigsAssumption`): a configuration has the
fields of `config.Cluster`, with fewer than 100 nodes, because `NameBefore` compares
numbers of two digits, and an `ipFamily` that is one of the three or left out.
`Validate` does not reject another family, and kind then treats it as IPv4 in some
places; that is left out. `Kindnetd`: the host is
in the list of nodes (`HostAssumption`), there are addresses and the mark of a node
without one is none of them (`IPAssumption`), the IP family is one of the three,
and natural bounds. `CreateInput`: a file has
the sections of a spec and credentials of the shape the parser produces, and a
provider's credential without an id is the empty one (`FilesAssumption`). Nothing is
assumed about the answers of the cloud.

### Arguments

**Kubeconfig.** Mutual exclusion is not inductive: two processes may be kept apart
only because a lock file exists that a third step could remove. The inductive
invariant is `Locking`: a process in its critical section holds an existing lock
file (`LockHeld`), no two processes are in the section of the same file, and a
process about to write has in its buffer the effect of its request on the present
content. The third part needs the first two, because it is the exclusion that
keeps others from changing the file between the read and the write. `HolderInside`
(without faults, a lock file has its process inside) is a second, smaller
induction on top of `TypeOK`.

**Refinement.** `View` shows a file that is being filled with what is being
written. `RefinementStep` takes the actions one by one: `Truncate` is where the
abstract edit happens, `Fill` is a stuttering step, a write that is cut short is
`Spoil`, and everything else leaves `View` alone. What makes `Truncate` an edit of
the *present* content is `WritesAreFresh`, and what makes it an edit of a file of
the request is `OwnFiles`. `ForeignKept` follows from the same case analysis and
from what `merge` and `remove` do to the entries of others.

**LocalCluster.** Five invariants, each on top of `TypeOK`. `Channel` counts: what
was received and what is in the channel are as many as the goroutines that have
sent, so the channel never holds more than there are nodes. `Results` says what a
result stands for: a goroutine past its `docker run` has its container, and one
without a container has an error waiting in the channel; with `Channel`, as many
results without an error as there are nodes mean all containers. `Sweep`,
`Context` and `Earlier` follow `delete.Cluster` through its callers: what was
listed, that the kubeconfig is edited before the containers go, and that a create
that passes the check of the name without `--delete-previous` found nothing.

**CreateWorker.** `Execute(d)` is a sequence that depends on the descriptor. The
proof looks at it as the set of steps that are still ahead, and ranks the 28
steps that the pivot and the charts depend on (`Rank`); `ExecuteList` and the lemmas before it
show that for every descriptor the list has these steps in that order, and
`Plan` that the steps done precede the steps ahead. The invariant `Pivot` then says what holds
between two of these steps: `Handover` (the local operator is away from its
uninstallation until the local KeosCluster has gone), `Copies` (what is about to be
deleted has been copied), `Objects` (the Cluster API objects are somewhere, and
their backup is on the host before they move) and `Furnished` (what the steps that
are done have provided, as long as none failed). `MoveKeeps` goes through the stages
of the move; after it the objects of the workload cluster are active unless the
success was that of a repetition (`Resumed`), and this is the exception that
`AnsweredSuccessIsManaged` names. None of the properties is
inductive alone; `ResourcesKept`, for instance, needs that a copy that failed with
its effect done is not taken for a copy that was not made.

The charts have an invariant of their own (`Supplied`, on top of `Plan`). The
difficulty is that every lookup writes to the global tables. `FinalDict` is what
the pull makes of them, and the lemma `Settled` shows that it is a fixed point: a
later lookup, with the configuration that the pull leaves behind, writes what is
there already. Once that is known `Sound` is preserved: what was pulled and what
was released has the version and repository of `FinalDict`, or, for the operator,
the version that was asked for; it is what `ReleasedAsAsked` needs. For
`ChartsFound`, `Stocked` says what each step done has left behind (values files,
repositories, the operator's chart), and the ranking that the step that left it
comes before the step that looks for it (`Earlier`); `Providers` says which of these
steps each flavour has.

**DockerNetwork.** Neither property is inductive. That a network is left (`Left`)
holds because nobody removes the smallest: what a process is about to remove has a
smaller one beside it that still exists (`Smaller`). That duplicates go holds
because of any two networks somebody is still to remove the greater (`Covered`,
`Responsible`): the process that created it has yet to look, or has both in its
list, or is about to remove it. Both rest on the sort. `SortKeeps` shows that it
returns the entries it got and, while no network has containers, by increasing id;
the recursion is followed to the least position at which this would fail, which is
how the proofs do induction over a sequence. Once a container is attached the
comparison is no order, and the properties do not speak of that time.

**NodeActions.** The properties depend on where main is and on goroutines which may
outlive its error, so the invariant has both views. `Goroutines` counts: while main
waits, the goroutines at work and the results in the channel are as many as main
has still to receive; between the waits there are none. `Prepared` says of each node
that its goroutine is at work, or its work is done, or an error is in the channel;
with the count, the last result without an error means that all is done.
`Working` says what a goroutine relies on, main having failed or not: one that
rewrites the configuration of containerd belongs to a node that has not joined, one
that joins to a worker that is fitted. `Certificates` and `Members` follow the
loops over the secondary control planes, with `Bootstrap` the node that
`kubeadm init` ran on. That there is such a node, the same for every list, is
`FirstIs`: the names of one role are in a strict total order (`RankIs`), and a set of
naturals has a least element. `ReadyIsTrue` then needs nothing about versions: a label that
selects one control plane selects all of them, since all are members by then.

**Kindnetd.** `OneGateway` also says that the node's own subnet has no route, and
that rests on the daemon knowing its own entry in every list it works on
(`OwnNode`) and on the work that is left being that of the node at hand
(`OwnWork`). `ChainBuilt` relates the position of the agent in its round to the
rules that are there; after a restart the round begins again with some of them
already in the chain.

**CreateInput.** `Shapes` says that stored keys are credentials of a provider.
`Travel` follows the credentials: in the call's memory before `EnsureSecretsFile`,
in the secrets file from then on, and what the file held before is still there
(`SecretsStored`, which goes through the two ways of writing it and the map whose
order decides which region is stored); a secrets file that is cut takes with it only
what `lost` then has. `Again`, for `RerunIsAccepted`, says at every step of a call that the
files as they are would be accepted. Three groups of lemmas carry it: a descriptor
without its credentials parses to a spec that differs in the default workload pool
at most (`ParsedAgain`), no rule of the validation tells the two apart
(`SameInfra`, `SameCluster`), and the secrets file as `EnsureSecretsFile` leaves it
answers every question that the old files answered (`ProviderAgain`,
`RegistriesAgain`, `TokenAgain`, `HelmAgain`). The two exceptions show in the last
group: a secrets file that exists never gets the key of the Helm repository
(`HelmAgain`), and for EKS the region that was stored may be that of the spec
instead of that of the credentials (`ProviderAgain`). Where the region is the same,
so is every answer.

### Only model-checked

* Liveness (`EveryRequestEnds`, `CallsReturn`, `CreateReturns`, `ActionsReturn`,
  `EventuallyConverged`): fairness and ENABLED are out of this prover's reach.
* `TaintsMatch`: which taints kubeadm sets in which version is an input of the
  model. A theorem would have to assume that table, and would then compare two
  tables; the run does so for versions on both sides of each change.
* The violated properties of section 3, which are counterexamples.

## 5. Not modelled

Text: what templates print, Helm values, YAML and JSON, encryption. Cloud APIs
beyond whether a call fails and which names exist. Storage classes, IAM policies,
network policies, CoreDNS and the like, which Execute writes and nothing in this
program reads: one step that succeeds or fails. The keos descriptor and override
vars, for the same reason. The conversion of kind's configuration between its
versions. The podman provider (the same shape as docker's). Loading images,
building node images, the spinner: no state that another part depends on. The
upgrade scripts, another program. Two creates of the same cluster name at the same
time, and the refresher's writes to the kubeconfig inside the node, are hazards
listed without a property.

## 6. Plan

All safety and action properties that the passing runs check, but `TaintsMatch`,
are theorems. What could be added:

1. a theorem that relates `DockerNetwork` to an abstract network that is there or
   not, and one that relates `NodeActions` to the single step that it is in
   `LocalCluster`;
2. the podman provider, as an instance of the same `LocalCluster`;
3. two creates of one name at the same time, which is a hazard without a property.

No module uses a RECURSIVE operator, so that all of them can be proved about.
