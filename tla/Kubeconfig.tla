----------------------------- MODULE Kubeconfig -----------------------------
(***************************************************************************)
(* Processes of kind (create, delete, export kubeconfig) that edit shared  *)
(* KUBECONFIG files under the lock files of client-go:                     *)
(* pkg/cluster/internal/kubeconfig/internal/kubeconfig.                    *)
(*                                                                         *)
(* WriteMerged and RemoveKIND are broken up at every system call another   *)
(* process can see: the choice of the file, the creation of the lock file, *)
(* the read, the truncation and the filling of ioutil.WriteFile, and the   *)
(* removal of the lock file.  A process may be killed between any two.     *)
(***************************************************************************)
EXTENDS KubeconfigData

CONSTANTS
    Proc,       \* processes of kind
    Idle,       \* no request
    Foreign,    \* keys that are not kind's: no request names them
    MaxOps,     \* bound: requests made in a behaviour
    MaxFaults   \* bound: failing system calls and kills in a behaviour

ASSUME ForeignAssumption == Foreign \subseteq Key

ASSUME BoundsAssumption == MaxOps \in Nat /\ MaxFaults \in Nat

ASSUME IdleAssumption == Idle \notin Request

VARIABLES
    content,  \* what each file holds
    lock,     \* which lock files exist
    pc,       \* where each process is
    req,      \* the request it carries out
    todo,     \* the files it has still to edit, the current one first
    buf,      \* the Config it is about to write
    torn,     \* history: files in which a write was cut short
    ops,      \* requests made so far
    faults    \* faults so far

vars == <<content, lock, pc, req, todo, buf, torn, ops, faults>>

Labels == {"idle", "choose", "lock", "read", "write", "fill", "unlock",
           "unlockErr", "ok", "err"}

(* From a successful lockFile to the deferred unlockFile.                  *)
Critical == {"read", "write", "fill", "unlock", "unlockErr"}

Resting == {"idle", "ok", "err"}

KindRequest == {r \in Request : r.key \notin Foreign}

ForeignEntries(x) == {e \in x.cfg.entries : e.name \in Foreign}

TypeOK ==
    /\ content \in [File -> Content]
    /\ lock \in [File -> BOOLEAN]
    /\ pc \in [Proc -> Labels]
    /\ req \in [Proc -> Request \union {Idle}]
    /\ todo \in [Proc -> Seq(File)]
    /\ buf \in [Proc -> Config]
    /\ torn \in SUBSET File
    /\ ops \in 0..MaxOps
    /\ faults \in 0..MaxFaults
    /\ \A p \in Proc :
          /\ pc[p] \notin Resting => req[p] \in KindRequest
          /\ pc[p] \notin Resting \union {"choose"} => todo[p] # <<>>

(* A file the user has may hold entries of other clusters.                 *)
InitContents ==
    {Missing} \union
    {Holding(Merge(EmptyConfig, e.name, e.val)) : e \in {e \in Entry : e.name \in Foreign}}

Init ==
    /\ content \in [File -> InitContents]
    /\ lock = [f \in File |-> FALSE]
    /\ pc = [p \in Proc |-> "idle"]
    /\ req = [p \in Proc |-> Idle]
    /\ todo = [p \in Proc |-> <<>>]
    /\ buf = [p \in Proc |-> EmptyConfig]
    /\ torn = {}
    /\ ops = 0
    /\ faults = 0

Goto(p, l) == pc' = [pc EXCEPT ![p] = l]

Fault == faults < MaxFaults /\ faults' = faults + 1

-----------------------------------------------------------------------------
(* Export and Remove: a request begins.  RemoveKIND edits every file of    *)
(* paths() in turn.                                                        *)
Begin(p) ==
    /\ pc[p] \in Resting
    /\ ops < MaxOps
    /\ \E r \in KindRequest :
          /\ req' = [req EXCEPT ![p] = r]
          /\ todo' = [todo EXCEPT ![p] = r.paths]
          /\ Goto(p, IF r.op = "merge" THEN "choose" ELSE "lock")
    /\ ops' = ops + 1
    /\ UNCHANGED <<content, lock, buf, torn, faults>>

(* pathForMerge: the first file that exists, or else the last of the list. *)
PathForMerge(paths) ==
    LET Exists(i) == content[paths[i]].st # "absent"
        found == {i \in DOMAIN paths : Exists(i)}
    IN  IF found = {}
        THEN paths[Len(paths)]
        ELSE paths[CHOOSE i \in found : \A j \in found : i <= j]

(* The choice is made before the lock is taken.                            *)
ChoosePath(p) ==
    /\ pc[p] = "choose"
    /\ todo' = [todo EXCEPT ![p] = <<PathForMerge(req[p].paths)>>]
    /\ Goto(p, "lock")
    /\ UNCHANGED <<content, lock, req, buf, torn, ops, faults>>

(* lockFile: O_CREATE|O_EXCL, no waiting and no retry.                     *)
LockWithoutExcl(p) ==
    /\ pc[p] = "lock"
    /\ lock' = [lock EXCEPT ![Head(todo[p])] = TRUE]
    /\ Goto(p, "read")
    /\ UNCHANGED <<content, req, todo, buf, torn, ops, faults>>

LockFile(p) ==
    /\ pc[p] = "lock"
    /\ ~lock[Head(todo[p])]
    /\ lock' = [lock EXCEPT ![Head(todo[p])] = TRUE]
    /\ Goto(p, "read")
    /\ UNCHANGED <<content, req, todo, buf, torn, ops, faults>>

WaitForLock(p) ==
    /\ pc[p] = "lock"
    /\ Fault
    /\ Goto(p, "err")
    /\ UNCHANGED <<content, lock, req, todo, buf, torn, ops>>

LockFileFails(p) ==
    /\ pc[p] = "lock"
    /\ \/ lock[Head(todo[p])] /\ UNCHANGED faults
       \/ Fault
    /\ Goto(p, "err")
    /\ UNCHANGED <<content, lock, req, todo, buf, torn, ops>>

(* read, then merge or remove on the copy; RemoveKIND writes only if it    *)
(* changed something.                                                      *)
Edit(p, old, unchanged) ==
    /\ pc[p] = "read"
    /\ Readable(content[Head(todo[p])])
    /\ LET new == Effect(req[p], old)
       IN  /\ buf' = [buf EXCEPT ![p] = new]
           /\ Goto(p, IF req[p].op = "remove" /\ new = old
                      THEN unchanged ELSE "write")
    /\ UNCHANGED <<content, lock, req, todo, torn, ops, faults>>

EditCachedCopy(p) ==
    Edit(p, IF buf[p] = EmptyConfig THEN content[Head(todo[p])].cfg ELSE buf[p], "unlock")

ReturnsWithoutUnlock(p) == Edit(p, content[Head(todo[p])].cfg, "ok")

ReadAndEdit(p) == Edit(p, content[Head(todo[p])].cfg, "unlock")

ReadFails(p) ==
    /\ pc[p] = "read"
    /\ \/ ~Readable(content[Head(todo[p])]) /\ UNCHANGED faults
       \/ Fault
    /\ Goto(p, "unlockErr")
    /\ UNCHANGED <<content, lock, req, todo, buf, torn, ops>>

(* write: ioutil.WriteFile truncates the file and then fills it.           *)
Truncate(p) ==
    /\ pc[p] = "write"
    /\ content' = [content EXCEPT ![Head(todo[p])] = Holding(EmptyConfig)]
    /\ Goto(p, "fill")
    /\ UNCHANGED <<lock, req, todo, buf, torn, ops, faults>>

OpenFails(p) ==
    /\ pc[p] = "write"
    /\ Fault
    /\ Goto(p, "unlockErr")
    /\ UNCHANGED <<content, lock, req, todo, buf, torn, ops>>

FillWithoutContext(p) ==
    /\ pc[p] = "fill"
    /\ content' = [content EXCEPT ![Head(todo[p])] =
                      Holding([buf[p] EXCEPT !.current = NoKey])]
    /\ Goto(p, "unlock")
    /\ UNCHANGED <<lock, req, todo, buf, torn, ops, faults>>

Fill(p) ==
    /\ pc[p] = "fill"
    /\ content' = [content EXCEPT ![Head(todo[p])] = Holding(buf[p])]
    /\ Goto(p, "unlock")
    /\ UNCHANGED <<lock, req, todo, buf, torn, ops, faults>>

FillFails(p) ==
    /\ pc[p] = "fill"
    /\ Fault
    /\ \E x \in Cut(buf[p]) :
          content' = [content EXCEPT ![Head(todo[p])] = x]
    /\ torn' = torn \union {Head(todo[p])}
    /\ Goto(p, "unlockErr")
    /\ UNCHANGED <<lock, req, todo, buf, ops>>

(* The deferred unlockFile, whose own error is dropped; then the next file *)
(* of RemoveKIND, or the return.                                           *)
UnlockThenNext(p, least) ==
    /\ pc[p] \in {"unlock", "unlockErr"}
    /\ \/ lock' = [lock EXCEPT ![Head(todo[p])] = FALSE] /\ UNCHANGED faults
       \/ Fault /\ UNCHANGED lock
    /\ IF pc[p] = "unlock" /\ Len(todo[p]) > least
       THEN /\ todo' = [todo EXCEPT ![p] = Tail(@)]
            /\ Goto(p, "lock")
       ELSE /\ Goto(p, IF pc[p] = "unlock" THEN "ok" ELSE "err")
            /\ UNCHANGED todo
    /\ UNCHANGED <<content, req, buf, torn, ops>>

OneFileTooMany(p) == UnlockThenNext(p, 0)

UnlockFile(p) == UnlockThenNext(p, 1)

(* The process is killed.  Nothing removes its lock file.                  *)
Kill(p) ==
    /\ pc[p] \notin Resting
    /\ Fault
    /\ IF pc[p] = "fill"
       THEN /\ \E x \in Cut(buf[p]) :
                  content' = [content EXCEPT ![Head(todo[p])] = x]
            /\ torn' = torn \union {Head(todo[p])}
       ELSE UNCHANGED <<content, torn>>
    /\ Goto(p, "idle")
    /\ UNCHANGED <<lock, req, todo, buf, ops>>

Step(p) ==
    \/ ChoosePath(p)
    \/ LockFile(p) \/ LockFileFails(p)
    \/ ReadAndEdit(p) \/ ReadFails(p)
    \/ Truncate(p) \/ OpenFails(p)
    \/ Fill(p) \/ FillFails(p)
    \/ UnlockFile(p)

Next == \E p \in Proc : Begin(p) \/ Step(p) \/ Kill(p)

Spec == Init /\ [][Next]_vars

(* A process that is running keeps running.                                *)
FairSpec == Spec /\ \A p \in Proc : WF_vars(Step(p))

-----------------------------------------------------------------------------
InCritical(p, f) == pc[p] \in Critical /\ Head(todo[p]) = f

(***************************************************************************)
(* lockFile is a lock: no two processes are between the creation and the   *)
(* removal of the lock file of the same kubeconfig (lock.go, merge.go,     *)
(* remove.go), even when processes are killed and lock files are left.     *)
(***************************************************************************)
MutualExclusion ==
    \A f \in File : \A p, q \in Proc :
        InCritical(p, f) /\ InCritical(q, f) => p = q

(***************************************************************************)
(* No lost update: what WriteMerged or RemoveKIND is about to write is the *)
(* effect of its own request on what the file holds now, so it overwrites  *)
(* nobody's entries with a stale copy.                                     *)
(***************************************************************************)
WritesAreFresh ==
    \A p \in Proc :
        pc[p] = "write" =>
            /\ Readable(content[Head(todo[p])])
            /\ buf[p] = Effect(req[p], content[Head(todo[p])].cfg)

(***************************************************************************)
(* Every return of WriteMerged and RemoveKIND gives the lock back: without *)
(* a kill or a failing system call, a lock file exists only while some     *)
(* process works on that file.                                             *)
(***************************************************************************)
NoLockLeft ==
    faults = 0 =>
        \A f \in File : lock[f] => \E p \in Proc : InCritical(p, f)

(* The file as the next reader that takes the lock will find it.           *)
Filler(f) == CHOOSE p \in Proc : pc[p] = "fill" /\ Head(todo[p]) = f

View ==
    [f \in File |->
        IF \E p \in Proc : pc[p] = "fill" /\ Head(todo[p]) = f
        THEN Holding(buf[Filler(f)]) ELSE content[f]]

(***************************************************************************)
(* Entries that are not kind's survive whatever interleaving of merges and *)
(* removals, unless a write on that file was cut short.                    *)
(***************************************************************************)
ForeignKept ==
    [][\A f \in File :
          f \notin torn' => ForeignEntries(View[f]) \subseteq ForeignEntries(View'[f])]_vars

(***************************************************************************)
(* The protocol implements the atomic edits of KubeconfigAtomic.           *)
(***************************************************************************)
Pending == [p \in Proc |-> IF pc[p] \in Resting THEN Idle ELSE req[p]]

Atomic == INSTANCE KubeconfigAtomic WITH store <- View, pending <- Pending,
                                         spoiled <- torn

ImplementsAtomic == Atomic!ASpec

(***************************************************************************)
(* Nobody waits for a lock: every request that begins ends in success,     *)
(* error, or the death of its process, however many lock files were left.  *)
(***************************************************************************)
EveryRequestEnds == \A p \in Proc : pc[p] \notin Resting ~> pc[p] \in Resting

=============================================================================
