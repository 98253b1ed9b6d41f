-------------------------- MODULE KubeconfigProofs --------------------------
(***************************************************************************)
(* Proofs about Kubeconfig for every set of files, keys, values and        *)
(* processes, and every bound on requests and faults.                      *)
(***************************************************************************)
EXTENDS Kubeconfig, WellFoundedInduction, TLAPS

(* A set of naturals that is not empty has a least element.                *)
LEMMA LeastNatural ==
    ASSUME NEW S \in SUBSET Nat, S # {}
    PROVE  \E i \in S : \A j \in S : i <= j
<1> DEFINE R == {ss \in Nat \X Nat : ss[1] < ss[2]}
<1>1. IsWellFoundedOn(R, Nat)
  BY NatLessThanWellFounded, Zenon DEF OpToRel
<1>2. PICK x \in S : \A y \in S : ~ (<<y, x>> \in R)
  <2> HIDE DEF R
  <2> QED
    BY <1>1, WFMin
<1>3. \A y \in S : ~(y < x)
  BY <1>2
<1> QED
  BY <1>3

(* merge and remove give a Config.                                         *)
LEMMA EffectType ==
    ASSUME NEW r \in Request, NEW c \in Config
    PROVE  Effect(r, c) \in Config
<1>1. CASE r.op = "merge"
  <2>1. r.key \in Key /\ r.val \in Val
    BY <1>1 DEF Request
  <2> QED
    BY <1>1, <2>1 DEF Effect, Merge, Config, Entry
<1>2. CASE r.op # "merge"
  <2>1. r.key \in Key
    BY DEF Request
  <2> QED
    BY <1>2, <2>1 DEF Effect, Remove, Config
<1> QED
  BY <1>1, <1>2

LEMMA ContentType ==
    /\ \A c \in Config : Holding(c) \in Content
    /\ \A c \in Config : Cut(c) \subseteq Content
    /\ EmptyConfig \in Config
<1>1. EmptyConfig \in Config
  BY DEF EmptyConfig, Config
<1>2. \A c \in Config : Holding(c) \in Content
  BY DEF Holding, Content
<1>3. ASSUME NEW c \in Config PROVE Cut(c) \subseteq Content
  <2>1. Garbled \in Content
    BY <1>1 DEF Garbled, Content
  <2>2. [entries : SUBSET c.entries, current : {c.current, NoKey}] \subseteq Config
    BY DEF Config
  <2> QED
    BY <1>2, <2>1, <2>2 DEF Cut
<1> QED
  BY <1>1, <1>2, <1>3

(* What remains of a list of files.                                        *)
LEMMA FileLists ==
    ASSUME NEW s \in Seq(File), s # <<>>
    PROVE  /\ Head(s) \in File
           /\ Len(s) > 1 => Tail(s) \in Seq(File) /\ Tail(s) # <<>>
<1>1. Head(s) \in File
  OBVIOUS
<1>2. ASSUME Len(s) > 1 PROVE Tail(s) \in Seq(File) /\ Tail(s) # <<>>
  <2>1. Tail(s) \in Seq(File) /\ Len(Tail(s)) = Len(s) - 1
    BY <1>2
  <2>2. Len(s) \in Nat /\ Len(<<>>) = 0
    OBVIOUS
  <2>3. Len(Tail(s)) # Len(<<>>)
    BY <1>2, <2>1, <2>2
  <2> QED
    BY <2>1, <2>3, Zenon
<1> QED
  BY <1>1, <1>2

(* pathForMerge returns a file of the list.                                *)
LEMMA PathForMergeType ==
    ASSUME NEW paths \in PathLists
    PROVE  PathForMerge(paths) \in File
<1> DEFINE found == {i \in DOMAIN paths : content[paths[i]].st # "absent"}
<1>1. paths \in Seq(File) /\ paths # <<>>
  BY PathListsAssumption
<1>2. CASE found = {}
  BY <1>1, <1>2 DEF PathForMerge
<1>3. CASE found # {}
  <2>1. found \in SUBSET Nat
    BY <1>1
  <2>2. \E i \in found : \A j \in found : i <= j
    BY <1>3, <2>1, LeastNatural
  <2>3. (CHOOSE i \in found : \A j \in found : i <= j) \in DOMAIN paths
    BY <2>2
  <2> QED
    BY <1>1, <1>3, <2>3 DEF PathForMerge
<1> QED
  BY <1>2, <1>3

-----------------------------------------------------------------------------
(* Every action keeps the types.                                           *)
LEMMA TypeInit == Init => TypeOK
<1> SUFFICES ASSUME Init PROVE TypeOK
  OBVIOUS
<1>1. InitContents \subseteq Content
  <2>1. Missing \in Content
    BY ContentType DEF Missing, Content
  <2>2. ASSUME NEW e \in Entry PROVE Merge(EmptyConfig, e.name, e.val) \in Config
    BY ContentType DEF Merge, Config, Entry
  <2> QED
    BY <2>1, <2>2, ContentType DEF InitContents
<1>2. content \in [File -> Content]
  BY <1>1 DEF Init
<1> QED
  BY <1>2, ContentType, BoundsAssumption DEF Init, TypeOK, Labels, Resting

LEMMA TypeStep == TypeOK /\ [Next]_vars => TypeOK'
<1> SUFFICES ASSUME TypeOK, [Next]_vars PROVE TypeOK'
  OBVIOUS
<1> USE DEF TypeOK, Goto, Fault, Labels, Resting
<1>1. ASSUME NEW p \in Proc, Begin(p) PROVE TypeOK'
  <2>1. PICK r \in KindRequest :
           /\ req' = [req EXCEPT ![p] = r]
           /\ todo' = [todo EXCEPT ![p] = r.paths]
           /\ Goto(p, IF r.op = "merge" THEN "choose" ELSE "lock")
    BY <1>1 DEF Begin
  <2>2. r \in Request /\ r.paths \in Seq(File) /\ r.paths # <<>>
    BY PathListsAssumption DEF KindRequest, Request
  <2>3. ops' \in 0..MaxOps
    BY <1>1, BoundsAssumption DEF Begin
  <2> QED
    BY <1>1, <2>1, <2>2, <2>3 DEF Begin
<1>2. ASSUME NEW p \in Proc, ChoosePath(p) PROVE TypeOK'
  <2>1. req[p].paths \in PathLists
    BY <1>2 DEF ChoosePath, KindRequest, Request
  <2>2. PathForMerge(req[p].paths) \in File
    BY <2>1, PathForMergeType
  <2> QED
    BY <1>2, <2>2 DEF ChoosePath
<1>3. ASSUME NEW p \in Proc, LockFile(p) PROVE TypeOK'
  BY <1>3 DEF LockFile
<1>4. ASSUME NEW p \in Proc, LockFileFails(p) PROVE TypeOK'
  BY <1>4, BoundsAssumption DEF LockFileFails
<1>5. ASSUME NEW p \in Proc, ReadAndEdit(p) PROVE TypeOK'
  <2>1. Head(todo[p]) \in File
    BY <1>5, FileLists DEF ReadAndEdit, Edit
  <2>2. content[Head(todo[p])].cfg \in Config
    BY <2>1 DEF Content
  <2>3. Effect(req[p], content[Head(todo[p])].cfg) \in Config
    BY <1>5, <2>2, EffectType DEF ReadAndEdit, Edit, KindRequest
  <2> QED
    BY <1>5, <2>3 DEF ReadAndEdit, Edit
<1>6. ASSUME NEW p \in Proc, ReadFails(p) PROVE TypeOK'
  BY <1>6, BoundsAssumption DEF ReadFails
<1>7. ASSUME NEW p \in Proc, Truncate(p) PROVE TypeOK'
  BY <1>7, ContentType DEF Truncate
<1>8. ASSUME NEW p \in Proc, OpenFails(p) PROVE TypeOK'
  BY <1>8, BoundsAssumption DEF OpenFails
<1>9. ASSUME NEW p \in Proc, Fill(p) PROVE TypeOK'
  BY <1>9, ContentType DEF Fill
<1>10. ASSUME NEW p \in Proc, FillFails(p) PROVE TypeOK'
  <2>1. Cut(buf[p]) \subseteq Content /\ Head(todo[p]) \in File
    BY <1>10, ContentType, FileLists DEF FillFails
  <2>2. content' \in [File -> Content] /\ torn' \in SUBSET File
    BY <1>10, <2>1 DEF FillFails
  <2> QED
    BY <1>10, <2>2, BoundsAssumption DEF FillFails
<1>11. ASSUME NEW p \in Proc, UnlockFile(p) PROVE TypeOK'
  <2>1. lock' \in [File -> BOOLEAN]
    BY <1>11 DEF UnlockFile, UnlockThenNext
  <2>3. faults' \in 0..MaxFaults
    BY <1>11, BoundsAssumption DEF UnlockFile, UnlockThenNext
  <2>2. Len(todo[p]) > 1 => Tail(todo[p]) \in Seq(File) /\ Tail(todo[p]) # <<>>
    BY <1>11, FileLists DEF UnlockFile, UnlockThenNext
  <2> QED
    BY <1>11, <2>1, <2>2, <2>3 DEF UnlockFile, UnlockThenNext
<1>12. ASSUME NEW p \in Proc, Kill(p) PROVE TypeOK'
  <2>1. content' \in [File -> Content] /\ torn' \in SUBSET File
    <3>1. CASE pc[p] = "fill"
      <4>1. Cut(buf[p]) \subseteq Content /\ Head(todo[p]) \in File
        BY <3>1, ContentType, FileLists
      <4> QED
        BY <1>12, <3>1, <4>1 DEF Kill
    <3>2. CASE pc[p] # "fill"
      BY <1>12, <3>2 DEF Kill
    <3> QED
      BY <3>1, <3>2
  <2> QED
    BY <1>12, <2>1, BoundsAssumption DEF Kill
<1>13. CASE UNCHANGED vars
  BY <1>13 DEF vars
<1> QED
  BY <1>1, <1>2, <1>3, <1>4, <1>5, <1>6, <1>7, <1>8, <1>9, <1>10, <1>11, <1>12, <1>13
     DEF Next, Step

(***************************************************************************)
(* WriteMerged and RemoveKIND keep every file, lock and copy well formed,  *)
(* and a process at work always has a file in hand.                        *)
(***************************************************************************)
THEOREM TypeCorrect == Spec => []TypeOK
  BY TypeInit, TypeStep, PTL DEF Spec

-----------------------------------------------------------------------------
(* Mutual exclusion is not inductive by itself: that nobody else enters    *)
(* depends on the lock file being there, and that it stays there depends   *)
(* on nobody else being inside.                                            *)
LockHeld == \A p \in Proc : pc[p] \in Critical => lock[Head(todo[p])]

Locking == LockHeld /\ MutualExclusion /\ WritesAreFresh

LEMMA LockingInit == Init => Locking
  BY DEF Init, Locking, LockHeld, MutualExclusion, InCritical, WritesAreFresh, Critical

LEMMA LockingStep == TypeOK /\ Locking /\ [Next]_vars => Locking'
<1> SUFFICES ASSUME TypeOK, Locking, [Next]_vars PROVE Locking'
  OBVIOUS
<1> USE DEF Locking, Goto, Critical, Resting
<1>types. /\ content \in [File -> Content]
          /\ lock \in [File -> BOOLEAN]
          /\ pc \in [Proc -> Labels]
          /\ req \in [Proc -> Request \union {Idle}]
          /\ todo \in [Proc -> Seq(File)]
          /\ buf \in [Proc -> Config]
  BY DEF TypeOK
<1>head. \A p \in Proc : pc[p] \notin Resting \union {"choose"} => Head(todo[p]) \in File
  BY FileLists DEF TypeOK
<1>1. ASSUME NEW r \in Proc, Begin(r) PROVE Locking'
  <2>1. LockHeld'
    BY <1>1, <1>types, <1>head DEF Begin, LockHeld, MutualExclusion, InCritical
  <2>2. MutualExclusion'
    BY <1>1, <1>types, <1>head DEF Begin, LockHeld, MutualExclusion, InCritical
  <2>3. WritesAreFresh'
    BY <1>1, <1>types, <1>head DEF Begin, MutualExclusion, InCritical, WritesAreFresh
  <2> QED
    BY <2>1, <2>2, <2>3
<1>2. ASSUME NEW r \in Proc, ChoosePath(r) PROVE Locking'
  <2>1. LockHeld'
    BY <1>2, <1>types, <1>head DEF ChoosePath, LockHeld, MutualExclusion, InCritical
  <2>2. MutualExclusion'
    BY <1>2, <1>types, <1>head DEF ChoosePath, LockHeld, MutualExclusion, InCritical
  <2>3. WritesAreFresh'
    BY <1>2, <1>types, <1>head DEF ChoosePath, MutualExclusion, InCritical, WritesAreFresh
  <2> QED
    BY <2>1, <2>2, <2>3
<1>3. ASSUME NEW r \in Proc, LockFile(r) PROVE Locking'
  <2>1. LockHeld'
    BY <1>3, <1>types, <1>head DEF LockFile, LockHeld, MutualExclusion, InCritical
  <2>2. MutualExclusion'
    BY <1>3, <1>types, <1>head DEF LockFile, LockHeld, MutualExclusion, InCritical
  <2>3. WritesAreFresh'
    BY <1>3, <1>types, <1>head DEF LockFile, MutualExclusion, InCritical, WritesAreFresh
  <2> QED
    BY <2>1, <2>2, <2>3
<1>4. ASSUME NEW r \in Proc, LockFileFails(r) PROVE Locking'
  <2>1. LockHeld'
    BY <1>4, <1>types, <1>head DEF LockFileFails, LockHeld, MutualExclusion, InCritical
  <2>2. MutualExclusion'
    BY <1>4, <1>types, <1>head DEF LockFileFails, LockHeld, MutualExclusion, InCritical
  <2>3. WritesAreFresh'
    BY <1>4, <1>types, <1>head DEF LockFileFails, MutualExclusion, InCritical, WritesAreFresh
  <2> QED
    BY <2>1, <2>2, <2>3
<1>5. ASSUME NEW r \in Proc, ReadAndEdit(r) PROVE Locking'
  <2>1. LockHeld'
    BY <1>5, <1>types, <1>head DEF ReadAndEdit, Edit, LockHeld, MutualExclusion, InCritical
  <2>2. MutualExclusion'
    BY <1>5, <1>types, <1>head DEF ReadAndEdit, Edit, LockHeld, MutualExclusion, InCritical
  <2>3. WritesAreFresh'
    BY <1>5, <1>types, <1>head DEF ReadAndEdit, Edit, MutualExclusion, InCritical, WritesAreFresh
  <2> QED
    BY <2>1, <2>2, <2>3
<1>6. ASSUME NEW r \in Proc, ReadFails(r) PROVE Locking'
  <2>1. LockHeld'
    BY <1>6, <1>types, <1>head DEF ReadFails, LockHeld, MutualExclusion, InCritical
  <2>2. MutualExclusion'
    BY <1>6, <1>types, <1>head DEF ReadFails, LockHeld, MutualExclusion, InCritical
  <2>3. WritesAreFresh'
    BY <1>6, <1>types, <1>head DEF ReadFails, MutualExclusion, InCritical, WritesAreFresh
  <2> QED
    BY <2>1, <2>2, <2>3
<1>7. ASSUME NEW r \in Proc, Truncate(r) PROVE Locking'
  <2>1. LockHeld'
    BY <1>7, <1>types, <1>head DEF Truncate, LockHeld, MutualExclusion, InCritical
  <2>2. MutualExclusion'
    BY <1>7, <1>types, <1>head DEF Truncate, LockHeld, MutualExclusion, InCritical
  <2>3. WritesAreFresh'
    BY <1>7, <1>types, <1>head DEF Truncate, MutualExclusion, InCritical, WritesAreFresh
  <2> QED
    BY <2>1, <2>2, <2>3
<1>8. ASSUME NEW r \in Proc, OpenFails(r) PROVE Locking'
  <2>1. LockHeld'
    BY <1>8, <1>types, <1>head DEF OpenFails, LockHeld, MutualExclusion, InCritical
  <2>2. MutualExclusion'
    BY <1>8, <1>types, <1>head DEF OpenFails, LockHeld, MutualExclusion, InCritical
  <2>3. WritesAreFresh'
    BY <1>8, <1>types, <1>head DEF OpenFails, MutualExclusion, InCritical, WritesAreFresh
  <2> QED
    BY <2>1, <2>2, <2>3
<1>9. ASSUME NEW r \in Proc, Fill(r) PROVE Locking'
  <2>1. LockHeld'
    BY <1>9, <1>types, <1>head DEF Fill, LockHeld, MutualExclusion, InCritical
  <2>2. MutualExclusion'
    BY <1>9, <1>types, <1>head DEF Fill, LockHeld, MutualExclusion, InCritical
  <2>3. WritesAreFresh'
    BY <1>9, <1>types, <1>head DEF Fill, MutualExclusion, InCritical, WritesAreFresh
  <2> QED
    BY <2>1, <2>2, <2>3
<1>10. ASSUME NEW r \in Proc, FillFails(r) PROVE Locking'
  <2>1. LockHeld'
    BY <1>10, <1>types, <1>head DEF FillFails, LockHeld, MutualExclusion, InCritical
  <2>2. MutualExclusion'
    BY <1>10, <1>types, <1>head DEF FillFails, LockHeld, MutualExclusion, InCritical
  <2>3. WritesAreFresh'
    BY <1>10, <1>types, <1>head DEF FillFails, MutualExclusion, InCritical, WritesAreFresh
  <2> QED
    BY <2>1, <2>2, <2>3
<1>11. ASSUME NEW r \in Proc, UnlockFile(r) PROVE Locking'
  <2>1. pc'[r] \notin Critical /\ pc'[r] # "write"
    BY <1>11, <1>types DEF UnlockFile, UnlockThenNext
  <2>2. \A p \in Proc \ {r} : pc'[p] = pc[p] /\ todo'[p] = todo[p]
    BY <1>11, <1>types DEF UnlockFile, UnlockThenNext
  <2>3. \A f \in File : f # Head(todo[r]) => lock'[f] = lock[f]
    BY <1>11, <1>types DEF UnlockFile, UnlockThenNext
  <2>4. pc[r] \in Critical
    BY <1>11 DEF UnlockFile, UnlockThenNext
  <2>5. LockHeld'
    <3> SUFFICES ASSUME NEW p \in Proc, pc'[p] \in Critical
                 PROVE  lock'[Head(todo'[p])]
      BY DEF LockHeld
    <3>1. p # r /\ pc[p] \in Critical /\ todo'[p] = todo[p]
      BY <2>1, <2>2
    <3>2. Head(todo[p]) \in File /\ Head(todo[r]) \in File
      BY <2>4, <3>1, <1>head
    <3>3. Head(todo[p]) # Head(todo[r])
      BY <2>4, <3>1, <3>2 DEF MutualExclusion, InCritical
    <3> QED
      BY <2>3, <3>1, <3>2, <3>3 DEF LockHeld
  <2>6. MutualExclusion'
    BY <2>1, <2>2 DEF MutualExclusion, InCritical
  <2>7. WritesAreFresh'
    BY <1>11, <2>1, <2>2 DEF UnlockFile, UnlockThenNext, WritesAreFresh
  <2> QED
    BY <2>5, <2>6, <2>7
<1>12. ASSUME NEW r \in Proc, Kill(r) PROVE Locking'
  <2>1. LockHeld'
    BY <1>12, <1>types, <1>head DEF Kill, LockHeld, MutualExclusion, InCritical
  <2>2. MutualExclusion'
    BY <1>12, <1>types, <1>head DEF Kill, LockHeld, MutualExclusion, InCritical
  <2>3. WritesAreFresh'
    BY <1>12, <1>types, <1>head DEF Kill, MutualExclusion, InCritical, WritesAreFresh
  <2> QED
    BY <2>1, <2>2, <2>3
<1>13. CASE UNCHANGED vars
  BY <1>13 DEF vars, LockHeld, MutualExclusion, InCritical, WritesAreFresh
<1> QED
  BY <1>1, <1>2, <1>3, <1>4, <1>5, <1>6, <1>7, <1>8, <1>9, <1>10, <1>11, <1>12, <1>13
     DEF Next, Step

(***************************************************************************)
(* lockFile excludes: between its success and unlockFile no other process  *)
(* is there for the same file, for any number of processes, kills and      *)
(* lock files left behind.                                                 *)
(***************************************************************************)
THEOREM LockExcludes == Spec => []MutualExclusion
<1>1. Init => TypeOK /\ Locking
  BY TypeInit, LockingInit
<1>2. TypeOK /\ Locking /\ [Next]_vars => (TypeOK /\ Locking)'
  BY TypeStep, LockingStep
<1>3. Locking => MutualExclusion
  BY DEF Locking
<1> QED
  BY <1>1, <1>2, <1>3, PTL DEF Spec

(***************************************************************************)
(* No lost update: what WriteMerged or RemoveKIND writes is the effect of  *)
(* its request on what the file holds at that moment.                      *)
(***************************************************************************)
THEOREM NoLostUpdate == Spec => []WritesAreFresh
<1>1. Init => TypeOK /\ Locking
  BY TypeInit, LockingInit
<1>2. TypeOK /\ Locking /\ [Next]_vars => (TypeOK /\ Locking)'
  BY TypeStep, LockingStep
<1>3. Locking => WritesAreFresh
  BY DEF Locking
<1> QED
  BY <1>1, <1>2, <1>3, PTL DEF Spec

-----------------------------------------------------------------------------
(* NoLockLeft, for the induction.                                          *)
HolderInside ==
    faults = 0 => \A f \in File : lock[f] =>
        \E p \in Proc : pc[p] \in Critical /\ Head(todo[p]) = f

LEMMA HolderStep == TypeOK /\ HolderInside /\ [Next]_vars => HolderInside'
<1> SUFFICES ASSUME TypeOK, HolderInside, [Next]_vars PROVE HolderInside'
  OBVIOUS
<1> USE DEF HolderInside, Critical, Resting
<1>types. /\ lock \in [File -> BOOLEAN]
          /\ pc \in [Proc -> Labels]
          /\ todo \in [Proc -> Seq(File)]
          /\ faults \in Nat
  BY BoundsAssumption DEF TypeOK
<1>1. ASSUME NEW r \in Proc, Begin(r) PROVE HolderInside'
  BY <1>1, <1>types DEF Begin, Goto, Fault
<1>2. ASSUME NEW r \in Proc, ChoosePath(r) PROVE HolderInside'
  BY <1>2, <1>types DEF ChoosePath, Goto, Fault
<1>3. ASSUME NEW r \in Proc, LockFileFails(r) PROVE HolderInside'
  BY <1>3, <1>types DEF LockFileFails, Goto, Fault
<1>4. ASSUME NEW r \in Proc, ReadAndEdit(r) PROVE HolderInside'
  BY <1>4, <1>types DEF ReadAndEdit, Edit, Goto, Fault
<1>5. ASSUME NEW r \in Proc, ReadFails(r) PROVE HolderInside'
  BY <1>5, <1>types DEF ReadFails, Goto, Fault
<1>6. ASSUME NEW r \in Proc, Truncate(r) PROVE HolderInside'
  BY <1>6, <1>types DEF Truncate, Goto, Fault
<1>7. ASSUME NEW r \in Proc, OpenFails(r) PROVE HolderInside'
  BY <1>7, <1>types DEF OpenFails, Goto, Fault
<1>8. ASSUME NEW r \in Proc, Fill(r) PROVE HolderInside'
  BY <1>8, <1>types DEF Fill, Goto, Fault
<1>9. ASSUME NEW r \in Proc, FillFails(r) PROVE HolderInside'
  BY <1>9, <1>types DEF FillFails, Goto, Fault
<1>10. ASSUME NEW r \in Proc, LockFile(r) PROVE HolderInside'
  <2> SUFFICES ASSUME faults' = 0, NEW f \in File, lock'[f]
               PROVE  \E p \in Proc : pc'[p] \in Critical /\ Head(todo'[p]) = f
    OBVIOUS
  <2>1. CASE f = Head(todo[r])
    BY <1>10, <1>types, <2>1 DEF LockFile, Goto
  <2>2. CASE f # Head(todo[r])
    <3>1. PICK p \in Proc : pc[p] \in Critical /\ Head(todo[p]) = f
      BY <1>10, <1>types, <2>2 DEF LockFile
    <3> QED
      BY <1>10, <1>types, <3>1 DEF LockFile, Goto
  <2> QED
    BY <2>1, <2>2
<1>11. ASSUME NEW r \in Proc, UnlockFile(r) PROVE HolderInside'
  <2> SUFFICES ASSUME faults' = 0, NEW f \in File, lock'[f]
               PROVE  \E p \in Proc : pc'[p] \in Critical /\ Head(todo'[p]) = f
    OBVIOUS
  <2>1. lock' = [lock EXCEPT ![Head(todo[r])] = FALSE] /\ faults = 0
    BY <1>11, <1>types DEF UnlockFile, UnlockThenNext, Fault
  <2>2. lock[f] /\ f # Head(todo[r])
    BY <1>types, <2>1
  <2>3. PICK p \in Proc : pc[p] \in Critical /\ Head(todo[p]) = f
    BY <2>1, <2>2
  <2>4. pc'[p] = pc[p] /\ todo'[p] = todo[p]
    BY <1>11, <1>types, <2>2, <2>3 DEF UnlockFile, UnlockThenNext, Goto
  <2> QED
    BY <2>3, <2>4
<1>12. ASSUME NEW r \in Proc, Kill(r) PROVE HolderInside'
  BY <1>12, <1>types DEF Kill, Fault
<1>13. CASE UNCHANGED vars
  BY <1>13 DEF vars
<1> QED
  BY <1>1, <1>2, <1>3, <1>4, <1>5, <1>6, <1>7, <1>8, <1>9, <1>10, <1>11, <1>12, <1>13
     DEF Next, Step

(***************************************************************************)
(* WriteMerged and RemoveKIND give the lock back on every way out: unless  *)
(* something failed or was killed, a lock file has a process behind it.    *)
(***************************************************************************)
THEOREM LocksAreReturned == Spec => []NoLockLeft
<1>1. Init => TypeOK /\ HolderInside
  BY TypeInit DEF Init, HolderInside
<1>2. TypeOK /\ HolderInside /\ [Next]_vars => (TypeOK /\ HolderInside)'
  BY TypeStep, HolderStep
<1>3. HolderInside => NoLockLeft
  BY DEF HolderInside, NoLockLeft, InCritical
<1> QED
  BY <1>1, <1>2, <1>3, PTL DEF Spec

=============================================================================
