------------------------ MODULE KubeconfigRefinement ------------------------
(***************************************************************************)
(* Kubeconfig implements KubeconfigAtomic, and the entries that are not    *)
(* kind's survive, for every set of files, keys, values and processes.     *)
(*                                                                         *)
(* Both follow from what a step does to View, the files as the next holder *)
(* of the lock finds them.                                                 *)
(***************************************************************************)
EXTENDS KubeconfigProofs

(* The files a process has still to edit are files of its request: the one *)
(* that pathForMerge chose, or the rest of the list of RemoveKIND.         *)
OwnFiles ==
    \A p \in Proc : pc[p] \notin Resting =>
        \A i \in DOMAIN todo[p] : \E j \in DOMAIN req[p].paths : todo[p][i] = req[p].paths[j]

LEMMA OwnFilesInit == Init => OwnFiles
  BY DEF Init, OwnFiles, Resting

(* pathForMerge returns a file of the list.                                *)
LEMMA PathForMergeListed ==
    ASSUME NEW paths \in PathLists
    PROVE  \E j \in DOMAIN paths : PathForMerge(paths) = paths[j]
<1> DEFINE found == {i \in DOMAIN paths : content[paths[i]].st # "absent"}
<1>1. paths \in Seq(File) /\ paths # <<>>
  BY PathListsAssumption
<1>2. CASE found = {}
  <2>1. Len(paths) \in DOMAIN paths
    BY <1>1
  <2> QED
    BY <1>2, <2>1 DEF PathForMerge
<1>3. CASE found # {}
  <2>1. found \in SUBSET Nat
    BY <1>1
  <2>2. \E i \in found : \A j \in found : i <= j
    BY <1>3, <2>1, LeastNatural
  <2>3. (CHOOSE i \in found : \A j \in found : i <= j) \in DOMAIN paths
    BY <2>2
  <2> QED
    BY <1>3, <2>3 DEF PathForMerge
<1> QED
  BY <1>2, <1>3

LEMMA OwnFilesStep == TypeOK /\ OwnFiles /\ [Next]_vars => OwnFiles'
<1> SUFFICES ASSUME TypeOK, OwnFiles, [Next]_vars PROVE OwnFiles'
  OBVIOUS
<1> USE DEF OwnFiles, Goto, Resting
<1>types. /\ pc \in [Proc -> Labels]
          /\ req \in [Proc -> Request \union {Idle}]
          /\ todo \in [Proc -> Seq(File)]
  BY DEF TypeOK
<1>1. ASSUME NEW r \in Proc, Begin(r) PROVE OwnFiles'
  BY <1>1, <1>types DEF Begin
<1>2. ASSUME NEW r \in Proc, ChoosePath(r) PROVE OwnFiles'
  <2>1. req[r].paths \in PathLists
    BY <1>2 DEF ChoosePath, TypeOK, KindRequest, Request
  <2>2. PICK j \in DOMAIN req[r].paths : PathForMerge(req[r].paths) = req[r].paths[j]
    BY <2>1, PathForMergeListed
  <2>3. todo' = [todo EXCEPT ![r] = <<req[r].paths[j]>>] /\ req' = req
    BY <1>2, <2>2 DEF ChoosePath
  <2>4. ASSUME NEW p \in Proc, p # r
        PROVE  todo'[p] = todo[p] /\ req'[p] = req[p] /\ pc'[p] = pc[p]
    BY <1>2, <1>types, <2>3, <2>4 DEF ChoosePath
  <2>5. todo'[r] = <<req[r].paths[j]>> /\ req'[r] = req[r]
    BY <1>types, <2>3
  <2>6. ASSUME NEW i \in DOMAIN todo'[r] PROVE todo'[r][i] = req'[r].paths[j]
    BY <2>5, <2>6
  <2> QED
    BY <2>4, <2>5, <2>6
<1>3. ASSUME NEW r \in Proc, LockFile(r) PROVE OwnFiles'
  BY <1>3, <1>types DEF LockFile
<1>4. ASSUME NEW r \in Proc, LockFileFails(r) PROVE OwnFiles'
  BY <1>4, <1>types DEF LockFileFails
<1>5. ASSUME NEW r \in Proc, ReadAndEdit(r) PROVE OwnFiles'
  BY <1>5, <1>types DEF ReadAndEdit, Edit
<1>6. ASSUME NEW r \in Proc, ReadFails(r) PROVE OwnFiles'
  BY <1>6, <1>types DEF ReadFails
<1>7. ASSUME NEW r \in Proc, Truncate(r) PROVE OwnFiles'
  BY <1>7, <1>types DEF Truncate
<1>8. ASSUME NEW r \in Proc, OpenFails(r) PROVE OwnFiles'
  BY <1>8, <1>types DEF OpenFails
<1>9. ASSUME NEW r \in Proc, Fill(r) PROVE OwnFiles'
  BY <1>9, <1>types DEF Fill
<1>10. ASSUME NEW r \in Proc, FillFails(r) PROVE OwnFiles'
  BY <1>10, <1>types DEF FillFails
<1>11. ASSUME NEW r \in Proc, UnlockFile(r) PROVE OwnFiles'
  <2>1. ASSUME NEW p \in Proc, p # r
        PROVE  todo'[p] = todo[p] /\ req'[p] = req[p] /\ pc'[p] = pc[p]
    BY <1>11, <1>types, <2>1 DEF UnlockFile, UnlockThenNext
  <2>2. req'[r] = req[r] /\ pc[r] \notin Resting
    BY <1>11 DEF UnlockFile, UnlockThenNext
  <2>3. ASSUME pc'[r] \notin Resting, NEW i \in DOMAIN todo'[r]
        PROVE  \E j \in DOMAIN req[r].paths : todo'[r][i] = req[r].paths[j]
    <3>1. pc[r] = "unlock" /\ Len(todo[r]) > 1 /\ todo'[r] = Tail(todo[r])
      BY <1>11, <1>types, <2>3 DEF UnlockFile, UnlockThenNext
    <3>2. i + 1 \in DOMAIN todo[r] /\ todo'[r][i] = todo[r][i + 1]
      BY <1>types, <2>3, <3>1
    <3> QED
      BY <2>2, <3>2
  <2> QED
    BY <2>1, <2>2, <2>3
<1>12. ASSUME NEW r \in Proc, Kill(r) PROVE OwnFiles'
  BY <1>12, <1>types DEF Kill
<1>13. CASE UNCHANGED vars
  BY <1>13 DEF vars
<1> QED
  BY <1>1, <1>2, <1>3, <1>4, <1>5, <1>6, <1>7, <1>8, <1>9, <1>10, <1>11, <1>12, <1>13
     DEF Next, Step

-----------------------------------------------------------------------------
(* What View is, once the lock makes the process that fills a file unique. *)
ViewFacts ==
    /\ View \in [File -> Content]
    /\ \A p \in Proc : pc[p] = "fill" => View[Head(todo[p])] = Holding(buf[p])
    /\ \A f \in File : ~(\E p \in Proc : pc[p] = "fill" /\ Head(todo[p]) = f)
                       => View[f] = content[f]

LEMMA ViewOfFiles == TypeOK /\ Locking => ViewFacts
<1> SUFFICES ASSUME TypeOK, Locking PROVE ViewFacts
  OBVIOUS
<1> DEFINE Fills(p, f) == pc[p] = "fill" /\ Head(todo[p]) = f
<1>1. \A p \in Proc : pc[p] = "fill" => Head(todo[p]) \in File
  BY FileLists DEF TypeOK, Resting
<1>2. ASSUME NEW p \in Proc, NEW f \in File, Fills(p, f) PROVE Filler(f) = p
  <2>1. \A q \in Proc : Fills(q, f) => q = p
    BY <1>2 DEF Locking, MutualExclusion, InCritical, Critical
  <2> QED
    BY <1>2, <2>1 DEF Filler
<1>3. ASSUME NEW f \in File PROVE View[f] \in Content
  <2>1. CASE \E p \in Proc : Fills(p, f)
    <3>1. PICK p \in Proc : Fills(p, f)
      BY <2>1
    <3>2. View[f] = Holding(buf[p])
      BY <1>2, <3>1 DEF View
    <3> QED
      BY <3>2, ContentType DEF TypeOK
  <2>2. CASE ~ \E p \in Proc : Fills(p, f)
    BY <2>2 DEF View, TypeOK
  <2> QED
    BY <2>1, <2>2
<1>4. ASSUME NEW p \in Proc, pc[p] = "fill" PROVE View[Head(todo[p])] = Holding(buf[p])
  BY <1>1, <1>2, <1>4 DEF View
<1>5. ASSUME NEW f \in File, ~ \E p \in Proc : Fills(p, f) PROVE View[f] = content[f]
  BY <1>5 DEF View
<1>6. View \in [File -> Content]
  BY <1>3 DEF View
<1> QED
  BY <1>4, <1>5, <1>6 DEF ViewFacts

(* A step that touches no file being filled leaves the View alone.         *)
LEMMA ViewKept ==
    ASSUME ViewFacts, ViewFacts', content' = content,
           \A q \in Proc : /\ pc'[q] = "fill" <=> pc[q] = "fill"
                           /\ pc[q] = "fill" => todo'[q] = todo[q] /\ buf'[q] = buf[q]
    PROVE  View' = View
<1>1. ASSUME NEW f \in File PROVE View'[f] = View[f]
  <2>1. CASE \E p \in Proc : pc[p] = "fill" /\ Head(todo[p]) = f
    <3>1. PICK p \in Proc : pc[p] = "fill" /\ Head(todo[p]) = f
      BY <2>1
    <3>2. Holding(buf[p])' = Holding(buf[p])
      BY <3>1 DEF Holding
    <3> QED
      BY <3>1, <3>2 DEF ViewFacts
  <2>2. CASE ~ \E p \in Proc : pc[p] = "fill" /\ Head(todo[p]) = f
    BY <2>2 DEF ViewFacts
  <2> QED
    BY <2>1, <2>2
<1> QED
  BY <1>1 DEF ViewFacts

(* A step of the one process r that works on a file changes its View only. *)
LEMMA ViewElsewhere ==
    ASSUME ViewFacts, ViewFacts', NEW r \in Proc, NEW g \in File, Head(todo[r]) = g,
           pc \in [Proc -> Labels], content \in [File -> Content], NEW x, NEW l,
           content' = [content EXCEPT ![g] = x], pc' = [pc EXCEPT ![r] = l],
           todo' = todo, buf' = buf
    PROVE  \A f \in File : f # g => View'[f] = View[f]
<1> SUFFICES ASSUME NEW f \in File, f # g PROVE View'[f] = View[f]
  OBVIOUS
<1>1. CASE \E p \in Proc : pc[p] = "fill" /\ Head(todo[p]) = f
  <2>1. PICK p \in Proc : pc[p] = "fill" /\ Head(todo[p]) = f
    BY <1>1
  <2>2. pc'[p] = "fill" /\ Head(todo'[p]) = f /\ Holding(buf[p])' = Holding(buf[p])
    BY <2>1 DEF Holding
  <2> QED
    BY <2>1, <2>2 DEF ViewFacts
<1>2. CASE ~ \E p \in Proc : pc[p] = "fill" /\ Head(todo[p]) = f
  <2>1. ~ \E p \in Proc : pc'[p] = "fill" /\ Head(todo'[p]) = f
    BY <1>2
  <2> QED
    BY <1>2, <2>1 DEF ViewFacts
<1> QED
  BY <1>1, <1>2

-----------------------------------------------------------------------------
(* The operators of the instance are those of the protocol: both modules   *)
(* take them from KubeconfigData.                                          *)
LEMMA SameData ==
    /\ Atomic!Request = Request /\ Atomic!Content = Content
    /\ \A c : Atomic!Holding(c) = Holding(c)
    /\ \A c : Atomic!Cut(c) = Cut(c)
    /\ \A x : Atomic!Readable(x) <=> Readable(x)
    /\ \A r, c : Atomic!Effect(r, c) = Effect(r, c)
  BY DEF Request, Atomic!Request, Content, Atomic!Content, Config, Atomic!Config,
         Entry, Atomic!Entry, Lists, Atomic!Lists, Holding, Atomic!Holding,
         Cut, Atomic!Cut, Garbled, Atomic!Garbled, EmptyConfig, Atomic!EmptyConfig,
         Readable, Atomic!Readable, Effect, Atomic!Effect, Merge, Atomic!Merge,
         Remove, Atomic!Remove

(* A process at work has a pending request, and nobody else has.           *)
LEMMA PendingFacts ==
    ASSUME TypeOK
    PROVE  /\ Pending \in [Proc -> Request \union {Idle}]
           /\ \A p \in Proc : pc[p] \in Resting => Pending[p] = Idle
           /\ \A p \in Proc : pc[p] \notin Resting =>
                 Pending[p] = req[p] /\ Pending[p] # Idle /\ Pending[p] \in KindRequest
  BY IdleAssumption DEF TypeOK, Pending, KindRequest

Hypotheses == TypeOK /\ Locking /\ OwnFiles

AStep == [Atomic!ANext]_(Atomic!avars)

(* Steps that neither take up nor give up a request, nor touch a file.     *)
LEMMA Stutters ==
    ASSUME ViewFacts, ViewFacts', content' = content, torn' = torn, req' = req,
           NEW r \in Proc, pc \in [Proc -> Labels],
           NEW l, pc' = [pc EXCEPT ![r] = l],
           pc[r] \notin Resting \union {"fill"}, l \notin Resting \union {"fill"},
           \A q \in Proc \ {r} : todo'[q] = todo[q] /\ buf'[q] = buf[q]
    PROVE  AStep
<1>1. View' = View
  <2>1. \A q \in Proc : /\ pc'[q] = "fill" <=> pc[q] = "fill"
                        /\ pc[q] = "fill" => todo'[q] = todo[q] /\ buf'[q] = buf[q]
    OBVIOUS
  <2> QED
    BY <2>1, ViewKept
<1>2. Pending' = Pending
  BY DEF Pending
<1> QED
  BY <1>1, <1>2 DEF AStep, Atomic!avars

(* Steps that give a request up, and leave the files alone.                *)
LEMMA Returns ==
    ASSUME ViewFacts, ViewFacts', TypeOK, TypeOK', content' = content, torn' = torn,
           req' = req, todo' = todo, buf' = buf,
           NEW r \in Proc, pc[r] \notin Resting \union {"fill"},
           NEW l \in Resting, pc' = [pc EXCEPT ![r] = l]
    PROVE  AStep
<1>0. pc \in [Proc -> Labels]
  BY DEF TypeOK
<1>1. View' = View
  <2>1. \A q \in Proc : pc'[q] = "fill" <=> pc[q] = "fill"
    BY <1>0 DEF Resting
  <2> QED
    BY <2>1, ViewKept
<1>2. Pending' = [Pending EXCEPT ![r] = Idle]
  BY <1>0 DEF Pending
<1>3. Pending[r] # Idle
  BY PendingFacts
<1>4. Atomic!Return(r)
  BY <1>1, <1>2, <1>3 DEF Atomic!Return
<1> QED
  BY <1>4 DEF AStep, Atomic!ANext

(* Steps that cut a write short.                                           *)
LEMMA Spoils ==
    ASSUME ViewFacts, ViewFacts', Hypotheses, NEW r \in Proc, pc[r] = "fill",
           NEW x \in Cut(buf[r]), content' = [content EXCEPT ![Head(todo[r])] = x],
           torn' = torn \union {Head(todo[r])},
           req' = req, todo' = todo, buf' = buf,
           NEW l \in {"idle", "unlockErr"}, pc' = [pc EXCEPT ![r] = l]
    PROVE  AStep
<1> DEFINE g == Head(todo[r])
<1>0. pc \in [Proc -> Labels] /\ content \in [File -> Content] /\ g \in File
  BY FileLists DEF Hypotheses, TypeOK, Resting
<1>1. View[g] = Holding(buf[r])
  BY DEF ViewFacts
<1>2. View'[g] = x
  <2>1. ~ \E p \in Proc : pc'[p] = "fill" /\ Head(todo'[p]) = g
    BY <1>0 DEF Hypotheses, Locking, MutualExclusion, InCritical, Critical
  <2> QED
    BY <1>0, <2>1 DEF ViewFacts
<1>3. View' = [View EXCEPT ![g] = x]
  <2>1. \A f \in File : f # g => View'[f] = View[f]
    BY <1>0, ViewElsewhere
  <2>2. View \in [File -> Content] /\ View' \in [File -> Content]
    BY DEF ViewFacts
  <2> QED
    BY <1>0, <1>2, <2>1, <2>2
<1>4. Pending[r] = req[r] /\ Pending[r] # Idle
  BY PendingFacts DEF Hypotheses, Resting
<1>5. Pending' \in {Pending, [Pending EXCEPT ![r] = Idle]}
  BY <1>0 DEF Pending, Resting
<1>6. \E i \in DOMAIN Pending[r].paths : Pending[r].paths[i] = g
  <2>1. 1 \in DOMAIN todo[r] /\ todo[r][1] = g
    <3>1. todo[r] \in Seq(File) /\ todo[r] # <<>>
      BY DEF Hypotheses, TypeOK, Resting
    <3> QED
      BY <3>1
  <2>2. PICK j \in DOMAIN req[r].paths : todo[r][1] = req[r].paths[j]
    <3>1. \A i \in DOMAIN todo[r] : \E j \in DOMAIN req[r].paths : todo[r][i] = req[r].paths[j]
      BY DEF Hypotheses, OwnFiles, Resting
    <3> QED
      BY <2>1, <3>1
  <2> QED
    BY <1>4, <2>1, <2>2
<1>7. x \in Atomic!Cut(View[g].cfg)
  BY <1>1, SameData DEF Holding
<1>8. Atomic!Spoil(r, g)
  BY <1>3, <1>4, <1>5, <1>6, <1>7 DEF Atomic!Spoil
<1> QED
  BY <1>0, <1>8 DEF AStep, Atomic!ANext

(* Truncating a file is the moment a request takes effect.                 *)
LEMMA Applies ==
    ASSUME ViewFacts, ViewFacts', Hypotheses, NEW r \in Proc, Truncate(r)
    PROVE  AStep
<1> DEFINE g == Head(todo[r])
<1>0. pc \in [Proc -> Labels] /\ content \in [File -> Content] /\ g \in File
  BY FileLists DEF Hypotheses, TypeOK, Resting, Truncate
<1>1. View[g] = content[g]
  <2>1. ~ \E p \in Proc : pc[p] = "fill" /\ Head(todo[p]) = g
    BY <1>0 DEF Truncate, Hypotheses, Locking, MutualExclusion, InCritical, Critical
  <2> QED
    BY <1>0, <2>1 DEF ViewFacts
<1>2. Readable(View[g]) /\ buf[r] = Effect(req[r], View[g].cfg)
  BY <1>1 DEF Truncate, Hypotheses, Locking, WritesAreFresh
<1>3. View'[g] = Holding(buf[r])
  <2>1. pc'[r] = "fill" /\ todo' = todo /\ Holding(buf[r])' = Holding(buf[r])
    BY <1>0 DEF Truncate, Goto, Holding
  <2> QED
    BY <2>1 DEF ViewFacts
<1>4. View' = [View EXCEPT ![g] = Holding(Effect(req[r], View[g].cfg))]
  <2>1. \A f \in File : f # g => View'[f] = View[f]
    BY <1>0, ViewElsewhere DEF Truncate, Goto
  <2>2. View \in [File -> Content] /\ View' \in [File -> Content]
    BY DEF ViewFacts
  <2>3. View'[g] = Holding(Effect(req[r], View[g].cfg))
    BY <1>2, <1>3
  <2> HIDE DEF g
  <2> QED
    BY <1>0, <2>1, <2>2, <2>3
<1>5. Pending[r] = req[r] /\ Pending[r] # Idle
  BY PendingFacts DEF Hypotheses, Truncate, Resting
<1>6. \E i \in DOMAIN Pending[r].paths : Pending[r].paths[i] = g
  <2>1. 1 \in DOMAIN todo[r] /\ todo[r][1] = g
    <3>1. todo[r] \in Seq(File) /\ todo[r] # <<>>
      BY DEF Hypotheses, TypeOK, Truncate, Resting
    <3> QED
      BY <3>1
  <2>2. PICK j \in DOMAIN req[r].paths : todo[r][1] = req[r].paths[j]
    <3>1. \A i \in DOMAIN todo[r] : \E j \in DOMAIN req[r].paths : todo[r][i] = req[r].paths[j]
      BY DEF Hypotheses, OwnFiles, Truncate, Resting
    <3> QED
      BY <2>1, <3>1
  <2> QED
    BY <1>5, <2>1, <2>2
<1>7. Pending' = Pending /\ torn' = torn
  BY <1>0 DEF Pending, Truncate, Goto, Resting
<1>8. Atomic!Apply(r, g)
  BY <1>2, <1>4, <1>5, <1>6, <1>7, SameData DEF Atomic!Apply
<1> QED
  BY <1>0, <1>8 DEF AStep, Atomic!ANext

LEMMA RefinementStep ==
    ASSUME Hypotheses, [Next]_vars
    PROVE  AStep
<1>types. /\ pc \in [Proc -> Labels]
          /\ todo \in [Proc -> Seq(File)]
          /\ buf \in [Proc -> Config]
  BY DEF Hypotheses, TypeOK
<1>next. TypeOK' /\ Locking'
  BY TypeStep, LockingStep DEF Hypotheses
<1>view. ViewFacts /\ ViewFacts'
  <2>1. ViewFacts
    BY ViewOfFiles DEF Hypotheses
  <2>2. (TypeOK /\ Locking => ViewFacts)'
    BY ViewOfFiles, PTL
  <2> QED
    BY <1>next, <2>1, <2>2
<1> USE DEF Goto
<1>1. ASSUME NEW r \in Proc, Begin(r) PROVE AStep
  <2>1. PICK q \in KindRequest :
           /\ req' = [req EXCEPT ![r] = q]
           /\ pc' = [pc EXCEPT ![r] = IF q.op = "merge" THEN "choose" ELSE "lock"]
    BY <1>1 DEF Begin
  <2>2. Pending[r] = Idle
    BY <1>1, PendingFacts DEF Begin, Hypotheses
  <2>3. Pending' = [Pending EXCEPT ![r] = q]
    BY <1>types, <2>1 DEF Pending, Resting, Hypotheses, TypeOK
  <2>4. View' = View
    <3>1. \A p \in Proc : /\ pc'[p] = "fill" <=> pc[p] = "fill"
                          /\ pc[p] = "fill" => todo'[p] = todo[p] /\ buf'[p] = buf[p]
      BY <1>1, <1>types, <2>1 DEF Begin, Resting
    <3>2. content' = content
      BY <1>1 DEF Begin
    <3> QED
      BY <1>view, <3>1, <3>2, ViewKept
  <2>5. Atomic!Call(r)
    <3>1. q \in Atomic!Request
      BY SameData DEF KindRequest
    <3> QED
      BY <1>1, <2>2, <2>3, <2>4, <3>1 DEF Atomic!Call, Begin
  <2> QED
    BY <2>5 DEF AStep, Atomic!ANext
<1>2. ASSUME NEW r \in Proc, ChoosePath(r) PROVE AStep
  BY <1>2, <1>types, <1>view, Stutters DEF ChoosePath, Resting
<1>3. ASSUME NEW r \in Proc, LockFile(r) PROVE AStep
  BY <1>3, <1>types, <1>view, Stutters DEF LockFile, Resting
<1>4. ASSUME NEW r \in Proc, LockFileFails(r) PROVE AStep
  <2>1. "err" \in Resting /\ pc[r] \notin Resting \union {"fill"}
    BY <1>4 DEF LockFileFails, Resting
  <2> QED
    BY <1>4, <1>next, <1>view, <2>1, Returns DEF LockFileFails, Hypotheses
<1>5. ASSUME NEW r \in Proc, ReadAndEdit(r) PROVE AStep
  <2>1. PICK l \in {"unlock", "write"} : pc' = [pc EXCEPT ![r] = l]
    BY <1>5 DEF ReadAndEdit, Edit
  <2>2. \A q \in Proc \ {r} : todo'[q] = todo[q] /\ buf'[q] = buf[q]
    BY <1>5, <1>types DEF ReadAndEdit, Edit
  <2>3. content' = content /\ torn' = torn /\ req' = req /\ pc[r] = "read"
    BY <1>5 DEF ReadAndEdit, Edit
  <2> QED
    BY <1>types, <1>view, <2>1, <2>2, <2>3, Stutters DEF Resting
<1>6. ASSUME NEW r \in Proc, ReadFails(r) PROVE AStep
  BY <1>6, <1>types, <1>view, Stutters DEF ReadFails, Resting
<1>7. ASSUME NEW r \in Proc, Truncate(r) PROVE AStep
  BY <1>7, <1>view, Applies
<1>8. ASSUME NEW r \in Proc, OpenFails(r) PROVE AStep
  BY <1>8, <1>types, <1>view, Stutters DEF OpenFails, Resting
<1>9. ASSUME NEW r \in Proc, Fill(r) PROVE AStep
  <2> DEFINE g == Head(todo[r])
  <2>0. g \in File /\ content \in [File -> Content]
    BY <1>9, FileLists DEF Fill, Hypotheses, TypeOK, Resting
  <2>1. View[g] = Holding(buf[r])
    BY <1>9, <1>view DEF Fill, ViewFacts
  <2>2. View'[g] = Holding(buf[r])
    <3>1. ~ \E p \in Proc : pc'[p] = "fill" /\ Head(todo'[p]) = g
      BY <1>9, <1>types, <2>0
         DEF Fill, Hypotheses, Locking, MutualExclusion, InCritical, Critical
    <3> QED
      BY <1>9, <1>view, <2>0, <3>1 DEF ViewFacts, Fill
  <2>3. \A f \in File : f # g => View'[f] = View[f]
    BY <1>9, <1>types, <1>view, <2>0, ViewElsewhere DEF Fill
  <2>4. View' = View
    BY <1>view, <2>1, <2>2, <2>3 DEF ViewFacts
  <2>5. Pending' = Pending /\ torn' = torn
    BY <1>9, <1>types DEF Fill, Pending, Resting
  <2> QED
    BY <2>4, <2>5 DEF AStep, Atomic!avars
<1>10. ASSUME NEW r \in Proc, FillFails(r) PROVE AStep
  BY <1>10, <1>view, Spoils DEF FillFails
<1>11. ASSUME NEW r \in Proc, UnlockFile(r) PROVE AStep
  <2>1. CASE pc[r] = "unlock" /\ Len(todo[r]) > 1
    <3>1. pc' = [pc EXCEPT ![r] = "lock"]
      BY <1>11, <2>1 DEF UnlockFile, UnlockThenNext
    <3>2. \A q \in Proc \ {r} : todo'[q] = todo[q] /\ buf'[q] = buf[q]
      BY <1>11, <1>types, <2>1 DEF UnlockFile, UnlockThenNext
    <3>3. content' = content /\ torn' = torn /\ req' = req
      BY <1>11 DEF UnlockFile, UnlockThenNext
    <3> QED
      BY <1>types, <1>view, <2>1, <3>1, <3>2, <3>3, Stutters DEF Resting
  <2>2. CASE ~(pc[r] = "unlock" /\ Len(todo[r]) > 1)
    <3>1. PICK l \in {"ok", "err"} : pc' = [pc EXCEPT ![r] = l]
      BY <1>11, <2>2 DEF UnlockFile, UnlockThenNext
    <3>2. pc[r] \notin Resting \union {"fill"} /\ l \in Resting
      BY <1>11 DEF UnlockFile, UnlockThenNext, Resting
    <3>3. /\ content' = content /\ torn' = torn /\ req' = req
          /\ todo' = todo /\ buf' = buf
      BY <1>11, <2>2 DEF UnlockFile, UnlockThenNext
    <3> QED
      BY <1>next, <1>view, <3>1, <3>2, <3>3, Returns DEF Hypotheses
  <2> QED
    BY <2>1, <2>2
<1>12. ASSUME NEW r \in Proc, Kill(r) PROVE AStep
  <2>1. CASE pc[r] = "fill"
    BY <1>12, <1>view, <2>1, Spoils DEF Kill
  <2>2. CASE pc[r] # "fill"
    <3>1. "idle" \in Resting /\ pc[r] \notin Resting \union {"fill"}
      BY <1>12, <2>2 DEF Kill, Resting
    <3> QED
      BY <1>12, <1>next, <1>view, <2>2, <3>1, Returns DEF Kill, Hypotheses
  <2> QED
    BY <2>1, <2>2
<1>13. CASE UNCHANGED vars
  <2>1. View' = View /\ Pending' = Pending /\ torn' = torn
    BY <1>13 DEF vars, View, Filler, Holding, Pending
  <2> QED
    BY <2>1 DEF AStep, Atomic!avars
<1> QED
  BY <1>1, <1>2, <1>3, <1>4, <1>5, <1>6, <1>7, <1>8, <1>9, <1>10, <1>11, <1>12, <1>13
     DEF Next, Step

LEMMA RefinementInit == Init => Hypotheses /\ Atomic!AInit
<1> SUFFICES ASSUME Init PROVE Hypotheses /\ Atomic!AInit
  OBVIOUS
<1>1. Hypotheses
  BY TypeInit, LockingInit, OwnFilesInit DEF Hypotheses
<1>2. View \in [File -> Atomic!Content]
  BY <1>1, ViewOfFiles, SameData DEF Hypotheses, ViewFacts
<1>3. Pending = [p \in Proc |-> Idle] /\ torn = {}
  BY DEF Init, Pending, Resting
<1> QED
  BY <1>1, <1>2, <1>3 DEF Atomic!AInit

LEMMA HypothesesStep == Hypotheses /\ [Next]_vars => Hypotheses'
  BY TypeStep, LockingStep, OwnFilesStep DEF Hypotheses

(***************************************************************************)
(* WriteMerged and RemoveKIND are atomic: whatever the processes do at the *)
(* same time, a kubeconfig file as the next holder of the lock finds it    *)
(* changes by the whole effect of one request on what it held, or because  *)
(* a write was cut short.                                                  *)
(***************************************************************************)
THEOREM EditsAreAtomic == Spec => ImplementsAtomic
<1>1. Init => Hypotheses /\ Atomic!AInit
  BY RefinementInit
<1>2. Hypotheses /\ [Next]_vars => Hypotheses' /\ [Atomic!ANext]_(Atomic!avars)
  BY HypothesesStep, RefinementStep DEF AStep
<1> QED
  BY <1>1, <1>2, PTL DEF Spec, ImplementsAtomic, Atomic!ASpec

(* An edit for one of kind's keys leaves every other entry where it was.   *)
LEMMA EffectKeepsForeign ==
    ASSUME NEW r \in KindRequest, NEW c \in Config, NEW e \in c.entries, e.name \in Foreign
    PROVE  e \in Effect(r, c).entries
  BY DEF KindRequest, Effect, Merge, Remove, Config

(***************************************************************************)
(* Entries of other clusters survive every interleaving of merges and      *)
(* removals: no step of any process loses one from a file, unless a write  *)
(* of that file was cut short.                                             *)
(***************************************************************************)
THEOREM ForeignSurvives == Spec => ForeignKept
<1>1. Init => Hypotheses
  BY RefinementInit
<1>2. Hypotheses /\ [Next]_vars => Hypotheses'
  BY HypothesesStep
<1> DEFINE Kept == \A f \in File :
                      f \notin torn' => ForeignEntries(View[f]) \subseteq ForeignEntries(View'[f])
<1>3. ASSUME Hypotheses, [Next]_vars PROVE Kept
  <2>1. AStep /\ ViewFacts
    BY <1>3, RefinementStep, ViewOfFiles DEF Hypotheses
  <2>2. ASSUME View' = View PROVE Kept
    BY <2>2 DEF ForeignEntries
  <2>3. ASSUME NEW p \in Proc, NEW g \in File, Atomic!Apply(p, g) PROVE Kept
    <3>1. Pending[p] \in KindRequest
      <4>1. Pending[p] # Idle
        BY <2>3 DEF Atomic!Apply
      <4>2. TypeOK
        BY <1>3 DEF Hypotheses
      <4> QED
        BY <4>1, <4>2, PendingFacts
    <3>2. View' = [View EXCEPT ![g] = Holding(Effect(Pending[p], View[g].cfg))]
      BY <2>3, SameData DEF Atomic!Apply
    <3>3. View \in [File -> Content] /\ View[g].cfg \in Config
      BY <2>1 DEF ViewFacts, Content
    <3>4. ForeignEntries(View[g]) \subseteq ForeignEntries(Holding(Effect(Pending[p], View[g].cfg)))
      BY <3>1, <3>3, EffectKeepsForeign DEF ForeignEntries, Holding
    <3>5. \A f \in File : ForeignEntries(View[f]) \subseteq ForeignEntries(View'[f])
      BY <3>2, <3>3, <3>4
    <3> QED
      BY <3>5
  <2>4. ASSUME NEW p \in Proc, NEW g \in File, Atomic!Spoil(p, g) PROVE Kept
    <3>1. g \in torn' /\ \E x : View' = [View EXCEPT ![g] = x]
      BY <2>4 DEF Atomic!Spoil
    <3>2. \A f \in File : f # g => View'[f] = View[f]
      BY <2>1, <3>1 DEF ViewFacts
    <3> QED
      BY <3>1, <3>2 DEF ForeignEntries
  <2> QED
    BY <2>1, <2>2, <2>3, <2>4
       DEF AStep, Atomic!ANext, Atomic!Call, Atomic!Return, Atomic!avars
<1> QED
  BY <1>1, <1>2, <1>3, PTL DEF Spec, ForeignKept

=============================================================================
