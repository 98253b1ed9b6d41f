------------------------- MODULE LocalClusterProofs -------------------------
(***************************************************************************)
(* Proofs about LocalCluster for every set of nodes and every bound on     *)
(* creates and kills.                                                      *)
(***************************************************************************)
EXTENDS LocalCluster, FiniteSetTheorems, TLAPS

Sent == {n \in Node : gor[n].at = "sent"}

Deleting == {"list", "unexport", "remove"}

(* What is in the channel or was received stands for goroutines that have  *)
(* sent; a create starts with nothing received.                            *)
Channel ==
    /\ Len(errCh) <= Cardinality(Sent)
    /\ pc = "collect" => received + Len(errCh) = Cardinality(Sent)
    /\ pc \in {"check", "validate", "provision"} => received = 0
    /\ pc \in Deleting /\ ret = "force" => received = 0

(* Sets of nodes have a size, that of Node at most.                        *)
LEMMA SentSize ==
    /\ IsFiniteSet(Sent) /\ Cardinality(Sent) \in Nat
    /\ Cardinality(Sent) <= Cardinality(Node)
    /\ Cardinality(Node) \in Nat
    /\ Cardinality(Sent) = Cardinality(Node) => Sent = Node
<1>1. IsFiniteSet(Node) /\ Sent \subseteq Node
  BY NodeAssumption DEF Sent
<1> QED
  BY <1>1, FS_Subset, FS_CardinalityType

(* The states of a goroutine.                                              *)
LEMMA GorTypes ==
    /\ \A l \in {"none", "run", "wait", "sent"} : At(l) \in GorState
    /\ \A r \in BOOLEAN : Sending(r) \in GorState
    /\ \A g \in GorState : g.ok \in BOOLEAN
  BY DEF GorState, At, Sending

(* The part of the state that the ways out of a call change.               *)
WaysOut ==
    /\ pc \in Labels /\ cause \in Causes
    /\ ret \in {"none", "force", "fail", "tail", "cli"}
    /\ failed \in SUBSET {"list", "unexport", "remove"}
    /\ gor \in [Node -> GorState] /\ errCh \in Seq(BOOLEAN) /\ detached \in SUBSET Node

LEMMA EndTypes ==
    ASSUME TypeOK, EndProcess
    PROVE  /\ pc' \in Labels /\ gor' \in [Node -> GorState]
           /\ errCh' \in Seq(BOOLEAN) /\ detached' \in SUBSET Node
<1>1. gor' \in [Node -> GorState]
  BY GorTypes DEF EndProcess
<1> QED
  BY <1>1 DEF EndProcess, TypeOK, Labels

LEMMA CallTypes ==
    ASSUME TypeOK, NEW r \in {"force", "fail", "tail", "cli"}, CallDelete(r), cause' \in Causes
    PROVE  WaysOut'
  BY DEF TypeOK, CallDelete, Goto, workers, Labels, WaysOut

LEMMA FailTypes ==
    ASSUME TypeOK, NEW c \in Causes, FailWith(c)
    PROVE  WaysOut'
<1>1. cause' \in Causes
  BY DEF FailWith
<1>2. CASE opts.retain
  BY <1>1, <1>2, EndTypes DEF FailWith, TypeOK, WaysOut
<1>3. CASE ~opts.retain
  <2>1. CallDelete("fail")
    BY <1>3 DEF FailWith
  <2> QED
    BY <1>1, <2>1, CallTypes
<1> QED
  BY <1>2, <1>3

LEMMA ReturnTypes ==
    ASSUME TypeOK, NEW c \in Causes, ReturnError(c)
    PROVE  WaysOut'
  BY EndTypes DEF ReturnError, TypeOK, WaysOut

LEMMA TypeInit == Init => TypeOK
<1> SUFFICES ASSUME Init PROVE TypeOK
  OBVIOUS
<1>1. gor \in [Node -> GorState]
  BY GorTypes DEF Init
<1>2. errCh \in Seq(BOOLEAN) /\ received \in 0..Cardinality(Node)
  BY SentSize DEF Init
<1>3. opts \in Options
  BY DEF Init, Options
<1>4. creates \in 0..MaxCreates /\ kills \in 0..MaxKills /\ tries \in 0..(Attempts - 1)
  BY BoundsAssumption DEF Init, Attempts
<1>5. exists \in SUBSET Node /\ kubecfg \in BOOLEAN
  BY DEF Init
<1> QED
  BY <1>1, <1>2, <1>3, <1>4, <1>5 DEF Init, TypeOK, Labels, Causes

LEMMA DeleteReturnsTypes ==
    ASSUME TypeOK, DeleteReturns
    PROVE  /\ pc' \in Labels /\ gor' \in [Node -> GorState]
           /\ errCh' \in Seq(BOOLEAN) /\ detached' \in SUBSET Node
<1>1. CASE ret = "force"
  BY <1>1 DEF DeleteReturns, Goto, workers, TypeOK, Labels
<1>2. CASE ret # "force"
  BY <1>2, EndTypes DEF DeleteReturns
<1> QED
  BY <1>1, <1>2

(* Every action keeps the types; what is received is bounded by the nodes. *)
LEMMA TypeStep == TypeOK /\ Channel /\ [Next]_vars => TypeOK'
<1> SUFFICES ASSUME TypeOK, Channel, [Next]_vars PROVE TypeOK'
  OBVIOUS
<1>1. CASE CreateCluster
  <2>1. opts' \in Options
    BY <1>1 DEF CreateCluster, Options, Retain
  <2>2. creates' \in 0..MaxCreates
    BY <1>1, BoundsAssumption DEF CreateCluster, TypeOK
  <2>3. tries' \in 0..(Attempts - 1) /\ received' \in 0..Cardinality(Node)
    BY <1>1, SentSize DEF CreateCluster, Attempts
  <2> QED
    BY <1>1, <2>1, <2>2, <2>3 DEF CreateCluster, TypeOK, Goto, workers, world, Labels, Causes
<1>2. CASE DeleteCluster
  <2>1. WaysOut'
    BY <1>2, CallTypes DEF DeleteCluster, Causes
  <2> QED
    BY <1>2, <2>1 DEF DeleteCluster, TypeOK, WaysOut, world
<1>3. CASE CheckFails
  <2>1. WaysOut'
    BY <1>3, ReturnTypes DEF CheckFails, Causes
  <2> QED
    BY <1>3, <2>1 DEF CheckFails, TypeOK, WaysOut, world
<1>4. CASE CheckName
  <2>1. WaysOut'
    <3>1. CASE Goto("validate") /\ UNCHANGED <<ret, failed, cause>>
      BY <3>1 DEF Goto, workers, WaysOut, TypeOK, Labels
    <3>2. CASE CallDelete("force") /\ UNCHANGED cause
      <4>1. cause' \in Causes
        BY <3>2 DEF TypeOK
      <4> QED
        BY <3>2, <4>1, CallTypes
    <3>3. CASE ReturnError("check")
      BY <3>3, ReturnTypes DEF Causes
    <3> QED
      BY <1>4, <3>1, <3>2, <3>3 DEF CheckName
  <2> QED
    BY <1>4, <2>1 DEF CheckName, TypeOK, WaysOut, world
<1>5. CASE Validate
  <2>1. WaysOut'
    <3>1. CASE Goto("provision") /\ UNCHANGED <<ret, failed, cause>>
      BY <3>1 DEF Goto, workers, WaysOut, TypeOK, Labels
    <3>2. CASE ReturnError("validate")
      BY <3>2, ReturnTypes DEF Causes
    <3> QED
      BY <1>5, <3>1, <3>2 DEF Validate
  <2> QED
    BY <1>5, <2>1 DEF Validate, TypeOK, WaysOut, world
<1>6. CASE Provision
  <2>1. gor' \in [Node -> GorState] /\ errCh' \in Seq(BOOLEAN)
    BY <1>6, GorTypes DEF Provision
  <2> QED
    BY <1>6, <2>1 DEF Provision, TypeOK, Labels, world, history
<1>7. CASE PlanFails
  <2>1. WaysOut'
    BY <1>7, FailTypes DEF PlanFails, Causes
  <2> QED
    BY <1>7, <2>1 DEF PlanFails, TypeOK, WaysOut, world
<1>8. CASE ReceiveOk
  <2>1. errCh \in Seq(BOOLEAN) /\ errCh # <<>> /\ received \in Nat
    <3>1. errCh \in Seq(BOOLEAN) /\ received \in 0..Cardinality(Node)
      BY DEF TypeOK
    <3>2. errCh # <<>>
      BY <1>8 DEF ReceiveOk, ReceiveUpTo
    <3> QED
      BY <3>1, <3>2, SentSize
  <2>0. Len(errCh) \in Nat /\ Len(errCh) >= 1 /\ Tail(errCh) \in Seq(BOOLEAN)
    BY <2>1
  <2>2. received' \in 0..Cardinality(Node)
    <3>1. received' = received + 1 /\ received + Len(errCh) = Cardinality(Sent)
      BY <1>8 DEF ReceiveOk, ReceiveUpTo, Channel
    <3> QED
      BY <2>0, <2>1, <3>1, SentSize
  <2>3. errCh' \in Seq(BOOLEAN)
    BY <1>8, <2>0 DEF ReceiveOk, ReceiveUpTo
  <2>4. pc' \in Labels
    BY <1>8 DEF ReceiveOk, ReceiveUpTo, Labels
  <2> QED
    BY <1>8, <2>2, <2>3, <2>4 DEF ReceiveOk, ReceiveUpTo, TypeOK, world, history
<1>9. CASE ReceiveError
  <2>1. WaysOut'
    BY <1>9, FailTypes DEF ReceiveError, Causes
  <2> QED
    BY <1>9, <2>1 DEF ReceiveError, TypeOK, WaysOut, world
<1>10. CASE ActionFails
  <2>1. WaysOut'
    BY <1>10, FailTypes DEF ActionFails, Causes
  <2> QED
    BY <1>10, <2>1 DEF ActionFails, TypeOK, WaysOut, world
<1>11. CASE ActionsDone
  <2>1. WaysOut'
    <3>1. UNCHANGED <<ret, cause, failed>>
      BY <1>11 DEF ActionsDone, history
    <3>2. CASE EndProcess
      BY <3>1, <3>2, EndTypes DEF WaysOut, TypeOK
    <3>3. CASE Goto("export")
      BY <3>1, <3>3 DEF WaysOut, TypeOK, Goto, workers, Labels
    <3> QED
      BY <1>11, <3>2, <3>3 DEF ActionsDone
  <2> QED
    BY <1>11, <2>1 DEF ActionsDone, TypeOK, WaysOut, world, history
<1>12. CASE Export
  <2>1. WaysOut'
    <3>1. cause' \in Causes
      BY <1>12 DEF Export, TypeOK
    <3>2. CASE opts.retain
      BY <1>12, <3>1, <3>2, EndTypes DEF Export, WaysOut, TypeOK
    <3>3. CASE ~opts.retain
      BY <1>12, <3>1, <3>3, CallTypes DEF Export
    <3> QED
      BY <3>2, <3>3
  <2> QED
    BY <1>12, <2>1 DEF Export, TypeOK, WaysOut
<1>13. CASE ExportFails
  <2>1. WaysOut' /\ tries' \in 0..(Attempts - 1)
    <3>1. CASE tries + 1 < Attempts
      <4>1. tries' = tries + 1 /\ Goto("export") /\ UNCHANGED <<ret, failed, cause>>
        BY <1>13, <3>1 DEF ExportFails, ExportAttemptFails
      <4>2. WaysOut'
        BY <4>1 DEF Goto, workers, WaysOut, TypeOK, Labels
      <4>3. tries \in 0..(Attempts - 1)
        BY DEF TypeOK
      <4>4. tries' \in 0..(Attempts - 1)
        BY <3>1, <4>1, <4>3 DEF Attempts
      <4> QED
        BY <4>2, <4>4
    <3>2. CASE ~(tries + 1 < Attempts)
      <4>1. ReturnError("export") /\ tries' = tries
        BY <1>13, <3>2 DEF ExportFails, ExportAttemptFails
      <4> QED
        BY <4>1, ReturnTypes DEF Causes, TypeOK
    <3> QED
      BY <3>1, <3>2
  <2>2. kubecfg' \in BOOLEAN
    BY <1>13 DEF ExportFails, ExportAttemptFails, TypeOK
  <2> QED
    BY <1>13, <2>1, <2>2 DEF ExportFails, ExportAttemptFails, TypeOK, WaysOut
<1>14. CASE ListNodes
  BY <1>14 DEF ListNodes, ListThen, Goto, workers, TypeOK, Labels, history
<1>15. CASE ListFails
  BY <1>15, DeleteReturnsTypes DEF ListFails, TypeOK, world
<1>16. CASE RemoveFromKubeconfig
  <2>1. /\ kubecfg' \in BOOLEAN /\ stale' \in BOOLEAN
        /\ failed' \in SUBSET {"list", "unexport", "remove"}
    BY <1>16 DEF RemoveFromKubeconfig, TypeOK
  <2> QED
    BY <1>16, <2>1 DEF RemoveFromKubeconfig, TypeOK, Goto, workers, Labels
<1>17. CASE DeleteNodes
  <2>1. exists' \in SUBSET Node /\ failed' \in SUBSET {"list", "unexport", "remove"}
    BY <1>17 DEF DeleteNodes, TypeOK
  <2> QED
    BY <1>17, <2>1, DeleteReturnsTypes DEF DeleteNodes, TypeOK
<1>18. CASE Kill
  <2>1. kills' \in 0..MaxKills
    BY <1>18, BoundsAssumption DEF Kill, TypeOK
  <2> QED
    BY <1>18, <2>1, EndTypes DEF Kill, TypeOK, Causes, world
<1>19. ASSUME NEW n \in Node, CreateContainer(n) PROVE TypeOK'
  <2>1. exists' \in SUBSET Node /\ late' \in SUBSET Node
    BY <1>19 DEF CreateContainer, DockerRun, TypeOK
  <2>2. gor' \in [Node -> GorState]
    BY <1>19, GorTypes DEF CreateContainer, TypeOK
  <2> QED
    BY <1>19, <2>1, <2>2 DEF CreateContainer, TypeOK, control
<1>20. ASSUME NEW n \in Node, WaitUntilLogRegexpMatches(n) PROVE TypeOK'
  <2>1. gor' \in [Node -> GorState]
    BY <1>20, GorTypes DEF WaitUntilLogRegexpMatches, TypeOK
  <2> QED
    BY <1>20, <2>1 DEF WaitUntilLogRegexpMatches, TypeOK, control, world, history
<1>21. ASSUME NEW n \in Node, SendResult(n) PROVE TypeOK'
  <2>1. gor' \in [Node -> GorState]
    BY <1>21, GorTypes DEF SendResult, TypeOK
  <2>2. errCh' \in Seq(BOOLEAN)
    BY <1>21, GorTypes DEF SendResult, TypeOK
  <2> QED
    BY <1>21, <2>1, <2>2 DEF SendResult, TypeOK, control, world, history
<1>22. ASSUME NEW n \in Node, DetachedRun(n) PROVE TypeOK'
  <2>1. exists' \in SUBSET Node /\ late' \in SUBSET Node /\ detached' \in SUBSET Node
    BY <1>22 DEF DetachedRun, DockerRun, TypeOK
  <2> QED
    BY <1>22, <2>1 DEF DetachedRun, TypeOK, control
<1>23. CASE UNCHANGED vars
  BY <1>23 DEF vars, TypeOK, control, workers, world, history
<1> QED
  BY <1>1, <1>2, <1>3, <1>4, <1>5, <1>6, <1>7, <1>8, <1>9, <1>10, <1>11, <1>12,
     <1>13, <1>14, <1>15, <1>16, <1>17, <1>18, <1>19, <1>20, <1>21, <1>22, <1>23
     DEF Next, Main, Goroutine

LEMMA SentKept == gor' = gor => Sent' = Sent
  BY DEF Sent

LEMMA SentEnds == EndProcess => Sent' = {} /\ Cardinality(Sent') = 0 /\ errCh' = <<>> /\ Len(errCh') = 0
<1> SUFFICES ASSUME EndProcess PROVE Sent' = {} /\ errCh' = <<>>
  BY FS_EmptySet
<1>1. \A n \in Node : gor'[n] = At("none")
  BY DEF EndProcess
<1> QED
  BY <1>1 DEF Sent, At, EndProcess

LEMMA ChannelInit == Init => Channel
<1> SUFFICES ASSUME Init PROVE Channel
  OBVIOUS
<1>1. \A n \in Node : gor[n] = At("none")
  BY DEF Init
<1>2. Sent = {}
  BY <1>1 DEF Sent, At
<1> QED
  BY <1>2, FS_EmptySet DEF Init, Channel

(* The channel holds what has been sent and not received.                  *)
LEMMA ChannelStep == TypeOK /\ Channel /\ [Next]_vars => Channel'
<1> SUFFICES ASSUME TypeOK, Channel, [Next]_vars PROVE Channel'
  OBVIOUS
<1> USE DEF Channel, Deleting, Goto, CallDelete, FailWith, ReturnError, control, workers, world, history
<1>types. gor \in [Node -> GorState] /\ errCh \in Seq(BOOLEAN)
  BY DEF TypeOK
<1>nat. Len(errCh) \in Nat /\ received \in Nat
  <2>1. received \in 0..Cardinality(Node)
    BY DEF TypeOK
  <2> QED
    BY <1>types, <2>1, SentSize
<1>end. EndProcess => pc' = "idle"
  BY DEF EndProcess
<1>1. CASE CreateCluster
  BY <1>1, <1>nat, <1>end, SentSize, SentKept, SentEnds DEF CreateCluster
<1>2. CASE DeleteCluster
  BY <1>2, <1>nat, <1>end, SentSize, SentKept, SentEnds DEF DeleteCluster
<1>3. CASE CheckFails
  BY <1>3, <1>nat, <1>end, SentSize, SentKept, SentEnds DEF CheckFails
<1>4. CASE CheckName
  BY <1>4, <1>nat, <1>end, SentSize, SentKept, SentEnds DEF CheckName
<1>5. CASE Validate
  BY <1>5, <1>nat, <1>end, SentSize, SentKept, SentEnds DEF Validate
<1>6. CASE Provision
  <2>1. \A n \in Node : gor'[n] = At("run")
    BY <1>6 DEF Provision
  <2>2. Sent' = {}
    BY <2>1 DEF Sent, At
  <2>3. errCh' = <<>> /\ received' = 0 /\ pc' = "collect"
    BY <1>6 DEF Provision
  <2> QED
    BY <2>2, <2>3, FS_EmptySet
<1>7. CASE PlanFails
  BY <1>7, <1>nat, <1>end, SentSize, SentKept, SentEnds DEF PlanFails
<1>8. CASE ReceiveOk
  <2>1. Sent' = Sent /\ errCh # <<>> /\ errCh' = Tail(errCh) /\ received' = received + 1
    BY <1>8, SentKept DEF ReceiveOk, ReceiveUpTo
  <2>2. Len(errCh') = Len(errCh) - 1
    BY <1>types, <2>1
  <2>3. pc = "collect" /\ pc' \in {"collect", "act"}
    BY <1>8 DEF ReceiveOk, ReceiveUpTo
  <2> QED
    BY <1>types, <1>nat, <2>1, <2>2, <2>3, SentSize
<1>9. CASE ReceiveError
  <2>1. FailWith("provision") /\ UNCHANGED received
    BY <1>9 DEF ReceiveError
  <2> QED
    BY <2>1, <1>nat, <1>end, SentSize, SentKept, SentEnds
<1>10. CASE ActionFails
  BY <1>10, <1>nat, <1>end, SentSize, SentKept, SentEnds DEF ActionFails
<1>11. CASE ActionsDone
  BY <1>11, <1>nat, <1>end, SentSize, SentKept, SentEnds DEF ActionsDone
<1>12. CASE Export
  BY <1>12, <1>nat, <1>end, SentSize, SentKept, SentEnds DEF Export
<1>13. CASE ExportFails
  BY <1>13, <1>nat, <1>end, SentSize, SentKept, SentEnds DEF ExportFails, ExportAttemptFails
<1>14. CASE ListNodes
  BY <1>14, <1>nat, <1>end, SentSize, SentKept, SentEnds DEF ListNodes, ListThen, DeleteReturns
<1>15. CASE ListFails
  BY <1>15, <1>nat, <1>end, SentSize, SentKept, SentEnds DEF ListFails, DeleteReturns
<1>16. CASE RemoveFromKubeconfig
  BY <1>16, <1>nat, <1>end, SentSize, SentKept, SentEnds DEF RemoveFromKubeconfig
<1>17. CASE DeleteNodes
  BY <1>17, <1>nat, <1>end, SentSize, SentKept, SentEnds DEF DeleteNodes, DeleteReturns
<1>18. CASE Kill
  BY <1>18, <1>nat, <1>end, SentSize, SentKept, SentEnds DEF Kill
<1>19. ASSUME NEW n \in Node, CreateContainer(n) PROVE Channel'
  <2>1. Sent' = Sent
    <3>1. PICK g \in {At("wait"), Sending(TRUE), Sending(FALSE)} : gor' = [gor EXCEPT ![n] = g]
      BY <1>19 DEF CreateContainer
    <3>2. gor[n].at = "run" /\ g.at # "sent"
      BY <1>19 DEF CreateContainer, At, Sending
    <3> QED
      BY <1>types, <3>1, <3>2 DEF Sent
  <2> QED
    BY <1>19, <2>1 DEF CreateContainer
<1>20. ASSUME NEW n \in Node, WaitUntilLogRegexpMatches(n) PROVE Channel'
  <2>1. Sent' = Sent
    <3>1. PICK g \in {Sending(TRUE), Sending(FALSE)} : gor' = [gor EXCEPT ![n] = g]
      BY <1>20 DEF WaitUntilLogRegexpMatches
    <3>2. gor[n].at = "wait" /\ g.at # "sent"
      BY <1>20 DEF WaitUntilLogRegexpMatches, Sending
    <3> QED
      BY <1>types, <3>1, <3>2 DEF Sent
  <2> QED
    BY <1>20, <2>1 DEF WaitUntilLogRegexpMatches
<1>21. ASSUME NEW n \in Node, SendResult(n) PROVE Channel'
  <2>1. Len(errCh') = Len(errCh) + 1 /\ UNCHANGED <<pc, ret, received>>
    BY <1>21, <1>types, GorTypes DEF SendResult, control
  <2>2. n \notin Sent /\ Sent' = Sent \union {n}
    <3>1. gor' = [gor EXCEPT ![n] = At("sent")] /\ gor[n].at = "send"
      BY <1>21 DEF SendResult
    <3>2. gor'[n].at = "sent" /\ \A m \in Node : m # n => gor'[m] = gor[m]
      BY <1>types, <3>1 DEF At
    <3> QED
      BY <3>1, <3>2 DEF Sent
  <2>3. Cardinality(Sent') = Cardinality(Sent) + 1
    BY <2>2, SentSize, FS_AddElement
  <2> QED
    BY <1>nat, <2>1, <2>3, SentSize
<1>22. ASSUME NEW n \in Node, DetachedRun(n) PROVE Channel'
  BY <1>22, <1>nat, <1>end, SentSize, SentKept, SentEnds DEF DetachedRun, DockerRun
<1>23. CASE UNCHANGED vars
  BY <1>23, <1>nat, <1>end, SentSize, SentKept, SentEnds DEF vars
<1> QED
  BY <1>1, <1>2, <1>3, <1>4, <1>5, <1>6, <1>7, <1>8, <1>9, <1>10, <1>11, <1>12,
     <1>13, <1>14, <1>15, <1>16, <1>17, <1>18, <1>19, <1>20, <1>21, <1>22, <1>23
     DEF Next, Main, Goroutine

(***************************************************************************)
(* create.Cluster, delete.Cluster and the goroutines keep the state well   *)
(* formed; main never receives more results than there are nodes.          *)
(***************************************************************************)
THEOREM TypeCorrect == Spec => []TypeOK
<1>1. Init => TypeOK /\ Channel
  BY TypeInit, ChannelInit
<1>2. TypeOK /\ Channel /\ [Next]_vars => (TypeOK /\ Channel)'
  BY TypeStep, ChannelStep
<1> QED
  BY <1>1, <1>2, PTL DEF Spec

(***************************************************************************)
(* UntilErrorConcurrent makes its channel large enough: a goroutine that   *)
(* has its result can always send it, although main stops receiving at     *)
(* the first error, for any number of nodes.                               *)
(***************************************************************************)
THEOREM ChannelLargeEnough == Spec => []SendNeverBlocks
<1>1. Init => TypeOK /\ Channel
  BY TypeInit, ChannelInit
<1>2. TypeOK /\ Channel /\ [Next]_vars => (TypeOK /\ Channel)'
  BY TypeStep, ChannelStep
<1>3. TypeOK /\ Channel => SendNeverBlocks
  <2> SUFFICES ASSUME TypeOK, Channel, NEW n \in Node, gor[n].at = "send"
               PROVE  Len(errCh) < Capacity
    BY DEF SendNeverBlocks
  <2>1. n \notin Sent
    BY DEF Sent
  <2>2. Cardinality(Sent) < Cardinality(Node)
    BY <2>1, SentSize
  <2>3. Len(errCh) \in Nat /\ Len(errCh) <= Cardinality(Sent)
    BY DEF TypeOK, Channel
  <2> QED
    BY <2>2, <2>3, SentSize DEF Capacity
<1> QED
  BY <1>1, <1>2, <1>3, PTL DEF Spec

-----------------------------------------------------------------------------
(* While main collects, a goroutine that is past its `docker run` without  *)
(* an error has its container, and one that has sent and has no container  *)
(* has an error waiting in the channel.                                    *)
Results ==
    /\ pc = "collect" => \A n \in Node :
          /\ gor[n].at = "wait" => n \in exists
          /\ gor[n].at = "send" /\ gor[n].ok => n \in exists
          /\ gor[n].at = "sent" /\ n \notin exists => \E i \in DOMAIN errCh : ~errCh[i]
    /\ ActionsSeeAllNodes

LEMMA ResultsInit == Init => Results
  BY DEF Init, Results, ActionsSeeAllNodes

(* A result without an error stands for a container that is there.         *)
LEMMA ResultsStep == TypeOK /\ Channel /\ Results /\ [Next]_vars => Results'
<1> SUFFICES ASSUME TypeOK, Channel, Results, [Next]_vars PROVE Results'
  OBVIOUS
<1> USE DEF Results, ActionsSeeAllNodes, Deleting, EndProcess, Goto, CallDelete, FailWith, ReturnError, control, workers, world, history
<1>types. gor \in [Node -> GorState] /\ errCh \in Seq(BOOLEAN)
  BY DEF TypeOK
<1>1. CASE CreateCluster
  BY <1>1 DEF CreateCluster
<1>2. CASE DeleteCluster
  BY <1>2 DEF DeleteCluster
<1>3. CASE CheckFails
  BY <1>3 DEF CheckFails
<1>4. CASE CheckName
  BY <1>4 DEF CheckName
<1>5. CASE Validate
  BY <1>5 DEF Validate
<1>6. CASE Provision
  <2>1. pc' = "collect" /\ \A n \in Node : gor'[n] = At("run")
    BY <1>6 DEF Provision
  <2> QED
    BY <2>1 DEF At
<1>7. CASE PlanFails
  BY <1>7 DEF PlanFails
<1>8. CASE ReceiveOk
  <2>0. errCh # <<>> /\ Head(errCh) /\ errCh' = Tail(errCh) /\ UNCHANGED <<gor, exists>>
    BY <1>8 DEF ReceiveOk, ReceiveUpTo
  <2>1. Len(errCh) \in Nat /\ Len(errCh) >= 1 /\ Head(errCh) = errCh[1]
    <3>1. errCh # <<>>
      BY <2>0
    <3> QED
      BY <1>types, <3>1
  <2>5. errCh[1]
    BY <2>0, <2>1, Zenon
  <2>2. ASSUME NEW i \in DOMAIN errCh, ~errCh[i] PROVE \E j \in DOMAIN errCh' : ~errCh'[j]
    <3>1. i > 1 /\ i <= Len(errCh) /\ i \in Nat
      BY <1>types, <2>1, <2>2, <2>5
    <3>2. i - 1 \in DOMAIN Tail(errCh) /\ Tail(errCh)[i - 1] = errCh[i]
      BY <1>types, <2>1, <3>1
    <3> QED
      BY <2>0, <2>2, <3>2
  <2>3. CASE pc' = "collect"
    BY <1>8, <2>0, <2>2, <2>3 DEF ReceiveOk, ReceiveUpTo
  <2>4. CASE pc' # "collect"
    <3>1. pc = "collect" /\ received + 1 = Cardinality(Node)
      BY <1>8, <2>4 DEF ReceiveOk, ReceiveUpTo
    <3>2. received + Len(errCh) = Cardinality(Sent) /\ received \in Nat
      <4>1. received \in 0..Cardinality(Node)
        BY DEF TypeOK
      <4> QED
        BY <3>1, <4>1, SentSize DEF Channel
    <3>3. Len(errCh) = 1 /\ Sent = Node
      <4>1. Len(errCh) \in Nat /\ Len(errCh) >= 1
        BY <2>1
      <4>2. Cardinality(Sent) = Cardinality(Node) /\ Len(errCh) = 1
        <5>1. \A r, l, s, c \in Nat : l >= 1 /\ r + l = s /\ s <= c /\ r + 1 = c => s = c /\ l = 1
          OBVIOUS
        <5> QED
          BY <3>1, <3>2, <4>1, <5>1, SentSize
      <4> QED
        BY <4>2, SentSize
    <3>4. ~ \E i \in DOMAIN errCh : ~errCh[i]
      <4>1. \A i \in DOMAIN errCh : i = 1
        BY <1>types, <3>3
      <4> QED
        BY <2>5, <4>1, Zenon
    <3>5. Node \subseteq exists
      BY <3>1, <3>3, <3>4 DEF Sent
    <3> QED
      BY <2>0, <2>4, <3>5 DEF TypeOK
  <2> QED
    BY <2>3, <2>4
<1>9. CASE ReceiveError
  <2>1. pc' \in {"idle", "list"}
    BY <1>9 DEF ReceiveError
  <2> QED
    BY <2>1
<1>10. CASE ActionFails
  BY <1>10 DEF ActionFails
<1>11. CASE ActionsDone
  BY <1>11 DEF ActionsDone
<1>12. CASE Export
  BY <1>12 DEF Export
<1>13. CASE ExportFails
  BY <1>13 DEF ExportFails, ExportAttemptFails
<1>14. CASE ListNodes
  BY <1>14 DEF ListNodes, ListThen, DeleteReturns
<1>15. CASE ListFails
  BY <1>15 DEF ListFails, DeleteReturns
<1>16. CASE RemoveFromKubeconfig
  BY <1>16 DEF RemoveFromKubeconfig
<1>17. CASE DeleteNodes
  BY <1>17 DEF DeleteNodes, DeleteReturns
<1>18. CASE Kill
  BY <1>18 DEF Kill
<1>19. ASSUME NEW n \in Node, CreateContainer(n) PROVE Results'
  <2>1. exists \subseteq exists' /\ exists' \subseteq Node /\ pc' = pc /\ errCh' = errCh
    BY <1>19 DEF CreateContainer, DockerRun, TypeOK
  <2>2. PICK ok \in BOOLEAN :
           /\ ok => n \in exists'
           /\ gor' = [gor EXCEPT ![n] = IF ok /\ n \notin LoadBalancer THEN At("wait") ELSE Sending(ok)]
    BY <1>19 DEF CreateContainer, DockerRun
  <2>3. \A m \in Node : m # n => gor'[m] = gor[m]
    BY <1>types, <2>2
  <2>4. gor'[n].at \in {"wait", "send"} /\ (gor'[n].at = "wait" => ok) /\ (gor'[n].ok => ok)
    BY <1>types, <2>2 DEF At, Sending
  <2>5. ActionsSeeAllNodes'
    BY <2>1 DEF ActionsSeeAllNodes
  <2>6. ASSUME pc' = "collect", NEW m \in Node
        PROVE  /\ gor'[m].at = "wait" => m \in exists'
               /\ gor'[m].at = "send" /\ gor'[m].ok => m \in exists'
               /\ gor'[m].at = "sent" /\ m \notin exists' => \E i \in DOMAIN errCh' : ~errCh'[i]
    <3>1. CASE m = n
      BY <2>2, <2>4, <3>1
    <3>2. CASE m # n
      BY <2>1, <2>3, <2>6, <3>2
    <3> QED
      BY <3>1, <3>2
  <2> QED
    BY <2>5, <2>6
<1>20. ASSUME NEW n \in Node, WaitUntilLogRegexpMatches(n) PROVE Results'
  <2>1. PICK ok \in BOOLEAN : gor' = [gor EXCEPT ![n] = Sending(ok)]
    BY <1>20 DEF WaitUntilLogRegexpMatches
  <2>2. /\ gor[n].at = "wait" /\ gor'[n].at = "send"
        /\ \A m \in Node : m # n => gor'[m] = gor[m]
    BY <1>20, <1>types, <2>1 DEF WaitUntilLogRegexpMatches, Sending
  <2>3. UNCHANGED <<pc, errCh, exists>>
    BY <1>20 DEF WaitUntilLogRegexpMatches
  <2> QED
    BY <2>2, <2>3
<1>21. ASSUME NEW n \in Node, SendResult(n) PROVE Results'
  <2>1. gor' = [gor EXCEPT ![n] = At("sent")] /\ errCh' = Append(errCh, gor[n].ok)
    BY <1>21 DEF SendResult
  <2>2. /\ gor[n].at = "send" /\ gor'[n].at = "sent"
        /\ \A m \in Node : m # n => gor'[m] = gor[m]
    BY <1>21, <1>types, <2>1 DEF SendResult, At
  <2>3. UNCHANGED <<pc, exists>>
    BY <1>21 DEF SendResult
  <2>4. ASSUME NEW i \in DOMAIN errCh, ~errCh[i] PROVE \E j \in DOMAIN errCh' : ~errCh'[j]
    <3>1. i \in DOMAIN errCh' /\ errCh'[i] = errCh[i]
      BY <1>types, <2>1, GorTypes
    <3> QED
      BY <2>4, <3>1
  <2>5. ~gor[n].ok => \E j \in DOMAIN errCh' : ~errCh'[j]
    <3>1. Len(errCh) + 1 \in DOMAIN errCh' /\ errCh'[Len(errCh) + 1] = gor[n].ok
      BY <1>types, <2>1, GorTypes
    <3> QED
      BY <3>1
  <2> QED
    BY <2>2, <2>3, <2>4, <2>5
<1>22. ASSUME NEW n \in Node, DetachedRun(n) PROVE Results'
  <2>1. exists \subseteq exists' /\ exists' \subseteq Node /\ UNCHANGED <<pc, gor, errCh>>
    BY <1>22 DEF DetachedRun, DockerRun, TypeOK
  <2> QED
    BY <2>1
<1>23. CASE UNCHANGED vars
  BY <1>23 DEF vars
<1> QED
  BY <1>1, <1>2, <1>3, <1>4, <1>5, <1>6, <1>7, <1>8, <1>9, <1>10, <1>11, <1>12,
     <1>13, <1>14, <1>15, <1>16, <1>17, <1>18, <1>19, <1>20, <1>21, <1>22, <1>23
     DEF Next, Main, Goroutine

(***************************************************************************)
(* No action of create.Cluster runs before every node container is there,  *)
(* in whatever order the goroutines finish: the results main counted stand *)
(* for different nodes, and each of them for a container.                  *)
(***************************************************************************)
THEOREM ActionsAfterAllNodes == Spec => []ActionsSeeAllNodes
<1>1. Init => TypeOK /\ Channel /\ Results
  BY TypeInit, ChannelInit, ResultsInit
<1>2. TypeOK /\ Channel /\ Results /\ [Next]_vars => (TypeOK /\ Channel /\ Results)'
  BY TypeStep, ChannelStep, ResultsStep
<1>3. Results => ActionsSeeAllNodes
  BY DEF Results
<1> QED
  BY <1>1, <1>2, <1>3, PTL DEF Spec

-----------------------------------------------------------------------------
(* Since delete.Cluster listed the nodes, only containers nobody waits for *)
(* have come; it removes the cluster from the kubeconfig before the nodes; *)
(* and no other call of delete.Cluster is under way while a create runs.   *)
Sweep ==
    /\ pc \in {"unexport", "remove"} => exists \subseteq listed \union late
    /\ pc = "remove" /\ failed = {} => ~kubecfg
    /\ pc \notin Deleting \union {"idle"} => ret \in {"none", "force"}
    /\ DeleteSweeps

LEMMA SweepInit == Init => Sweep
  BY DEF Init, Sweep, DeleteSweeps, Deleting

(* No action leaves a container that delete.Cluster should have removed.   *)
LEMMA SweepStep == TypeOK /\ Sweep /\ [Next]_vars => Sweep'
<1> SUFFICES ASSUME TypeOK, Sweep, [Next]_vars PROVE Sweep'
  OBVIOUS
<1> USE DEF Sweep, DeleteSweeps, Deleting, EndProcess, Goto, CallDelete, FailWith, ReturnError, control, workers, world, history
<1>types. ret \in {"none", "force", "fail", "tail", "cli"} /\ pc \in Labels
  BY DEF TypeOK
<1>1. CASE CreateCluster
  BY <1>1, <1>types DEF CreateCluster
<1>2. CASE DeleteCluster
  BY <1>2, <1>types DEF DeleteCluster
<1>3. CASE CheckFails
  BY <1>3, <1>types DEF CheckFails
<1>4. CASE CheckName
  BY <1>4, <1>types DEF CheckName
<1>5. CASE Validate
  BY <1>5, <1>types DEF Validate
<1>6. CASE Provision
  BY <1>6, <1>types DEF Provision
<1>7. CASE PlanFails
  BY <1>7, <1>types DEF PlanFails
<1>8. CASE ReceiveOk
  <2>1. pc = "collect" /\ pc' \in {"collect", "act"} /\ UNCHANGED <<ret, exists, kubecfg, listed, late>>
    BY <1>8 DEF ReceiveOk, ReceiveUpTo
  <2> QED
    BY <2>1
<1>9. CASE ReceiveError
  <2>1. FailWith("provision") /\ pc = "collect" /\ UNCHANGED <<exists, kubecfg, listed, late>>
    BY <1>9 DEF ReceiveError
  <2> QED
    BY <2>1
<1>10. CASE ActionFails
  BY <1>10, <1>types DEF ActionFails
<1>11. CASE ActionsDone
  BY <1>11, <1>types DEF ActionsDone
<1>12. CASE Export
  BY <1>12, <1>types DEF Export
<1>13. CASE ExportFails
  BY <1>13, <1>types DEF ExportFails, ExportAttemptFails
<1>14. CASE ListNodes
  BY <1>14, <1>types DEF ListNodes, ListThen, DeleteReturns
<1>15. CASE ListFails
  BY <1>15, <1>types DEF ListFails, DeleteReturns
<1>16. CASE RemoveFromKubeconfig
  BY <1>16, <1>types DEF RemoveFromKubeconfig
<1>17. CASE DeleteNodes
  BY <1>17, <1>types DEF DeleteNodes, DeleteReturns
<1>18. CASE Kill
  BY <1>18, <1>types DEF Kill
<1>19. ASSUME NEW n \in Node, CreateContainer(n) PROVE Sweep'
  <2>1. UNCHANGED <<pc, ret, kubecfg, listed, failed, cause>>
    BY <1>19 DEF CreateContainer
  <2>2. pc # "collect" => exists' \subseteq exists \union late' /\ late \subseteq late'
    BY <1>19 DEF CreateContainer, DockerRun
  <2> QED
    BY <2>1, <2>2
<1>20. ASSUME NEW n \in Node, WaitUntilLogRegexpMatches(n) PROVE Sweep'
  BY <1>20, <1>types DEF WaitUntilLogRegexpMatches
<1>21. ASSUME NEW n \in Node, SendResult(n) PROVE Sweep'
  <2>1. UNCHANGED <<pc, ret, exists, kubecfg, listed, late, failed, cause>>
    BY <1>21 DEF SendResult
  <2> QED
    BY <2>1
<1>22. ASSUME NEW n \in Node, DetachedRun(n) PROVE Sweep'
  <2>1. UNCHANGED <<pc, ret, kubecfg, listed, failed, cause>>
    BY <1>22 DEF DetachedRun
  <2>2. exists' \subseteq exists \union late' /\ late \subseteq late'
    BY <1>22 DEF DetachedRun, DockerRun
  <2> QED
    BY <2>1, <2>2
<1>23. CASE UNCHANGED vars
  BY <1>23, <1>types DEF vars
<1> QED
  BY <1>1, <1>2, <1>3, <1>4, <1>5, <1>6, <1>7, <1>8, <1>9, <1>10, <1>11, <1>12,
     <1>13, <1>14, <1>15, <1>16, <1>17, <1>18, <1>19, <1>20, <1>21, <1>22, <1>23
     DEF Next, Main, Goroutine

(***************************************************************************)
(* delete.Cluster sweeps, for any number of nodes: when it has ended and   *)
(* none of its steps failed, only containers of a `docker run` nobody      *)
(* waited for are left, and the kubeconfig does not name the cluster.      *)
(***************************************************************************)
THEOREM DeleteIsComplete == Spec => []DeleteSweeps
<1>1. Init => TypeOK /\ Channel /\ Sweep
  BY TypeInit, ChannelInit, SweepInit
<1>2. TypeOK /\ Channel /\ Sweep /\ [Next]_vars => (TypeOK /\ Channel /\ Sweep)'
  BY TypeStep, ChannelStep, SweepStep
<1>3. Sweep => DeleteSweeps
  BY DEF Sweep
<1> QED
  BY <1>1, <1>2, <1>3, PTL DEF Spec

-----------------------------------------------------------------------------
(* The kubeconfig is edited before the nodes are removed.                  *)
Context == NoDanglingContext /\ (pc = "remove" /\ kubecfg => stale)

LEMMA ContextInit == Init => Context
  BY DEF Init, Context, NoDanglingContext

(* Only a failed edit leaves the name of a cluster that is gone.           *)
LEMMA ContextStep == TypeOK /\ Results /\ Context /\ [Next]_vars => Context'
<1> SUFFICES ASSUME TypeOK, Results, Context, [Next]_vars PROVE Context'
  OBVIOUS
<1> USE DEF Context, NoDanglingContext, EndProcess, Goto, CallDelete, FailWith, ReturnError, control, workers, world, history
<1>1. CASE CreateCluster
  BY <1>1 DEF CreateCluster
<1>2. CASE DeleteCluster
  BY <1>2 DEF DeleteCluster
<1>3. CASE CheckFails
  BY <1>3 DEF CheckFails
<1>4. CASE CheckName
  BY <1>4 DEF CheckName
<1>5. CASE Validate
  BY <1>5 DEF Validate
<1>6. CASE Provision
  BY <1>6 DEF Provision
<1>7. CASE PlanFails
  BY <1>7 DEF PlanFails
<1>8. CASE ReceiveOk
  <2>1. pc' # "remove" /\ UNCHANGED <<exists, kubecfg, stale>>
    BY <1>8 DEF ReceiveOk, ReceiveUpTo
  <2> QED
    BY <2>1
<1>9. CASE ReceiveError
  <2>1. pc' # "remove" /\ UNCHANGED <<exists, kubecfg, stale>>
    BY <1>9 DEF ReceiveError
  <2> QED
    BY <2>1
<1>10. CASE ActionFails
  BY <1>10 DEF ActionFails
<1>11. CASE ActionsDone
  BY <1>11 DEF ActionsDone
<1>12. CASE Export
  <2>1. exists' = exists /\ stale' = stale /\ exists # {} /\ pc' # "remove"
    BY <1>12, NodeAssumption DEF Export, Results, ActionsSeeAllNodes
  <2> QED
    BY <2>1
<1>13. CASE ExportFails
  <2>1. exists' = exists /\ stale' = stale /\ exists # {} /\ pc' # "remove"
    BY <1>13, NodeAssumption DEF ExportFails, ExportAttemptFails, Results, ActionsSeeAllNodes
  <2> QED
    BY <2>1
<1>14. CASE ListNodes
  BY <1>14 DEF ListNodes, ListThen, DeleteReturns
<1>15. CASE ListFails
  BY <1>15 DEF ListFails, DeleteReturns
<1>16. CASE RemoveFromKubeconfig
  <2>1. exists' = exists /\ (kubecfg' => stale')
    BY <1>16 DEF RemoveFromKubeconfig
  <2> QED
    BY <2>1
<1>17. CASE DeleteNodes
  BY <1>17 DEF DeleteNodes, DeleteReturns
<1>18. CASE Kill
  BY <1>18 DEF Kill
<1>19. ASSUME NEW n \in Node, CreateContainer(n) PROVE Context'
  <2>1. exists \subseteq exists' /\ UNCHANGED <<pc, kubecfg, stale>>
    BY <1>19 DEF CreateContainer, DockerRun
  <2> QED
    BY <2>1
<1>20. ASSUME NEW n \in Node, WaitUntilLogRegexpMatches(n) PROVE Context'
  BY <1>20 DEF WaitUntilLogRegexpMatches
<1>21. ASSUME NEW n \in Node, SendResult(n) PROVE Context'
  <2>1. UNCHANGED <<pc, exists, kubecfg, stale>>
    BY <1>21 DEF SendResult
  <2> QED
    BY <2>1
<1>22. ASSUME NEW n \in Node, DetachedRun(n) PROVE Context'
  <2>1. exists \subseteq exists' /\ UNCHANGED <<pc, kubecfg, stale>>
    BY <1>22 DEF DetachedRun, DockerRun
  <2> QED
    BY <2>1
<1>23. CASE UNCHANGED vars
  BY <1>23 DEF vars
<1> QED
  BY <1>1, <1>2, <1>3, <1>4, <1>5, <1>6, <1>7, <1>8, <1>9, <1>10, <1>11, <1>12,
     <1>13, <1>14, <1>15, <1>16, <1>17, <1>18, <1>19, <1>20, <1>21, <1>22, <1>23
     DEF Next, Main, Goroutine

(***************************************************************************)
(* The user's kubeconfig names a cluster without a container only after an *)
(* edit of the kubeconfig failed, whatever else fails or is killed.        *)
(***************************************************************************)
THEOREM ContextHasNodes == Spec => []NoDanglingContext
<1>1. Init => TypeOK /\ Channel /\ Results /\ Context
  BY TypeInit, ChannelInit, ResultsInit, ContextInit
<1>2. TypeOK /\ Channel /\ Results /\ Context /\ [Next]_vars
        => (TypeOK /\ Channel /\ Results /\ Context)'
  BY TypeStep, ChannelStep, ResultsStep, ContextStep
<1>3. Context => NoDanglingContext
  BY DEF Context
<1> QED
  BY <1>1, <1>2, <1>3, PTL DEF Spec

-----------------------------------------------------------------------------
(* A create without --delete-previous that gets past the check of the name *)
(* found no container at all.                                              *)
Earlier ==
    /\ ret = "force" => opts.force
    /\ ret \in {"none", "fail", "tail"} /\ ~opts.force =>
          prior \subseteq exists /\ (pc \notin {"idle", "check"} => prior = {})

LEMMA EarlierInit == Init => Earlier
  BY DEF Init, Earlier

(* What was there when the create began is not touched.                    *)
LEMMA EarlierStep == TypeOK /\ Sweep /\ Earlier /\ [Next]_vars => Earlier'
<1> SUFFICES ASSUME TypeOK, Sweep, Earlier, [Next]_vars PROVE Earlier'
  OBVIOUS
<1> USE DEF Earlier, EndProcess, Goto, CallDelete, FailWith, ReturnError, control, workers, world, history
<1>types. ret \in {"none", "force", "fail", "tail", "cli"} /\ pc \in Labels
  BY DEF TypeOK
<1>ret. pc \notin Deleting \union {"idle"} => ret \in {"none", "force"}
  BY DEF Sweep
<1>1. CASE CreateCluster
  BY <1>1, <1>types, <1>ret DEF CreateCluster
<1>2. CASE DeleteCluster
  BY <1>2, <1>types, <1>ret DEF DeleteCluster
<1>3. CASE CheckFails
  BY <1>3, <1>types, <1>ret DEF CheckFails
<1>4. CASE CheckName
  <2>1. UNCHANGED <<opts, exists, prior>> /\ pc = "check"
    BY <1>4 DEF CheckName
  <2>2. CASE pc' = "validate" /\ exists = {} /\ ret' = ret
    BY <2>1, <2>2
  <2>3. CASE opts.force \/ (pc' = "idle" /\ ret' = ret)
    BY <2>1, <2>3
  <2> QED
    BY <1>4, <2>2, <2>3 DEF CheckName, AlreadyExists
<1>5. CASE Validate
  BY <1>5, <1>types, <1>ret DEF Validate
<1>6. CASE Provision
  BY <1>6, <1>types, <1>ret DEF Provision
<1>7. CASE PlanFails
  <2>1. pc = "provision" /\ UNCHANGED <<opts, exists, prior>>
    BY <1>7 DEF PlanFails
  <2>2. ret' = ret \/ ret' \in {"fail", "tail"}
    BY <1>7 DEF PlanFails
  <2>3. ret \in {"none", "force"}
    BY <1>ret, <2>1 DEF Deleting
  <2> QED
    BY <2>1, <2>2, <2>3
<1>8. CASE ReceiveOk
  <2>1. pc = "collect" /\ UNCHANGED <<opts, exists, prior, ret>>
    BY <1>8 DEF ReceiveOk, ReceiveUpTo
  <2> QED
    BY <2>1
<1>9. CASE ReceiveError
  <2>1. pc = "collect" /\ UNCHANGED <<opts, exists, prior>>
    BY <1>9 DEF ReceiveError
  <2>2. ret' = ret \/ (ret \in {"none", "force"} /\ ret' = "fail")
    BY <1>9 DEF ReceiveError, Sweep, Deleting
  <2> QED
    BY <2>1, <2>2
<1>10. CASE ActionFails
  <2>1. pc = "act" /\ UNCHANGED <<opts, exists, prior>>
    BY <1>10 DEF ActionFails
  <2>2. ret' = ret \/ ret' \in {"fail", "tail"}
    BY <1>10 DEF ActionFails
  <2>3. ret \in {"none", "force"}
    BY <1>ret, <2>1 DEF Deleting
  <2> QED
    BY <2>1, <2>2, <2>3
<1>11. CASE ActionsDone
  BY <1>11, <1>types, <1>ret DEF ActionsDone
<1>12. CASE Export
  <2>1. pc = "export" /\ UNCHANGED <<opts, exists, prior>>
    BY <1>12 DEF Export
  <2>2. ret' = ret \/ ret' \in {"fail", "tail"}
    BY <1>12 DEF Export
  <2>3. ret \in {"none", "force"}
    BY <1>ret, <2>1 DEF Deleting
  <2> QED
    BY <2>1, <2>2, <2>3
<1>13. CASE ExportFails
  BY <1>13, <1>types, <1>ret DEF ExportFails, ExportAttemptFails
<1>14. CASE ListNodes
  BY <1>14, <1>types, <1>ret DEF ListNodes, ListThen, DeleteReturns
<1>15. CASE ListFails
  BY <1>15, <1>types, <1>ret DEF ListFails, DeleteReturns
<1>16. CASE RemoveFromKubeconfig
  BY <1>16, <1>types, <1>ret DEF RemoveFromKubeconfig
<1>17. CASE DeleteNodes
  BY <1>17, <1>types, <1>ret DEF DeleteNodes, DeleteReturns
<1>18. CASE Kill
  BY <1>18, <1>types, <1>ret DEF Kill
<1>19. ASSUME NEW n \in Node, CreateContainer(n) PROVE Earlier'
  <2>1. exists \subseteq exists' /\ UNCHANGED <<pc, opts, prior, ret>>
    BY <1>19 DEF CreateContainer, DockerRun
  <2> QED
    BY <2>1
<1>20. ASSUME NEW n \in Node, WaitUntilLogRegexpMatches(n) PROVE Earlier'
  BY <1>20, <1>types, <1>ret DEF WaitUntilLogRegexpMatches
<1>21. ASSUME NEW n \in Node, SendResult(n) PROVE Earlier'
  <2>1. UNCHANGED <<pc, exists, opts, prior, ret>>
    BY <1>21 DEF SendResult
  <2> QED
    BY <2>1
<1>22. ASSUME NEW n \in Node, DetachedRun(n) PROVE Earlier'
  <2>1. exists \subseteq exists' /\ UNCHANGED <<pc, opts, prior, ret>>
    BY <1>22 DEF DetachedRun, DockerRun
  <2> QED
    BY <2>1
<1>23. CASE UNCHANGED vars
  BY <1>23, <1>types, <1>ret DEF vars
<1> QED
  BY <1>1, <1>2, <1>3, <1>4, <1>5, <1>6, <1>7, <1>8, <1>9, <1>10, <1>11, <1>12,
     <1>13, <1>14, <1>15, <1>16, <1>17, <1>18, <1>19, <1>20, <1>21, <1>22, <1>23
     DEF Next, Main, Goroutine

(***************************************************************************)
(* Without --delete-previous, create.Cluster never removes a container     *)
(* that was there when it began.                                           *)
(***************************************************************************)
THEOREM PriorClusterKept == Spec => []PriorKept
<1>1. Init => TypeOK /\ Channel /\ Sweep /\ Earlier
  BY TypeInit, ChannelInit, SweepInit, EarlierInit
<1>2. TypeOK /\ Channel /\ Sweep /\ Earlier /\ [Next]_vars
        => (TypeOK /\ Channel /\ Sweep /\ Earlier)'
  BY TypeStep, ChannelStep, SweepStep, EarlierStep
<1>3. Earlier => PriorKept
  BY DEF Earlier, PriorKept
<1> QED
  BY <1>1, <1>2, <1>3, PTL DEF Spec

=============================================================================
