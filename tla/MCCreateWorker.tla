--------------------------- MODULE MCCreateWorker ---------------------------
(***************************************************************************)
(* CreateWorker for TLC: every flag and flavour with the charts as they    *)
(* are listed, and every choice about the charts in a plain run of each    *)
(* flavour.                                                                *)
(***************************************************************************)
EXTENDS CreateWorker

Flavours ==
    [infra : Infra, managed : BOOLEAN, private : BOOLEAN, gitops : BOOLEAN,
     iam : BOOLEAN, autoscaler : BOOLEAN, forwarders : BOOLEAN,
     lbctl : BOOLEAN, role : BOOLEAN, flag : Flag,
     k8s : {35}, helmPrivate : {FALSE}, overrides : {{}}]

ChartChoices ==
    [infra : Infra, managed : BOOLEAN, private : {FALSE}, gitops : BOOLEAN,
     iam : {FALSE}, autoscaler : BOOLEAN, forwarders : {FALSE},
     lbctl : BOOLEAN, role : {FALSE}, flag : {"none"},
     k8s : K8sVersionSupported, helmPrivate : BOOLEAN,
     overrides : {{}, {"cert-manager", "cluster-autoscaler", "tigera-operator"}}]

(* The documented flavours without a flag: the local cluster goes.         *)
Plain == {x \in Flavours : x.flag = "none" /\ (x.managed \/ x.infra = "azure")}

MCDescriptors == Flavours \union ChartChoices

=============================================================================
