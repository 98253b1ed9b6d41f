--------------------------- MODULE MCNodeActions ---------------------------
(***************************************************************************)
(* Small instances of NodeActions for TLC.                                 *)
(***************************************************************************)
EXTENDS NodeActions

(* Versions around the changes of labels and taints, with what kubeadm of  *)
(* each of them sets.                                                      *)
Kube(minor, pre, ls, ts) ==
    [version |-> Semantic(<<1, minor, 0>>, pre), labels |-> ls, taints |-> ts]

Both == {"master", "control-plane"}

Old == {"master"}

New == {"control-plane"}

Kubes ==
    {Kube(23, <<>>, Both, Old),
     Kube(24, <<Alpha, Num(0), Num(600)>>, Both, Old),
     Kube(24, <<Alpha, Num(1), Num(590)>>, Both, Old),
     Kube(24, <<Alpha, Num(1), Num(591)>>, New, Old),
     Kube(24, <<Alpha, Num(1), Num(592)>>, New, Both),
     Kube(24, <<Beta, Num(0)>>, New, Both),
     Kube(24, <<>>, New, Both),
     Kube(25, <<Alpha, Num(0), Num(556)>>, New, Both),
     Kube(25, <<Alpha, Num(0), Num(557)>>, New, New),
     Kube(25, <<Rc, Num(0)>>, New, New),
     Kube(27, <<>>, New, New)}

Latest == Kube(27, <<>>, New, New)

Base == [name |-> "kind", nodes |-> <<>>, family |-> "", pods |-> <<>>,
         services |-> <<>>, proxy |-> "", port |-> 0, mappings |-> {},
         disableCNI |-> FALSE, patches |-> FALSE, wait |-> TRUE, kube |-> Latest]

Topologies ==
    {<<"control-plane", "worker", "worker">>,
     <<"worker", "control-plane", "control-plane">>,
     <<"control-plane", "", "control-plane">>}

(* One node of every version; every family and pair of subnet lists; the   *)
(* topologies; and what Validate refuses.                                  *)
Configs ==
    {[Base EXCEPT !.kube = k, !.disableCNI = d] : k \in Kubes, d \in BOOLEAN} \union
    {[Base EXCEPT !.family = f, !.pods = p, !.services = s, !.wait = FALSE] :
        f \in Family \union {""},
        p \in {<<>>, <<"6">>},
        s \in {<<>>, <<"4">>, <<"6">>, <<"6", "4">>, <<"4", "4">>, <<"4", "6", "4">>, <<"bad">>}} \union
    {[Base EXCEPT !.nodes = t, !.patches = b] : t \in Topologies, b \in BOOLEAN} \union
    {[Base EXCEPT !.nodes = <<"worker">>], [Base EXCEPT !.port = 65536],
     [Base EXCEPT !.mappings = {-2}], [Base EXCEPT !.name = "invalid"],
     [Base EXCEPT !.proxy = "other"]}

=============================================================================
