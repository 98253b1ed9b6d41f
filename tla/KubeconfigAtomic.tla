-------------------------- MODULE KubeconfigAtomic --------------------------
(***************************************************************************)
(* What kind promises to everyone who shares a kubeconfig file with it:    *)
(* whatever the processes do at the same time, a file only ever changes by *)
(* the whole effect of one request on what the file holds at that moment,  *)
(* or because a write was cut short.                                       *)
(***************************************************************************)
EXTENDS KubeconfigData

CONSTANTS Proc, Idle

VARIABLES
    store,    \* what each file holds
    pending,  \* the request each process is carrying out, or Idle
    spoiled   \* files in which a write was cut short

avars == <<store, pending, spoiled>>

AInit ==
    /\ store \in [File -> Content]
    /\ pending = [p \in Proc |-> Idle]
    /\ spoiled = {}

Call(p) ==
    /\ pending[p] = Idle
    /\ \E r \in Request : pending' = [pending EXCEPT ![p] = r]
    /\ UNCHANGED <<store, spoiled>>

Return(p) ==
    /\ pending[p] # Idle
    /\ pending' = [pending EXCEPT ![p] = Idle]
    /\ UNCHANGED <<store, spoiled>>

Apply(p, f) ==
    /\ pending[p] # Idle
    /\ \E i \in DOMAIN pending[p].paths : pending[p].paths[i] = f
    /\ Readable(store[f])
    /\ store' = [store EXCEPT ![f] = Holding(Effect(pending[p], store[f].cfg))]
    /\ UNCHANGED <<pending, spoiled>>

(* The process may die of it, so it may or may not still be at work.       *)
Spoil(p, f) ==
    /\ pending[p] # Idle
    /\ \E i \in DOMAIN pending[p].paths : pending[p].paths[i] = f
    /\ \E x \in Cut(store[f].cfg) : store' = [store EXCEPT ![f] = x]
    /\ spoiled' = spoiled \union {f}
    /\ pending' \in {pending, [pending EXCEPT ![p] = Idle]}

ANext ==
    \E p \in Proc :
        \/ Call(p) \/ Return(p)
        \/ \E f \in File : Apply(p, f) \/ Spoil(p, f)

ASpec == AInit /\ [][ANext]_avars

=============================================================================
