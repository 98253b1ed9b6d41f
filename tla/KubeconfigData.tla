--------------------------- MODULE KubeconfigData ---------------------------
(***************************************************************************)
(* The contents of a KUBECONFIG file as kind reads, edits and writes it,   *)
(* and the two edits kind makes: merging the entries of a cluster and      *)
(* removing them.                                                          *)
(*                                                                         *)
(* The three lists of a Config (clusters, users, contexts) are one set of  *)
(* named entries; Val stands for what an entry holds (server, certificate, *)
(* credentials) and tells one incarnation of a cluster from the next.      *)
(* Fields that kind writes back untouched are part of Val.                 *)
(***************************************************************************)
EXTENDS Naturals, Sequences

CONSTANTS
    File,        \* paths of kubeconfig files
    Key,         \* names of entries, KINDClusterKey(cluster) or someone else's
    Val,         \* what an entry holds
    NoKey,       \* the empty current-context
    PathLists    \* what paths() may return: lists of distinct files

ASSUME NoKeyAssumption == NoKey \notin Key

ASSUME PathListsAssumption == PathLists \subseteq Seq(File) \ {<<>>}

Lists == {"clusters", "users", "contexts"}

Entry == [list : Lists, name : Key, val : Val]

Config == [entries : SUBSET Entry, current : Key \union {NoKey}]

EmptyConfig == [entries |-> {}, current |-> NoKey]

(***************************************************************************)
(* A file is missing, holds a Config, or holds bytes that are not YAML.    *)
(***************************************************************************)
Content == [st : {"absent", "yaml", "broken"}, cfg : Config]

Holding(c) == [st |-> "yaml", cfg |-> c]

Missing == [st |-> "absent", cfg |-> EmptyConfig]

Garbled == [st |-> "broken", cfg |-> EmptyConfig]

(* read: a missing file is an empty Config, bytes that do not parse are an *)
(* error.                                                                  *)
Readable(x) == x.st # "broken"

Request ==
    [op : {"merge"}, key : Key, val : Val, paths : PathLists]
      \union [op : {"remove"}, key : Key, paths : PathLists]

(* merge: each of the three lists ends up with exactly one entry of that   *)
(* name, and the cluster becomes the current context.                      *)
MergeReplaces(c, k, v) ==
    [entries |-> {[list |-> l, name |-> k, val |-> v] : l \in Lists},
     current |-> k]

Merge(c, k, v) ==
    [entries |-> {e \in c.entries : e.name # k}
                   \union {[list |-> l, name |-> k, val |-> v] : l \in Lists},
     current |-> k]

(* remove: every entry of that name goes, and the current context if it is *)
(* the one removed.                                                        *)
Remove(c, k) ==
    [entries |-> {e \in c.entries : e.name # k},
     current |-> IF c.current = k THEN NoKey ELSE c.current]

Effect(r, c) ==
    IF r.op = "merge" THEN Merge(c, r.key, r.val) ELSE Remove(c, r.key)

(***************************************************************************)
(* What a write cut short may leave of c: a prefix that no longer parses,  *)
(* or one that does and has lost entries.                                  *)
(***************************************************************************)
Cut(c) ==
    {Garbled} \union
    {Holding(x) : x \in [entries : SUBSET c.entries, current : {c.current, NoKey}]}

=============================================================================
