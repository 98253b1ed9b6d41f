------------------------------- MODULE Version -------------------------------
(***************************************************************************)
(* Kubernetes versions as pkg/internal/version parses and compares them.   *)
(*                                                                         *)
(* A parsed version has numeric components and, for a semantic version,    *)
(* the dot-separated identifiers of its pre-release.  An identifier is a   *)
(* number, or a word that stands at its place in the order of strings;     *)
(* digits come before letters.  Build metadata takes no part.              *)
(***************************************************************************)
EXTENDS Integers, Sequences, FiniteSetsExt

Num(n) == [num |-> TRUE, at |-> n]

Word(n) == [num |-> FALSE, at |-> n]

Alpha == Word(1)

Beta == Word(2)

Rc == Word(3)

Semantic(components, pre) == [components |-> components, semver |-> TRUE, pre |-> pre]

-----------------------------------------------------------------------------
(* The results of a comparison: 1, -1 and 0.                               *)
Sign(x, y) == IF y < x THEN 1 ELSE IF y > x THEN -1 ELSE 0

(* Two numbers are compared as numbers, anything else as strings.          *)
CompareIdentifier(a, b) ==
    IF a.num = b.num THEN Sign(a.at, b.at) ELSE IF a.num THEN -1 ELSE 1

(* The places that two sequences share, and the first comparison that      *)
(* decides.                                                                *)
Shared(s, t) == 1..Min({Len(s), Len(t)})

FirstDifference(results) ==
    LET differ == {i \in DOMAIN results : results[i] # 0}
    IN  IF differ = {} THEN 0 ELSE results[Min(differ)]

OnlyZeros(s, from) == \A i \in from..Len(s) : s[i] = 0

CompareInternal(v, other) ==
    LET numbers == FirstDifference([i \in Shared(v.components, other.components) |->
                                      Sign(v.components[i], other.components[i])])
        words   == FirstDifference([i \in Shared(v.pre, other.pre) |->
                                      CompareIdentifier(v.pre[i], other.pre[i])])
        vLen    == Len(v.components)
        oLen    == Len(other.components)
    IN  CASE numbers # 0 -> numbers
          [] oLen < vLen /\ ~OnlyZeros(v.components, oLen + 1) -> 1
          [] oLen > vLen /\ ~OnlyZeros(other.components, vLen + 1) -> -1
          [] OTHER ->
             IF ~v.semver \/ ~other.semver \/ v.pre = other.pre THEN 0
             ELSE IF v.pre = <<>> THEN 1
             ELSE IF other.pre = <<>> THEN -1
             ELSE IF words # 0 THEN words
             ELSE Sign(Len(v.pre), Len(other.pre))

LessThan(v, other) == CompareInternal(v, other) = -1

=============================================================================
