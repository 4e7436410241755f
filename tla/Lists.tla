------------------------------- MODULE Lists -------------------------------
(***************************************************************************)
(* Python's lists and dicts as sequences.  A dict keeps the order in which *)
(* its keys came: it is a sequence of records with a `key` each.           *)
(***************************************************************************)
EXTENDS Naturals, Sequences, FiniteSets, SequencesExt

CONSTANTS
    None,          \* Python's None
    Rank           \* [IDs and kinds -> Nat]: the byte order of keys

Keys(s) == {s[n].key : n \in DOMAIN s}
IndexOf(s, key) == CHOOSE n \in DOMAIN s : s[n].key = key
UniqueKeys(s) == \A m, n \in DOMAIN s : s[m].key = s[n].key => m = n

(* del d[key].                                                             *)
Drop(s, key) == RemoveAt(s, IndexOf(s, key))

(* The elements of S, each of a rank of its own, from the first to the     *)
(* last: sorted(S, key=rank).                                              *)
Ordered(S, rank) ==
    [n \in 1..Cardinality(S) |->
       CHOOSE x \in S : Cardinality({y \in S : rank[y] < rank[x]}) = n - 1]

(* A dict and a list of strings by the byte order of the keys.             *)
SortEntries(s) == Ordered(Range(s), [e \in Range(s) |-> Rank[e.key]])
SortKinds(s) == Ordered(Range(s), [k \in Range(s) |-> Rank[k]])

(* What s has at these places, in order: [s[n] for n in places].           *)
Chosen(s, places) ==
    LET at == Ordered(places, [n \in places |-> n])
    IN  [k \in DOMAIN at |-> s[at[k]]]

(* `x or []` and `x or None`.                                              *)
OrEmpty(s) == IF s = None THEN <<>> ELSE s
OrNone(s) == IF s = <<>> THEN None ELSE s
=============================================================================
