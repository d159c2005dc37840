------------------------------ MODULE OrderedMap ------------------------------
(***************************************************************************)
(* std::map<int, V> as both stores use it: a function from a finite set of *)
(* integers.  Iterating over a map visits its keys in ascending order.     *)
(***************************************************************************)
EXTENDS Integers, SequencesExt

EmptyMap == <<>>

\* map::insert of a new key, and map::operator[] = v.
Put(m, k, v) ==
  [j \in DOMAIN m \cup {k} |-> IF j = k THEN v ELSE m[j]]

\* map::erase: no effect when the key is absent.
Erase(m, k) == Restrict(m, DOMAIN m \ {k})

Ascending(s) == \A i, j \in DOMAIN s : i < j => s[i] < s[j]

\* The keys of a map in the order of a loop from begin() to end().
Keys(m) ==
  CHOOSE s \in [1..Cardinality(DOMAIN m) -> DOMAIN m] : Ascending(s)

\* What that loop sees: <<key, value>> pairs by key.
InOrder(m) ==
  LET keys == Keys(m)
  IN  [i \in 1..Cardinality(DOMAIN m) |-> <<keys[i], m[keys[i]]>>]

===============================================================================
