------------------------------- MODULE Tables -------------------------------
(***************************************************************************)
(* The program keeps what it knows per shutter in Python dictionaries.  A  *)
(* dictionary is a function whose domain is the set of keys it holds, so   *)
(* "s in self._movements" is s \in DOMAIN movement.                        *)
(***************************************************************************)

\* A dictionary with nothing in it.
EmptyTable == [k \in {} |-> 0]

\* d[k] = v
Put(f, k, v) == [x \in DOMAIN f \cup {k} |-> IF x = k THEN v ELSE f[x]]

\* d.pop(k, None)
Drop(f, k) == [x \in DOMAIN f \ {k} |-> f[x]]

\* f is a dictionary whose keys are in K and whose values are in V.
IsTable(f, K, V) == DOMAIN f \subseteq K /\ f \in [DOMAIN f -> V]
=============================================================================
