-------------------------------- MODULE Maps --------------------------------
(***************************************************************************)
(* The JavaScript Map operations the modelled classes are built from, on   *)
(* finite partial functions.                                               *)
(***************************************************************************)

EmptyMap == [x \in {} |-> x]

\* map.set(k, v)
Put(m, k, v) == [x \in DOMAIN m \cup {k} |-> IF x = k THEN v ELSE m[x]]

\* map.delete(k) for every k in ks
Drop(m, ks) == [x \in DOMAIN m \ ks |-> m[x]]

\* The maps with keys in S and values in T.
PartialFcn(S, T) == UNION {[D -> T] : D \in SUBSET S}
=============================================================================
