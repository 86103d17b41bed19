-------------------------------- MODULE Maps --------------------------------
(* The maps and tables of the services: a map is a function whose domain   *)
(* is the set of its keys.                                                 *)

(* map.set(key, value), and the insertion of a row.                        *)
Put(map, key, value) ==
  [k \in {key} \cup DOMAIN map |-> IF k = key THEN value ELSE map[k]]
=============================================================================
