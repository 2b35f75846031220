------------------------------ MODULE CacheTagsMC ------------------------------
(* Two items: one with a tag of its own, one that shares it. *)
EXTENDS CacheTags, TLC

CONSTANTS r1, r2, node, list, page, block

PageAndBlock == page :> {node, list} @@ block :> {node}
OnePage == page :> {node, list}
OneTag == page :> {node}

RequestSymmetry == Permutations(Requests)
================================================================================
