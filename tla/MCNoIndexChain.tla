-------------------------- MODULE MCNoIndexChain --------------------------
(***************************************************************************)
(* A root, a folder and a sidecar; layers that set at most two keys, and   *)
(* complete exclusions.                                                    *)
(***************************************************************************)
EXTENDS NoIndexChain, FiniteSets

CONSTANTS r, s

MCTexts == {r, s}

KeysSet(d) == {k \in {"no_index", "reason", "category", "author"} : d[k] # Unset}
              \cup {k \in {"typo", "stray"} : d[k]}
MCLayers == {d \in Mapping : \/ Cardinality(KeysSet(d)) <= 2
                             \/ KeysSet(d) = {"no_index", "reason", "category"}}
=============================================================================
