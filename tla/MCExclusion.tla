---------------------------- MODULE MCExclusion ----------------------------
(***************************************************************************)
(* Two evidence files in one folder; a prefix that covers the folder and   *)
(* one that covers the first of them only.                                 *)
(***************************************************************************)
EXTENDS Exclusion

CONSTANTS f, g, p, q, folder, single

MCFiles == {f, g}
MCPaths == {p, q}
MCPathOf == [x \in MCFiles |-> IF x = f THEN p ELSE q]
MCPrefixes == {folder, single}
MCCovers == [x \in MCPrefixes |-> IF x = folder THEN {p, q} ELSE {p}]
=============================================================================
