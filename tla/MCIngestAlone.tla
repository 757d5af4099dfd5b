--------------------------- MODULE MCIngestAlone ---------------------------
(***************************************************************************)
(* Commits of several files: path 1 has two versions, path 2 a file with   *)
(* text or without any, path 3 the sidecar of a file.                      *)
(***************************************************************************)
EXTENDS Ingest

CONSTANTS a, b, c, e, s

MCPaths == {1, 2, 3}
MCSidecars == {3}
MCContents == {a, b, c, e, s}
MCEmpty == {e}
MCMayHold(p, x) == x \in CASE p = 1 -> {a, b} [] p = 2 -> {c, e} [] OTHER -> {s}
=============================================================================
