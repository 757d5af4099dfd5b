------------------------------ MODULE MCIngest ------------------------------
(***************************************************************************)
(* One evidence file with two versions: enough for the two threads to meet *)
(* at every step, with the manifest of one overtaking that of the other.   *)
(***************************************************************************)
EXTENDS Ingest

CONSTANTS a, b

MCPaths == {1}
MCContents == {a, b}
MCMayHold(p, x) == TRUE
=============================================================================
