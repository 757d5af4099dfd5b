--------------------------- MODULE MCCommitStream ---------------------------
(***************************************************************************)
(* Two commits and one message without a sha, two of which can share a     *)
(* batch, on a stream that delivers each message at most twice: one retry, *)
(* then the last delivery.                                                 *)
(***************************************************************************)
EXTENDS CommitStream

CONSTANTS m1, m2, bad, f1

MCMsgs == {m1, m2, bad}
MCPoison == {bad}
MCFiles == {f1}
=============================================================================
